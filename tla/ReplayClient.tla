---------------------------- MODULE ReplayClient ----------------------------
(***************************************************************************)
(* How a client's picture of the journal is kept whole: the bounded replay *)
(* stream of a hub (replayStream.ts), the journal it reads, with the       *)
(* maintenance child that deletes rows of it (journal.ts), and the web     *)
(* client's store (store.svelte.ts): replay baseline, staged tail, applied *)
(* events, lazy history pages of one open chat, status reconciliation.     *)
(*                                                                         *)
(* Every journal row is a row of that chat which changes its status; a row *)
(* is its sequence number, and so is a status: that of the latest row it   *)
(* reflects.  A hub process is its socket: a flip or a crash of the hub    *)
(* drops the socket, and other processes write the journal between any     *)
(* two reads of it.                                                        *)
(***************************************************************************)
EXTENDS Naturals, FiniteSets, Sequences, FiniteSetsExt

CONSTANTS
    MaxSeq,      \* rows the journal may get
    Held,        \* how many of them it may hold when the client starts
    MaxGen,      \* generations of the journal: MaxGen - 1 condensations
    PageMax,     \* rows a replay page carries (REPLAY_MAX_QUEUED_FRAMES)
    HistMax,     \* rows a history page carries (JOURNAL_HISTORY_PAGE_MAX_ROWS)
    PendingMax,  \* live rows buffered until the next frame (1,024 in ingest)
    MaxLoads,    \* history reads in flight at a time
    MaxFaults,   \* dropped sockets, failed and timed-out reads
    Env          \* what else may happen, from Kinds

\* staleRoster: a roster read answers after a baseline was installed meanwhile
\* lateHistory: a history read answers after a newer one of the same view began
\* retryOlder:  Retry is pressed after a failed read, with an older page open
Kinds == {"staleRoster", "lateHistory", "retryOlder"}

ASSUME BoundsAssumption ==
    /\ {MaxSeq, MaxGen, PageMax, HistMax, PendingMax, MaxLoads} \subseteq Nat \ {0}
    /\ MaxFaults \in Nat /\ Held \subseteq 0..MaxSeq
ASSUME EnvAssumption == Env \subseteq Kinds

VARIABLES
    journal,  \* rows of the events table and journal_replay_state
    stream,   \* attachReplayStream() of the client's socket
    wire,     \* frames sent to the client and not yet handled
    ws,       \* the client's socket: "none", "open" or "closing"
    client,   \* the store's replay cursor, buffers and reconnect timer
    view,     \* the open chat as shown, with its history cursor
    load,     \* history reads in flight, in MaxLoads slots
    sync,     \* syncRecordsFromHub() in flight
    faults    \* faults so far
vars == <<journal, stream, wire, ws, client, view, load, sync, faults>>

Rows  == 1..MaxSeq
Seqs  == 0..MaxSeq
Gens  == 1..MaxGen
Slots == 1..MaxLoads

-----------------------------------------------------------------------------
(* The journal.                                                            *)

Checkpoint == [gen |-> journal.gen, high |-> journal.high, floor |-> journal.floor]
Present(a, b) == {r \in Rows : a < r /\ r <= b /\ r \notin journal.gone}
Sorted(S) == [i \in 1..Cardinality(S) |->
                CHOOSE r \in S : Cardinality({q \in S : q <= r}) = i]
Take(s, n) == SubSeq(s, 1, IF n < Len(s) THEN n ELSE Len(s))

\* boundedReplayPage(): the first PageMax rows, and whether that was not all
Page(after, through) ==
    LET rows == Take(Sorted(Present(after, through)), PageMax)
        last == IF rows = <<>> THEN after ELSE rows[Len(rows)]
    IN  [rows |-> rows, last |-> last, more |-> last < through]

\* sessionHistoryPage(): the last HistMax rows before a row, and the cursor to
\* the older ones (0 when there are none)
HistoryPage(before) ==
    LET all  == Present(0, before - 1)
        rows == {r \in all : Cardinality({q \in all : q > r}) < HistMax}
    IN  [rows |-> rows, older |-> IF rows = all THEN 0 ELSE Min(rows)]

\* A hub journals an event; any process may, at any time.
AppendRow ==
    /\ journal.high < MaxSeq
    /\ journal' = [journal EXCEPT !.high = @ + 1]
    /\ UNCHANGED <<stream, wire, ws, client, view, load, sync, faults>>

\* condenseCompletedCodex(): rows superseded by a later one are deleted, with a
\* checkpoint row in place of a deleted wseq anchor; generation and reset floor
\* advance in the same transaction.  (The history roll-up is never enabled.)
Condense ==
    \E D \in SUBSET Present(0, journal.high - 1), anchor \in {0, 1} :
        /\ D # {} /\ journal.gen < MaxGen
        /\ journal.high + anchor <= MaxSeq
        /\ journal' = [high  |-> journal.high + anchor,
                       gone  |-> journal.gone \union D,
                       gen   |-> journal.gen + 1,
                       floor |-> Max({journal.floor} \union D)]
        /\ UNCHANGED <<stream, wire, ws, client, view, load, sync, faults>>

-----------------------------------------------------------------------------
(* The hub's end of the socket: attachReplayStream().  Checkpoint and page *)
(* are two reads, and another process may commit between them.             *)

NoCheck  == [gen |-> 1, high |-> 0, floor |-> 0]
NoStream == [st |-> "none", gen |-> 0, cursor |-> 0, check |-> NoCheck]

StartFrame(c) == [t |-> "start", gen |-> c.gen, floor |-> c.floor, seq |-> 0]
RowFrame(r)   == [t |-> "row",   gen |-> 0, floor |-> 0, seq |-> r]
DoneFrame(g)  == [t |-> "done",  gen |-> g, floor |-> 0, seq |-> 0]
ResetFrame    == [t |-> "reset", gen |-> 0, floor |-> 0, seq |-> 0]

\* resetForGeneration() and the other resets: the control frame, then close, which
\* the client does too
Refuse ==
    /\ wire' = Append(wire, ResetFrame)
    /\ stream' = NoStream

\* the request's cursor and generation against the checkpoint
Refused(c) ==
    \/ stream.cursor > c.high
    \/ stream.cursor = 0 /\ c.high > 0
    \/ stream.gen # c.gen /\ stream.cursor < c.floor

StreamStart ==
    /\ stream.st = "asked"
    /\ IF Refused(Checkpoint)
         THEN Refuse
         ELSE /\ wire' = Append(wire, StartFrame(Checkpoint))
              /\ stream' = [stream EXCEPT !.st = "started", !.gen = journal.gen,
                                          !.check = Checkpoint]
    /\ UNCHANGED <<journal, ws, client, view, load, sync, faults>>

\* pollNow(), woken by the journal's event or by its timer
Poll ==
    /\ stream.st = "live"
    /\ journal.gen # stream.gen \/ journal.high > stream.cursor
    /\ IF journal.gen # stream.gen /\ stream.cursor < journal.floor
         THEN Refuse
         ELSE /\ stream' = [stream EXCEPT !.gen = journal.gen, !.check = Checkpoint,
                               !.st = IF journal.high > stream.cursor THEN "polled" ELSE @]
              /\ UNCHANGED wire
    /\ UNCHANGED <<journal, ws, client, view, load, sync, faults>>

\* Mutant: the page is sent without another look at the generation.
SendPageUnchecked ==
    LET page == Page(stream.cursor, stream.check.high)
        rows == [i \in 1..Len(page.rows) |-> RowFrame(page.rows[i])]
        done == IF stream.st = "started" THEN <<DoneFrame(journal.gen)>> ELSE <<>>
    IN  /\ stream.st \in {"started", "polled"}
        /\ IF page.more
             THEN Refuse
             ELSE /\ wire' = wire \o rows \o done
                  /\ stream' = [stream EXCEPT !.st = "live", !.gen = journal.gen,
                                              !.cursor = page.last]
        /\ UNCHANGED <<journal, ws, client, view, load, sync, faults>>

\* the page of a starting stream, followed by replay-complete, or of a poll
SendPage ==
    LET page == Page(stream.cursor, stream.check.high)
        rows == [i \in 1..Len(page.rows) |-> RowFrame(page.rows[i])]
        done == IF stream.st = "started" THEN <<DoneFrame(journal.gen)>> ELSE <<>>
    IN  /\ stream.st \in {"started", "polled"}
        /\ IF \/ journal.gen # stream.gen /\ stream.cursor < journal.floor
              \/ page.more
             THEN Refuse
             ELSE /\ wire' = wire \o rows \o done
                  /\ stream' = [stream EXCEPT !.st = "live", !.gen = journal.gen,
                                              !.cursor = page.last]
        /\ UNCHANGED <<journal, ws, client, view, load, sync, faults>>

-----------------------------------------------------------------------------
(* The client's socket and replay cursor.                                  *)

NoLoad == [st |-> "free", before |-> 1, late |-> FALSE]
NoSync == [st |-> "idle", from |-> 0, ver |-> 0, crossed |-> FALSE]
NoRefresh == [st |-> "no", gen |-> 0, high |-> 0]

NewLoad(kind, before) == [st |-> kind, before |-> before, late |-> FALSE]
Free(ls) == {i \in Slots : ls[i].st = "free"}
FreeSlot(ls) == {i \in Free(ls) : \A j \in Free(ls) : i <= j}

Fault == faults < MaxFaults /\ faults' = faults + 1

\* Mutant: no reconnect while the last replay has no generation to ask for.
WithTimerOnce(c) == IF c.refresh.st # "no" \/ c.gen = 0 THEN c ELSE [c EXCEPT !.timer = TRUE]

\* scheduleReconnect(): nothing while a baseline is being read
WithTimer(c) == IF c.refresh.st # "no" THEN c ELSE [c EXCEPT !.timer = TRUE]

\* connect() and reconnect(): the new socket is asked for the rows after lastSeq
Dialed(c) ==
    /\ ws' = "open" /\ wire' = <<>>
    /\ stream' = [NoStream EXCEPT !.st = "asked", !.gen = c.gen, !.cursor = c.last]
    /\ client' = [c EXCEPT !.timer = FALSE]

\* apply(), row by row: one at or before lastSeq is a duplicate
Fresh(c, q) == {q[i] : i \in {k \in DOMAIN q : /\ q[k] > c.last
                                               /\ \A j \in 1..(k - 1) : q[j] < q[k]}}
Apply(c, v, q) ==
    LET new == Fresh(c, q) IN
    IF new = {} THEN [last |-> c.last, rows |-> v.rows, status |-> v.status, fence |-> v.fence]
    ELSE [last |-> Max(new), rows |-> v.rows \union new, status |-> Max(new), fence |-> Max(new)]
Flushed(c, v, q, rest) ==
    LET a == Apply(c, v, q) IN
    /\ client' = [c EXCEPT !.last = a.last, !.pending = rest]
    /\ view' = [v EXCEPT !.rows = a.rows, !.status = a.status, !.fence = a.fence]

\* flushEvents(), from an animation frame or its timer
Flush ==
    /\ client.pending # <<>>
    /\ Flushed(client, view, client.pending, <<>>)
    /\ UNCHANGED <<journal, stream, wire, ws, load, sync, faults>>

\* Mutant: the reconnect timer runs beside the baseline read.
RequireBaselineTimed ==
    /\ client' = [client EXCEPT !.staging = FALSE, !.staged = <<>>, !.pending = <<>>,
                                !.timer = TRUE,
                                !.refresh = [NoRefresh EXCEPT !.st = "asked"]]
    /\ ws' = "closing" /\ wire' = <<>> /\ stream' = NoStream
    /\ UNCHANGED view

\* ingest() of a reset: buffers dropped, socket closed, baseline asked for
RequireBaseline ==
    /\ client' = [client EXCEPT !.staging = FALSE, !.staged = <<>>, !.pending = <<>>,
                                !.refresh = [NoRefresh EXCEPT !.st = "asked"]]
    /\ ws' = "closing" /\ wire' = <<>> /\ stream' = NoStream
    /\ UNCHANGED view

Keep(c) == client' = c /\ wire' = Tail(wire) /\ UNCHANGED <<ws, stream, view>>

ReceiveStart(m) ==
    /\ m.t = "start"
    /\ IF m.gen # client.gen /\ client.last < m.floor
         THEN RequireBaseline
         ELSE Keep([client EXCEPT !.gen = m.gen, !.staging = TRUE, !.staged = <<>>])

\* A staged tail is released whole at replay-complete, or dropped for a baseline
\* when its generation moved or it overflows what is already buffered.
ReceiveStaged(m) ==
    /\ client.staging /\ m.t \in {"row", "done"}
    /\ \/ /\ m.t = "row"
          /\ Keep([client EXCEPT !.staged = Append(@, m.seq)])
       \/ /\ m.t = "done" /\ (m.gen # client.gen \/ client.pending # <<>>)
          /\ RequireBaseline
       \/ /\ m.t = "done" /\ m.gen = client.gen
          /\ Keep([client EXCEPT !.staging = FALSE, !.staged = <<>>,
                                 !.pending = @ \o client.staged])

\* A live row, behind a flush when the buffer is full
ReceiveLive(m) ==
    /\ ~client.staging /\ m.t = "row"
    /\ IF Len(client.pending) >= PendingMax
         THEN Flushed(client, view, client.pending, <<m.seq>>)
         ELSE client' = [client EXCEPT !.pending = Append(@, m.seq)] /\ UNCHANGED view
    /\ wire' = Tail(wire) /\ UNCHANGED <<ws, stream>>

SocketClosed ==
    /\ ws' = "none" /\ wire' = <<>> /\ stream' = NoStream
    /\ client' = WithTimer([client EXCEPT !.staging = FALSE, !.staged = <<>>])
    /\ UNCHANGED view

Receive ==
    /\ ws = "open" /\ wire # <<>>
    /\ LET m == Head(wire) IN
        \/ ReceiveStart(m)
        \/ ReceiveStaged(m)
        \/ ReceiveLive(m)
        \/ m.t = "reset" /\ RequireBaseline
    /\ UNCHANGED <<journal, load, sync, faults>>

\* onclose of a socket the client closed
CloseSeen ==
    /\ ws = "closing" /\ SocketClosed
    /\ UNCHANGED <<journal, load, sync, faults>>

\* The socket drops: the network, backpressure, a hub that flips or dies.
Drop ==
    /\ ws = "open" /\ Fault /\ SocketClosed
    /\ UNCHANGED <<journal, load, sync>>

\* reconnect(), 1.5 s later: without a generation it needs a baseline first
TimerFires ==
    /\ client.timer
    /\ IF client.gen = 0
         THEN /\ client' = [client EXCEPT !.timer = FALSE,
                                          !.refresh = [NoRefresh EXCEPT !.st = "asked"]]
              /\ UNCHANGED <<ws, wire, stream>>
         ELSE Dialed(client)
    /\ UNCHANGED <<journal, view, load, sync, faults>>

\* GET /api/replay-baseline: one snapshot of the records and the checkpoint
BaselineRead ==
    /\ client.refresh.st = "asked"
    /\ client' = [client EXCEPT !.refresh =
                    [st |-> "read", gen |-> journal.gen, high |-> journal.high]]
    /\ UNCHANGED <<journal, stream, wire, ws, view, load, sync, faults>>

\* installReplayBaseline(), ensureHistory() of the open chat, connect().  Views
\* of another history are replaced: what is read for them is shown nowhere.
BaselineArrives ==
    LET b == client.refresh
        same == b.gen = client.gen /\ b.high >= client.last
        kept == IF same THEN view
                ELSE [view EXCEPT !.rows = {}, !.older = 0]
        left == IF same THEN load ELSE [i \in Slots |-> NoLoad]
    IN  /\ b.st = "read"
        /\ Dialed([client EXCEPT !.gen = b.gen, !.base = b.high, !.last = b.high,
                      !.pending = <<>>, !.staging = FALSE, !.staged = <<>>,
                      !.refresh = NoRefresh])
        /\ \E i \in FreeSlot(left) :
             load' = [left EXCEPT ![i] = NewLoad("latest", b.high + 1)]
        /\ view' = [kept EXCEPT !.status = b.high, !.fence = 0, !.pulled = TRUE,
                                !.loading = TRUE, !.failed = FALSE]
        /\ sync' = IF sync.st = "idle" THEN sync ELSE [sync EXCEPT !.crossed = TRUE]
        /\ UNCHANGED <<journal, faults>>

BaselineFails ==
    /\ client.refresh.st # "no" /\ Fault
    /\ client' = WithTimer([client EXCEPT !.refresh = NoRefresh, !.gen = 0])
    /\ UNCHANGED <<journal, stream, wire, ws, view, load, sync>>

-----------------------------------------------------------------------------
(* Lazy history of the open chat.                                          *)

\* readJournalHistoryPage() and installJournalHistoryWindow(): the page is merged
\* and its cursor becomes the view's, whatever was installed since it was asked
\* for.  A short latest page is followed by the one before it.  A request refused
\* because the generation moved is asked again for the generation the refusal
\* names, so the page is that of the journal as it is.
LoadArrives ==
    \E i \in Slots, more \in BOOLEAN :
        LET l == load[i]
            page == HistoryPage(l.before)
            others == [j \in Slots |->
                        IF l.st = "latest" /\ load[j].st # "free"
                          THEN [load[j] EXCEPT !.late = TRUE] ELSE load[j]]
        IN  /\ l.st # "free" /\ (l.late => "lateHistory" \in Env)
            /\ more => l.st = "latest" /\ page.older # 0
            /\ load' = [others EXCEPT ![i] =
                          IF more THEN NewLoad("older", page.older) ELSE NoLoad]
            /\ view' = [view EXCEPT !.rows = @ \union page.rows, !.older = page.older,
                                    !.loading = more]
    /\ UNCHANGED <<journal, stream, wire, ws, client, sync, faults>>

\* The read fails or times out: the error shows, and a latest page that was never
\* installed may be read again.
LoadFails ==
    \E i \in Slots :
        /\ load[i].st # "free"
        /\ IF load[i].late THEN UNCHANGED faults ELSE Fault
        /\ load' = [load EXCEPT ![i] = NoLoad]
        /\ view' = [view EXCEPT !.failed = TRUE, !.loading = FALSE,
                                !.pulled = @ /\ load[i].st # "latest"]
        /\ UNCHANGED <<journal, stream, wire, ws, client, sync>>

\* loadOlderHistory(), when the reader scrolls up; an earlier error is cleared.
LoadOlder ==
    /\ ~view.loading /\ view.older # 0
    /\ view.failed => "retryOlder" \in Env
    /\ \E i \in FreeSlot(load) :
        load' = [load EXCEPT ![i] = NewLoad("older", view.older)]
    /\ view' = [view EXCEPT !.loading = TRUE, !.failed = FALSE]
    /\ UNCHANGED <<journal, stream, wire, ws, client, sync, faults>>

\* retryHistory() without an older page, and ensureHistory() when the chat is
\* selected again: the latest page, once
EnsureHistory ==
    /\ ~view.loading
    /\ \/ view.failed /\ view.older = 0
       \/ ~view.pulled
    /\ \E i \in FreeSlot(load) :
        load' = [load EXCEPT ![i] = NewLoad("latest", client.base + 1)]
    /\ view' = [view EXCEPT !.loading = TRUE, !.failed = FALSE, !.pulled = TRUE]
    /\ UNCHANGED <<journal, stream, wire, ws, client, sync, faults>>

-----------------------------------------------------------------------------
(* syncRecordsFromHub(), every 5 s while connected: the roster's status,   *)
(* unless a status event newer than the request's start was applied.       *)

SyncStart ==
    /\ sync.st = "idle" /\ ws = "open"
    /\ sync' = [NoSync EXCEPT !.st = "asked", !.from = client.last]
    /\ UNCHANGED <<journal, stream, wire, ws, client, view, load, faults>>

SyncRead ==
    /\ sync.st = "asked"
    /\ sync' = [sync EXCEPT !.st = "read", !.ver = journal.high]
    /\ UNCHANGED <<journal, stream, wire, ws, client, view, load, faults>>

\* Mutant: the roster's status is taken as it comes.
SyncArrivesUnfenced ==
    /\ sync.st = "read" /\ (sync.crossed => "staleRoster" \in Env)
    /\ view' = [view EXCEPT !.status = sync.ver]
    /\ sync' = NoSync
    /\ UNCHANGED <<journal, stream, wire, ws, client, load, faults>>

SyncArrives ==
    /\ sync.st = "read" /\ (sync.crossed => "staleRoster" \in Env)
    /\ view' = IF view.fence <= sync.from THEN [view EXCEPT !.status = sync.ver] ELSE view
    /\ sync' = NoSync
    /\ UNCHANGED <<journal, stream, wire, ws, client, load, faults>>

SyncFails ==
    /\ sync.st # "idle"
    /\ IF sync.crossed THEN UNCHANGED faults ELSE Fault
    /\ sync' = NoSync
    /\ UNCHANGED <<journal, stream, wire, ws, client, view, load>>

-----------------------------------------------------------------------------
(* A client that has just installed its first baseline, with the chat open.*)

Init ==
    /\ \E h \in Held :
        /\ journal = [high |-> h, gone |-> {}, gen |-> 1, floor |-> 0]
        /\ client = [gen |-> 1, base |-> h, last |-> h, pending |-> <<>>, staging |-> FALSE,
                     staged |-> <<>>, timer |-> FALSE, refresh |-> NoRefresh]
        /\ view = [rows |-> {}, older |-> 0, pulled |-> TRUE, loading |-> TRUE,
                   failed |-> FALSE, status |-> h, fence |-> 0]
        /\ load = [[i \in Slots |-> NoLoad] EXCEPT ![1] = NewLoad("latest", h + 1)]
        /\ stream = [NoStream EXCEPT !.st = "asked", !.gen = 1, !.cursor = h]
    /\ wire = <<>> /\ ws = "open" /\ sync = NoSync /\ faults = 0

HubStep == StreamStart \/ Poll \/ SendPage
SyncStep == SyncRead \/ SyncArrives \/ SyncFails
LoadStep == LoadArrives \/ LoadFails
Next ==
    \/ AppendRow \/ Condense
    \/ HubStep
    \/ Flush \/ Receive \/ CloseSeen \/ Drop \/ TimerFires
    \/ BaselineRead \/ BaselineArrives \/ BaselineFails
    \/ LoadStep \/ LoadOlder \/ EnsureHistory
    \/ SyncStart \/ SyncStep

Spec == Init /\ [][Next]_vars

\* Nothing obliges the journal to grow, a reader to scroll or a fault to happen;
\* what the hub and the client have begun goes on: event loops, timers, and
\* requests that are answered or time out.
Fairness ==
    /\ WF_vars(HubStep) /\ WF_vars(Flush) /\ WF_vars(Receive) /\ WF_vars(CloseSeen)
    /\ WF_vars(TimerFires) /\ WF_vars(BaselineRead) /\ WF_vars(BaselineArrives)
    /\ WF_vars(LoadStep) /\ WF_vars(SyncStart) /\ WF_vars(SyncStep)
FairSpec == Spec /\ Fairness

-----------------------------------------------------------------------------
\* The journal, the stream and the client hold values of their types, and at most
\* one of the reconnect timer and the baseline read is pending.
TypeOK ==
    /\ journal \in [high : Seqs, gone : SUBSET Rows, gen : Gens, floor : Seqs]
    /\ stream.st \in {"none", "asked", "started", "live", "polled"}
    /\ stream.gen \in 0..MaxGen /\ stream.cursor \in Seqs
    /\ ws \in {"none", "open", "closing"}
    /\ client.gen \in 0..MaxGen /\ client.base \in Seqs /\ client.last \in Seqs
    /\ client.base <= client.last
    /\ ~(client.timer /\ client.refresh.st # "no")
    /\ view.rows \subseteq Rows /\ view.older \in Seqs
    /\ view.status \in Seqs /\ view.fence \in Seqs
    /\ \A i \in Slots : load[i].st \in {"free", "latest", "older"}
    /\ sync.st \in {"idle", "asked", "read"} /\ faults \in 0..MaxFaults

\* Since its baseline a client has applied every row up to its cursor: no page,
\* reset, generation change or reconnect lets it step over a row it never saw
\* (cursor checks of attachReplayStream(), staging in ingest(), apply()).
ReplayWhole == (client.base + 1)..client.last \subseteq view.rows

\* The shown chat has no hole above its "load older" cursor: once no history read
\* is in flight and no error is shown, each surviving row from the cursor to the
\* last applied one is on screen (installReplayBaseline(), ensureHistory()).
Loading == \E i \in Slots : load[i].st # "free"
TranscriptWhole ==
    ~Loading /\ ~view.failed =>
        \A r \in Present(0, client.last) : view.older <= r => r \in view.rows

\* SAFETY: the live stream and the history reads, which install their rows independently,
\* together leave no hole in what a client shows.
PaneWhole == ReplayWhole /\ TranscriptWhole

\* The status a chat shows is never older than the client's applied events: a
\* slow roster response does not undo a newer status event (latestStatusSeq).
StatusNotBehind == view.status >= client.last

\* A client always comes to show all that is journaled, and stays so, once rows
\* and faults stop: no reset, failed baseline or lost socket leaves it stranded.
CatchesUp == <>[](ws = "open" /\ client.last = journal.high /\ view.status = journal.high)

=============================================================================
