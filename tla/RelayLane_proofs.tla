-------------------------- MODULE RelayLane_proofs ---------------------------
(***************************************************************************)
(* For every number of hubs and relays, every bound and every environment  *)
(* of RelayLane: its types, that a hub process executes a relayed write    *)
(* once, and that no relay that waits without a bound is left to nobody;   *)
(* and, but for one kind of environment each, that calls are answered by   *)
(* their own execution and no decision becomes a standing grant.           *)
(***************************************************************************)
EXTENDS RelayLane, SequenceTheorems, TLAPS

-----------------------------------------------------------------------------
(* Lemmas about messages, sequences and sockets.                           *)

Relays == [req : Requests, timer : Timers]

\* Every message a worker or a hub builds is one of the protocol's.
LEMMA MessagesTyped ==
  /\ \A g \in Nat : Welcome(g) \in ToHubMsgs
  /\ \A r \in Requests : Relayed(r) \in ToHubMsgs
  /\ \A e \in Nat : Hello(e) \in ToWorkerMsgs
  /\ \A on \in BOOLEAN : Draining(on) \in ToWorkerMsgs
BY DEF Welcome, Relayed, Hello, Draining, ToHubMsgs, ToWorkerMsgs

LEMMA ReplyTyped ==
  ASSUME NEW r, r.id \in Nat, NEW of \in Nat, NEW by \in Nat, NEW who \in Deciders \cup {"hub"}
  PROVE  Reply(r, of, by, who) \in Replies /\ Reply(r, of, by, who) \in ToWorkerMsgs
BY DEF Reply, Replies, ToWorkerMsgs

\* What a frame's type says of its fields.
LEMMA FrameFields ==
  /\ \A m \in ToHubMsgs : /\ m.t = "welcome" => m.gen \in Nat
                          /\ m.t = "relay" => m.req \in Requests
                          /\ m.t \in {"welcome", "relay"}
  /\ \A m \in ToWorkerMsgs : /\ m.t = "hello" => m.epoch \in Nat
                             /\ m.t = "draining" => m.on \in BOOLEAN
                             /\ m.t = "reply" => m \in Replies /\ m.id \in Nat
BY DEF ToHubMsgs, ToWorkerMsgs, Replies

LEMMA OneElement == ASSUME NEW S, NEW a \in S PROVE <<a>> \in Seq(S)
OBVIOUS

\* A sequence without one of its elements has only elements it had.
LEMMA WithoutTyped ==
  ASSUME NEW S, NEW q \in Seq(S), NEW i \in DOMAIN q
  PROVE  /\ Without(q, i) \in Seq(S)
         /\ \A k \in DOMAIN Without(q, i) : \E j \in DOMAIN q : Without(q, i)[k] = q[j]
<1>1. i \in 1 .. Len(q) /\ Len(q) \in Nat
  OBVIOUS
<1>2. /\ SubSeq(q, 1, i - 1) \in Seq(S) /\ Len(SubSeq(q, 1, i - 1)) = i - 1
      /\ \A k \in 1 .. i - 1 : SubSeq(q, 1, i - 1)[k] = q[k]
  BY <1>1, SubSeqProperties
<1>3. /\ SubSeq(q, i + 1, Len(q)) \in Seq(S) /\ Len(SubSeq(q, i + 1, Len(q))) = Len(q) - i
      /\ \A k \in 1 .. Len(q) - i : SubSeq(q, i + 1, Len(q))[k] = q[i + k]
  BY <1>1, SubSeqProperties
<1> DEFINE a == SubSeq(q, 1, i - 1)
           b == SubSeq(q, i + 1, Len(q))
<1>4. Without(q, i) = a \o b
  BY DEF Without
<1> HIDE DEF a, b
<1>5. /\ a \in Seq(S) /\ Len(a) = i - 1 /\ \A k \in 1 .. i - 1 : a[k] = q[k]
      /\ b \in Seq(S) /\ Len(b) = Len(q) - i /\ \A k \in 1 .. Len(q) - i : b[k] = q[i + k]
  BY <1>2, <1>3 DEF a, b
<1>6. /\ a \o b \in Seq(S) /\ Len(a \o b) = Len(a) + Len(b)
      /\ \A k \in 1 .. Len(a) + Len(b) : (a \o b)[k] = IF k <= Len(a) THEN a[k] ELSE b[k - Len(a)]
  BY <1>5, ConcatProperties
<1>7. Len(a) + Len(b) = Len(q) - 1 /\ DOMAIN Without(q, i) = 1 .. Len(q) - 1
  BY <1>1, <1>4, <1>5, <1>6, SMTT(60)
<1>8. ASSUME NEW k \in 1 .. Len(q) - 1
      PROVE  \E j \in DOMAIN q : Without(q, i)[k] = q[j]
  <2>1. CASE k <= i - 1
    <3>1. k \in 1 .. i - 1 /\ k \in 1 .. Len(a) + Len(b) /\ k <= Len(a)
      BY <1>1, <1>5, <1>7, <2>1
    <3>2. Without(q, i)[k] = q[k]
      BY <1>4, <1>5, <1>6, <3>1
    <3>3. QED BY <1>1, <3>1, <3>2
  <2>2. CASE ~(k <= i - 1)
    <3>1. k - (i - 1) \in 1 .. Len(q) - i /\ i + (k - (i - 1)) = k + 1 /\ k + 1 \in DOMAIN q
      BY <1>1, <2>2
    <3>2. Without(q, i)[k] = b[k - (i - 1)]
      BY <1>1, <1>4, <1>5, <1>6, <1>7, <2>2
    <3>3. Without(q, i)[k] = q[k + 1]
      BY <1>5, <3>1, <3>2
    <3>4. QED BY <3>1, <3>3
  <2>3. QED BY <2>1, <2>2
<1>9. QED BY <1>4, <1>6, <1>7, <1>8

LEMMA FunctionIsSequence ==
  ASSUME NEW S, NEW n \in Nat, NEW f \in [1 .. n -> S]
  PROVE  f \in Seq(S)
OBVIOUS

LEMMA LaneElement ==
  ASSUME NEW p \in Seq(Relays), NEW i \in DOMAIN p
  PROVE  p[i] \in Relays /\ p[i].req \in Requests
<1>1. p[i] \in Relays
  <2> HIDE DEF Relays
  <2>1. QED OBVIOUS
<1>2. QED BY <1>1 DEF Relays

\* The lane as it is held and as it is sent.
LEMMA LaneTyped ==
  ASSUME NEW p \in Seq(Relays)
  PROVE  /\ Detached(p) \in Seq(Relays) /\ Flushed(p) \in Seq(Relays) /\ Frames(p) \in Seq(ToHubMsgs)
         /\ DOMAIN Detached(p) = DOMAIN p /\ DOMAIN Flushed(p) = DOMAIN p /\ DOMAIN Frames(p) = DOMAIN p
         /\ \A i \in DOMAIN p : /\ Detached(p)[i].req = p[i].req /\ Flushed(p)[i].req = p[i].req
                                /\ Frames(p)[i] = Relayed(p[i].req)
<1>1. Len(p) \in Nat /\ DOMAIN p = 1 .. Len(p) /\ \A i \in DOMAIN p : p[i] \in Relays
  OBVIOUS
<1>2. \A i \in DOMAIN p : /\ [p[i] EXCEPT !.timer = "reach"] \in Relays
                          /\ [p[i] EXCEPT !.timer = DeliveredTimer(p[i].req)] \in Relays
                          /\ Relayed(p[i].req) \in ToHubMsgs
  BY <1>1, MessagesTyped DEF Relays, Timers, DeliveredTimer
<1>3. /\ Detached(p) = [i \in 1 .. Len(p) |-> [p[i] EXCEPT !.timer = "reach"]]
      /\ Flushed(p) = [i \in 1 .. Len(p) |-> [p[i] EXCEPT !.timer = DeliveredTimer(p[i].req)]]
      /\ Frames(p) = [i \in 1 .. Len(p) |-> Relayed(p[i].req)]
  BY <1>1 DEF Detached, Flushed, Frames
<1>4. Detached(p) \in Seq(Relays) /\ Flushed(p) \in Seq(Relays) /\ Frames(p) \in Seq(ToHubMsgs)
  <2> HIDE DEF Relays
  <2>1. Detached(p) \in [1 .. Len(p) -> Relays]
    BY <1>1, <1>2, <1>3
  <2>2. Flushed(p) \in [1 .. Len(p) -> Relays]
    BY <1>1, <1>2, <1>3
  <2>3. Frames(p) \in [1 .. Len(p) -> ToHubMsgs]
    BY <1>1, <1>2, <1>3
  <2>4. Len(p) \in Nat
    BY <1>1
  <2>5. QED BY <2>1, <2>2, <2>3, <2>4, FunctionIsSequence
<1>5. ASSUME NEW i \in DOMAIN p
      PROVE  /\ Detached(p)[i].req = p[i].req /\ Flushed(p)[i].req = p[i].req
             /\ Frames(p)[i] = Relayed(p[i].req)
  BY <1>1, <1>3 DEF Relays
<1>6. QED BY <1>1, <1>3, <1>4, <1>5

\* Writing to the hub's end extends its queue, if the socket is whole, and nothing else.
LEMMA ToHubSends ==
  ASSUME NEW c \in [Hubs -> Channels], NEW h \in Hubs, NEW ms \in Seq(ToHubMsgs)
  PROVE  /\ ToHub(c, h, ms) \in [Hubs -> Channels]
         /\ \A k \in Hubs :
              /\ ToHub(c, h, ms)[k].link = c[k].link /\ ToHub(c, h, ms)[k].toWorker = c[k].toWorker
              /\ ToHub(c, h, ms)[k].toHub = IF k = h /\ c[h].link = "open" THEN c[h].toHub \o ms ELSE c[k].toHub
BY ConcatProperties DEF Channels, ToHub

LEMMA ToWorkerSends ==
  ASSUME NEW c \in [Hubs -> Channels], NEW h \in Hubs, NEW ms \in Seq(ToWorkerMsgs)
  PROVE  /\ ToWorker(c, h, ms) \in [Hubs -> Channels]
         /\ \A k \in Hubs :
              /\ ToWorker(c, h, ms)[k].link = c[k].link /\ ToWorker(c, h, ms)[k].toHub = c[k].toHub
              /\ ToWorker(c, h, ms)[k].toWorker =
                   IF k = h /\ hub[h].att /\ c[h].link = "open" THEN c[h].toWorker \o ms ELSE c[k].toWorker
BY ConcatProperties DEF Channels, ToWorker

LEMMA DestroyedChannel ==
  ASSUME NEW c \in [Hubs -> Channels], NEW h \in Hubs
  PROVE  /\ Destroyed(c, h) \in [Hubs -> Channels]
         /\ \A k \in Hubs \ {h} : Destroyed(c, h)[k] = c[k]
         /\ c[h].link = "open" => /\ Destroyed(c, h)[h].link = "workerGone"
                                  /\ Destroyed(c, h)[h].toHub = c[h].toHub
                                  /\ Destroyed(c, h)[h].toWorker = << >>
         /\ c[h].link = "workerGone" => Destroyed(c, h)[h] = c[h]
         /\ c[h].link \in {"none", "hubGone"} => Destroyed(c, h)[h] = Closed
<1>0. c[h] \in Channels
  OBVIOUS
<1>1. Closed \in Channels
  BY DEF Closed, Channels, Links
<1>2. CASE c[h].link = "open"
  BY <1>0, <1>2, EmptySeq DEF Channels, Links, Destroyed
<1>3. CASE c[h].link = "workerGone"
  BY <1>0, <1>3 DEF Destroyed
<1>4. CASE c[h].link \notin {"open", "workerGone"}
  BY <1>0, <1>1, <1>4 DEF Destroyed, Channels, Links
<1>5. QED BY <1>2, <1>3, <1>4


\* Reading takes the head of one queue.
LEMMA ReadFromChannel ==
  ASSUME chan \in [Hubs -> Channels], NEW h \in Hubs, NEW t, FromHub(h, t)
  PROVE  /\ Head(chan[h].toWorker) \in ToWorkerMsgs /\ Head(chan[h].toWorker).t = t
         /\ Head(chan[h].toWorker) = chan[h].toWorker[1] /\ 1 \in DOMAIN chan[h].toWorker
         /\ ReadFrom(h) \in [Hubs -> Channels]
         /\ \A k \in Hubs : /\ ReadFrom(h)[k].link = chan[k].link /\ ReadFrom(h)[k].toHub = chan[k].toHub
                            /\ k # h => ReadFrom(h)[k].toWorker = chan[k].toWorker
         /\ ReadFrom(h)[h].toWorker = Tail(chan[h].toWorker)
<1>1. chan[h].toWorker \in Seq(ToWorkerMsgs) /\ chan[h].toWorker # << >>
  BY DEF FromHub, Channels
<1>2. Head(chan[h].toWorker) \in ToWorkerMsgs /\ Tail(chan[h].toWorker) \in Seq(ToWorkerMsgs)
  BY <1>1, HeadTailProperties
<1>3. Head(chan[h].toWorker) = chan[h].toWorker[1] /\ 1 \in DOMAIN chan[h].toWorker
  BY <1>1
<1>4. QED BY <1>2, <1>3 DEF FromHub, ReadFrom, Channels

LEMMA ReadByHub ==
  ASSUME chan \in [Hubs -> Channels], NEW h \in Hubs, NEW t, FromWorker(h, t)
  PROVE  /\ Head(chan[h].toHub) \in ToHubMsgs /\ Head(chan[h].toHub).t = t
         /\ Head(chan[h].toHub) = chan[h].toHub[1] /\ 1 \in DOMAIN chan[h].toHub
         /\ ReadBy(h) \in [Hubs -> Channels]
         /\ \A k \in Hubs : /\ ReadBy(h)[k].link = chan[k].link /\ ReadBy(h)[k].toWorker = chan[k].toWorker
                            /\ k # h => ReadBy(h)[k].toHub = chan[k].toHub
         /\ ReadBy(h)[h].toHub = Tail(chan[h].toHub)
<1>1. chan[h].toHub \in Seq(ToHubMsgs) /\ chan[h].toHub # << >>
  BY DEF FromWorker, Channels
<1>2. Head(chan[h].toHub) \in ToHubMsgs /\ Tail(chan[h].toHub) \in Seq(ToHubMsgs)
  BY <1>1, HeadTailProperties
<1>3. Head(chan[h].toHub) = chan[h].toHub[1] /\ 1 \in DOMAIN chan[h].toHub
  BY <1>1
<1>4. QED BY <1>2, <1>3 DEF FromWorker, ReadBy, Channels

-----------------------------------------------------------------------------
(* Type correctness.                                                       *)

HubsOK == hub \in [Hubs -> HubStates]
ChansOK == chan \in [Hubs -> Channels]

LEMMA HubNumbers == Hubs \subseteq Nat \ {0} /\ None \in Nat /\ None \notin Hubs
BY BoundsAssumption DEF Hubs, None

\* The records of hubs that run, and of those that do not.
LEMMA HubsTyped ==
  /\ \A role \in Roles : NoHub(role) \in HubStates
  /\ \A role \in Roles, e \in Nat : NewHub(role, e) \in HubStates
<1>1. << >> \in Seq(Requests) /\ {} \in SUBSET [id : Nat, of : Nat]
  BY EmptySeq
<1>2. ASSUME NEW role \in Roles
      PROVE  NoHub(role) \in HubStates
  BY <1>1 DEF NoHub, HubStates
<1>3. ASSUME NEW role \in Roles, NEW e \in Nat
      PROVE  NewHub(role, e) \in HubStates
  <2>1. NoHub(role) \in HubStates
    BY <1>2
  <2>2. QED BY <2>1 DEF NewHub, HubStates
<1>4. QED BY <1>2, <1>3

LEMMA HubUpdates ==
  ASSUME NEW r \in HubStates, NEW m \in Nat, NEW n \in Nat
  PROVE  /\ [r EXCEPT !.asked = m, !.waiting = n] \in HubStates
         /\ \A role \in Roles : [r EXCEPT !.role = role, !.epoch = n] \in HubStates
BY DEF HubStates

LEMMA ClosedTyped ==
  /\ Closed \in Channels /\ Closed.link = "none" /\ Closed.toHub = << >> /\ Closed.toWorker = << >>
  /\ \A l \in Links : [Closed EXCEPT !.link = l] \in Channels
BY EmptySeq DEF Closed, Channels, Links

LEMMA TypeInit == Init => TypeOK
<1> SUFFICES ASSUME Init PROVE TypeOK
  OBVIOUS
<1>1. hub \in [Hubs -> HubStates]
  BY HubsTyped DEF Init, Roles
<1>2. chan \in [Hubs -> Channels]
  BY ClosedTyped DEF Init
<1>3. << >> \in Seq(Relays) /\ << >> \in Seq(Requests) /\ << >> \in Seq(SUBSET Hubs)
  BY EmptySeq
<1>4. SupervisorOK /\ WorkerOK
  BY <1>3 DEF Init, SupervisorOK, WorkerOK, Relays
<1>5. DurableOK
  BY HubNumbers DEF Init, DurableOK, NoDecision, Deciders
<1>6. GhostsOK
  BY <1>3 DEF Init, GhostsOK
<1>7. QED BY <1>1, <1>2, <1>4, <1>5, <1>6 DEF Init, TypeOK

\* A step that leaves the variables of a part alone leaves its types alone.
LEMMA UnchangedGroups ==
  ASSUME TypeOK
  PROVE  /\ UNCHANGED supervisor => SupervisorOK'
         /\ UNCHANGED worker => WorkerOK'
         /\ UNCHANGED durable => DurableOK'
         /\ UNCHANGED ghosts => GhostsOK'
BY DEF TypeOK, SupervisorOK, WorkerOK, DurableOK, GhostsOK, supervisor, worker, durable, ghosts

\* relay() leaves a lane and sockets.
LEMMA RelayTyped ==
  ASSUME TypeOK, NEW r \in Requests, Relay(r)
  PROVE  pend' \in Seq(Relays) /\ ChansOK'
<1>1. pend \in Seq(Relays) /\ chan \in [Hubs -> Channels] /\ current \in Hubs \cup {None}
  BY DEF TypeOK, WorkerOK, Relays
<1>2. CASE Len(pend) >= QueueMax
  BY <1>1, <1>2 DEF Relay, ChansOK
<1>3. CASE ~(Len(pend) >= QueueMax)
  <2>1. [req |-> r, timer |-> IF Ready THEN DeliveredTimer(r) ELSE "reach"] \in Relays
    BY DEF Relays, Timers, DeliveredTimer
  <2>2. pend' \in Seq(Relays)
    BY <1>1, <1>3, <2>1, AppendProperties DEF Relay
  <2>3. CASE Ready
    <3>1. <<Relayed(r)>> \in Seq(ToHubMsgs)
      BY MessagesTyped, OneElement
    <3>2. chan' = ToHub(chan, current, <<Relayed(r)>>) /\ current \in Hubs
      BY <1>1, <1>3, <2>3 DEF Relay, Ready
    <3>3. QED BY <1>1, <2>2, <3>1, <3>2, ToHubSends DEF ChansOK
  <2>4. CASE ~Ready
    BY <1>1, <1>3, <2>2, <2>4 DEF Relay, ChansOK
  <2>5. QED BY <2>3, <2>4
<1>4. QED BY <1>2, <1>3

LEMMA AgentTypeStep ==
  ASSUME TypeOK, Call \/ Ask \/ RelayTimeout
  PROVE  TypeOK'
<1>1. /\ pend \in Seq(Relays) /\ seq \in Nat /\ gen \in Nat /\ issued \in Nat
      /\ decided \in Seq(SUBSET Hubs)
  BY DEF TypeOK, WorkerOK, GhostsOK, Relays
<1>2. Append(decided, {}) \in Seq(SUBSET Hubs)
  BY <1>1, AppendProperties
<1>3. CASE Call
  <2>1. PICK k \in Kinds \ {"approval"} : Relay([kind |-> k, id |-> seq', of |-> gen])
    BY <1>3 DEF Call
  <2>2. [kind |-> k, id |-> seq', of |-> gen] \in Requests
    BY <1>1, <1>3, KindsAssumption DEF Call, Requests
  <2>3. pend' \in Seq(Relays) /\ ChansOK'
    BY <2>1, <2>2, RelayTyped
  <2>4. WorkerOK'
    BY <1>1, <1>3, <2>3 DEF Call, TypeOK, WorkerOK, Relays
  <2>5. GhostsOK'
    BY <1>1, <1>2, <1>3 DEF Call, TypeOK, GhostsOK
  <2>6. QED BY <1>3, <2>3, <2>4, <2>5, UnchangedGroups DEF Call, TypeOK, ChansOK
<1>4. CASE Ask
  <2>1. [kind |-> "approval", id |-> 0, of |-> issued'] \in Requests
    BY <1>1, <1>4 DEF Ask, Requests, AllKinds
  <2>2. Relay([kind |-> "approval", id |-> 0, of |-> issued'])
    BY <1>4 DEF Ask
  <2>3. pend' \in Seq(Relays) /\ ChansOK'
    BY <2>1, <2>2, RelayTyped
  <2>4. WorkerOK'
    BY <1>1, <1>4, <2>3 DEF Ask, TypeOK, WorkerOK, Relays
  <2>5. GhostsOK'
    BY <1>1, <1>2, <1>4 DEF Ask, TypeOK, GhostsOK
  <2>6. QED BY <1>4, <2>3, <2>4, <2>5, UnchangedGroups DEF Ask, TypeOK, ChansOK
<1>5. CASE RelayTimeout
  BY <1>1, <1>5, WithoutTyped, UnchangedGroups DEF RelayTimeout, TypeOK, WorkerOK, Relays
<1>6. QED BY <1>3, <1>4, <1>5

LEMMA WorkerTypeStep ==
  ASSUME TypeOK, NEW h \in Hubs, WorkerSteps(h)
  PROVE  TypeOK'
<1>1. /\ pend \in Seq(Relays) /\ gen \in Nat /\ chan \in [Hubs -> Channels]
      /\ current \in Hubs \cup {None}
  BY DEF TypeOK, WorkerOK, Relays
<1>2. /\ Detached(pend) \in Seq(Relays) /\ Flushed(pend) \in Seq(Relays)
      /\ Frames(pend) \in Seq(ToHubMsgs)
  BY <1>1, LaneTyped
<1>3. CASE RecvHello(h)
  <2>1. /\ ReadFrom(h) \in [Hubs -> Channels] /\ Head(chan[h].toWorker).epoch \in Nat
    BY <1>1, <1>3, ReadFromChannel, FrameFields DEF RecvHello
  <2>2. CASE Head(chan[h].toWorker).epoch < currentEpoch
    BY <1>3, <2>1, <2>2, DestroyedChannel, UnchangedGroups DEF RecvHello, TypeOK, WorkerOK
  <2>3. CASE ~(Head(chan[h].toWorker).epoch < currentEpoch)
    <3> DEFINE prev == IF current \in {None, h} THEN ReadFrom(h) ELSE Destroyed(ReadFrom(h), current)
    <3>1. prev \in [Hubs -> Channels]
      BY <1>1, <2>1, DestroyedChannel
    <3>2. <<Welcome(gen)>> \o Frames(pend) \in Seq(ToHubMsgs)
      BY <1>1, <1>2, MessagesTyped, OneElement, ConcatProperties
    <3>3. chan' = ToHub(prev, h, <<Welcome(gen)>> \o Frames(pend))
      BY <1>3, <2>3 DEF RecvHello
    <3> HIDE DEF prev
    <3>4. chan' \in [Hubs -> Channels]
      BY <3>1, <3>2, <3>3, ToHubSends
    <3>5. WorkerOK'
      BY <1>2, <1>3, <2>1, <2>3 DEF RecvHello, TypeOK, WorkerOK, Relays
    <3>6. QED BY <1>3, <3>4, <3>5, UnchangedGroups DEF RecvHello, TypeOK
  <2>4. QED BY <2>2, <2>3
<1>4. CASE RecvDraining(h)
  <2>1. ReadFrom(h) \in [Hubs -> Channels] /\ Head(chan[h].toWorker).on \in BOOLEAN
    BY <1>1, <1>4, ReadFromChannel, FrameFields DEF RecvDraining
  <2>2. ToHub(ReadFrom(h), h, Frames(pend)) \in [Hubs -> Channels]
    BY <1>2, <2>1, ToHubSends
  <2>3. /\ pend' \in Seq(Relays) /\ chan' \in [Hubs -> Channels] /\ draining' \in BOOLEAN
    BY <1>1, <1>2, <1>4, <2>1, <2>2 DEF RecvDraining, TypeOK, WorkerOK
  <2>4. WorkerOK'
    BY <1>4, <2>3 DEF RecvDraining, TypeOK, WorkerOK, Relays
  <2>5. QED BY <1>4, <2>3, <2>4, UnchangedGroups DEF RecvDraining, TypeOK
<1>5. CASE RecvReply(h)
  <2> DEFINE m    == Head(chan[h].toWorker)
             hits == {i \in DOMAIN pend : pend[i].req.id = m.id}
  <2>1. ReadFrom(h) \in [Hubs -> Channels] /\ m \in Replies
    BY <1>1, <1>5, ReadFromChannel, FrameFields DEF RecvReply
  <2>2. pend' \in Seq(Relays) /\ answers' \subseteq [req : Requests, reply : Replies, at : Hubs]
    <3>1. CASE hits = {}
      BY <1>1, <1>5, <3>1 DEF RecvReply, TypeOK, GhostsOK
    <3>2. CASE hits # {}
      <4>1. PICK i \in hits : /\ pend' = Without(pend, i)
                              /\ answers' = answers \cup {[req |-> pend[i].req, reply |-> m, at |-> h]}
        BY <1>5, <3>2 DEF RecvReply
      <4>2. i \in DOMAIN pend
        OBVIOUS
      <4>3. pend[i].req \in Requests
        BY <1>1, <4>2, LaneElement
      <4>4. pend' \in Seq(Relays)
        BY <1>1, <4>1, <4>2, WithoutTyped
      <4> HIDE DEF m
      <4>5. [req |-> pend[i].req, reply |-> m, at |-> h] \in [req : Requests, reply : Replies, at : Hubs]
        BY <2>1, <4>3
      <4>6. QED BY <4>1, <4>4, <4>5 DEF TypeOK, GhostsOK
    <3>3. QED BY <3>1, <3>2
  <2>3. WorkerOK'
    BY <1>5, <2>2 DEF RecvReply, TypeOK, WorkerOK, Relays
  <2>4. GhostsOK'
    BY <1>5, <2>2 DEF RecvReply, TypeOK, GhostsOK
  <2>5. QED BY <1>5, <2>1, <2>3, <2>4, UnchangedGroups DEF RecvReply, TypeOK
<1>6. CASE WorkerNotices(h)
  BY <1>1, <1>2, <1>6, ClosedTyped, UnchangedGroups DEF WorkerNotices, TypeOK, WorkerOK, Relays
<1>7. QED BY <1>3, <1>4, <1>5, <1>6 DEF WorkerSteps

LEMMA WorkerDeathTyped ==
  ASSUME TypeOK, WorkerDeath
  PROVE  TypeOK'
<1>1. << >> \in Seq(Relays)
  BY EmptySeq
<1>2. chan \in [Hubs -> Channels]
  BY DEF TypeOK
<1>3. \A h \in Hubs : Destroyed(chan, h)[h] \in Channels
  BY <1>2, DestroyedChannel
<1>4. chan' \in [Hubs -> Channels]
  BY <1>3 DEF WorkerDeath
<1>5. WorkerOK'
  <2>1. pend' = << >> /\ pend' \in Seq([req : Requests, timer : Timers])
    BY <1>1 DEF WorkerDeath, Relays
  <2>2. gen' \in Nat
    BY DEF WorkerDeath, TypeOK, WorkerOK
  <2>3. draining' \in BOOLEAN
    BY DEF WorkerDeath
  <2>4. seq' \in Nat /\ currentEpoch' \in Nat
    BY DEF WorkerDeath
  <2>5. current' \in Hubs \cup {None}
    BY DEF WorkerDeath
  <2>6. QED BY <2>1, <2>2, <2>3, <2>4, <2>5 DEF WorkerOK
<1>6. faults' \in Nat
  BY DEF WorkerDeath, TypeOK
<1>7. QED BY <1>4, <1>5, <1>6, UnchangedGroups DEF WorkerDeath, TypeOK

\* The relay a hub reads.
LEMMA RequestTyped ==
  ASSUME TypeOK, NEW h \in Hubs, FromWorker(h, "relay")
  PROVE  Request(h) \in Requests /\ Request(h).id \in Nat /\ Request(h).of \in Nat
BY ReadByHub, FrameFields DEF TypeOK, Request, Requests

\* A hub reads a relay and answers it.
LEMMA AnsweredTyped ==
  ASSUME TypeOK, NEW h \in Hubs, FromWorker(h, "relay"), NEW of \in Nat, NEW by \in Nat,
         NEW who \in Deciders \cup {"hub"}
  PROVE  ToWorker(ReadBy(h), h, <<Reply(Request(h), of, by, who)>>) \in [Hubs -> Channels]
BY RequestTyped, ReplyTyped, OneElement, ReadByHub, ToWorkerSends DEF TypeOK

LEMMA ExecutedTyped ==
  ASSUME TypeOK, NEW h \in Hubs, FromWorker(h, "relay"), Executed(h),
         UNCHANGED <<issued, answers, decided>>
  PROVE  GhostsOK'
BY RequestTyped, AppendProperties DEF TypeOK, GhostsOK, Executed

LEMMA RpcTypeStep ==
  ASSUME TypeOK, NEW h \in Hubs, ServeWrite(h) \/ StartAction(h) \/ FinishAction(h)
  PROVE  TypeOK'
<1>1. /\ chan \in [Hubs -> Channels] /\ hub \in [Hubs -> HubStates] /\ hub[h] \in HubStates
      /\ h \in Nat
  BY HubNumbers DEF TypeOK
<1>2. CASE ServeWrite(h)
  <2> DEFINE r    == Request(h)
             hits == {s \in hub[h].served : s.id = r.id}
  <2>1. r \in Requests /\ r.id \in Nat /\ r.of \in Nat /\ FromWorker(h, "relay")
    BY <1>2, RequestTyped DEF ServeWrite
  <2>2. CASE hits # {}
    <3>1. PICK s \in hits : chan' = ToWorker(ReadBy(h), h, <<Reply(r, s.of, h, "hub")>>)
      BY <1>2, <2>2 DEF ServeWrite
    <3>2. s.of \in Nat
      BY <1>1 DEF HubStates
    <3>3. chan' \in [Hubs -> Channels]
      BY <1>1, <2>1, <3>1, <3>2, AnsweredTyped
    <3>4. QED BY <1>2, <2>2, <3>3, UnchangedGroups DEF ServeWrite, TypeOK, ghosts
  <2>3. CASE hits = {}
    <3>1. /\ hub' = [hub EXCEPT ![h].served = @ \cup {[id |-> r.id, of |-> r.of]}]
          /\ chan' = ToWorker(ReadBy(h), h, <<Reply(r, r.of, h, "hub")>>)
          /\ Executed(h)
      BY <1>2, <2>3 DEF ServeWrite
    <3> HIDE DEF r
    <3>2. hub' \in [Hubs -> HubStates]
      <4>1. hub[h].served \cup {[id |-> r.id, of |-> r.of]} \in SUBSET [id : Nat, of : Nat]
        BY <1>1, <2>1 DEF HubStates
      <4>2. QED BY <1>1, <3>1, <4>1 DEF HubStates
    <3>3. chan' \in [Hubs -> Channels]
      BY <1>1, <2>1, <3>1, AnsweredTyped DEF r
    <3>4. GhostsOK'
      BY <1>2, <2>1, <3>1, ExecutedTyped DEF ServeWrite
    <3>5. QED BY <1>2, <3>2, <3>3, <3>4, UnchangedGroups DEF ServeWrite, TypeOK
  <2>4. QED BY <2>2, <2>3
<1>3. CASE StartAction(h)
  <2>1. FromWorker(h, "relay") /\ Request(h) \in Requests
    BY <1>3, RequestTyped DEF StartAction
  <2>2. Append(hub[h].running, Request(h)) \in Seq(Requests)
    BY <1>1, <2>1, AppendProperties DEF HubStates
  <2>3. hub' \in [Hubs -> HubStates]
    BY <1>1, <1>3, <2>2 DEF StartAction, HubStates
  <2>4. chan' \in [Hubs -> Channels]
    BY <1>1, <1>3, <2>1, ReadByHub DEF StartAction
  <2>5. GhostsOK'
    BY <1>3, <2>1, ExecutedTyped DEF StartAction
  <2>6. QED BY <1>3, <2>3, <2>4, <2>5, UnchangedGroups DEF StartAction, TypeOK
<1>4. CASE FinishAction(h)
  <2>1. PICK i \in DOMAIN hub[h].running :
          /\ hub' = [hub EXCEPT ![h].running = Without(@, i)]
          /\ chan' = ToWorker(chan, h, <<Reply(hub[h].running[i], hub[h].running[i].of, h, "hub")>>)
    BY <1>4 DEF FinishAction
  <2>2. hub[h].running \in Seq(Requests)
    BY <1>1 DEF HubStates
  <2>3. Without(hub[h].running, i) \in Seq(Requests)
    BY <2>2, WithoutTyped
  <2>4. hub' \in [Hubs -> HubStates]
    BY <1>1, <2>1, <2>3 DEF HubStates
  <2>5. hub[h].running[i] \in Requests
    BY <2>2
  <2>6. hub[h].running[i].id \in Nat /\ hub[h].running[i].of \in Nat
    BY <2>5 DEF Requests
  <2>7. <<Reply(hub[h].running[i], hub[h].running[i].of, h, "hub")>> \in Seq(ToWorkerMsgs)
    BY <1>1, <2>6, ReplyTyped, OneElement
  <2>8. chan' \in [Hubs -> Channels]
    BY <1>1, <2>1, <2>7, ToWorkerSends
  <2>9. QED BY <1>4, <2>4, <2>8, UnchangedGroups DEF FinishAction, TypeOK
<1>5. QED BY <1>2, <1>3, <1>4

\* finish() answers everyone who waits.
LEMMA FinishTyped ==
  ASSUME TypeOK, NEW h \in Hubs, NEW who \in Deciders, Finish(h, who)
  PROVE  HubsOK' /\ ChansOK' /\ DurableOK'
<1>1. /\ chan \in [Hubs -> Channels] /\ hub \in [Hubs -> HubStates] /\ h \in Nat
      /\ hub[h].asked \in Nat /\ hub[h].waiting \in Nat
  BY HubNumbers DEF TypeOK, HubStates
<1> DEFINE ms == [i \in 1 .. hub[h].waiting |-> Reply([id |-> 0], hub[h].asked, h, who)]
<1>2. /\ resolved' = [of |-> hub[h].asked, by |-> h, who |-> who]
      /\ chan' = ToWorker(chan, h, ms)
      /\ decider' = who
      /\ hub' = [hub EXCEPT ![h].asked = 0, ![h].waiting = 0, ![h].recovers = FALSE]
  BY DEF Finish
<1>3. Reply([id |-> 0], hub[h].asked, h, who) \in ToWorkerMsgs
  BY <1>1, ReplyTyped
<1>4. ms \in Seq(ToWorkerMsgs)
  BY <1>1, <1>3
<1> HIDE DEF ms
<1>5. ChansOK'
  BY <1>1, <1>2, <1>4, ToWorkerSends DEF ChansOK
<1>6. HubsOK'
  <2>1. hub[h] \in HubStates
    BY <1>1
  <2>2. [hub[h] EXCEPT !.asked = 0, !.waiting = 0, !.recovers = FALSE] \in HubStates
    BY <2>1 DEF HubStates
  <2>3. QED BY <1>1, <1>2, <2>2 DEF HubsOK
<1>7. DurableOK'
  BY <1>1, <1>2 DEF DurableOK
<1>8. QED BY <1>5, <1>6, <1>7

LEMMA ApprovalTypeStep ==
  ASSUME TypeOK, NEW h \in Hubs,
         \/ JoinAsk(h) \/ RecoverDecision(h) \/ AutoApprove(h) \/ AskOperator(h)
         \/ Decide(h) \/ Expire(h) \/ CloseWindow(h)
  PROVE  TypeOK'
<1>1. /\ chan \in [Hubs -> Channels] /\ hub \in [Hubs -> HubStates] /\ hub[h] \in HubStates
      /\ h \in Nat /\ DurableOK /\ {"system", "policy", "operator", "reviewer"} \subseteq Deciders
  BY HubNumbers DEF TypeOK, Deciders
<1>2. FromWorker(h, "relay") => /\ Request(h).of \in Nat /\ Request(h).id \in Nat
                                /\ ReadBy(h) \in [Hubs -> Channels]
  BY <1>1, RequestTyped, ReadByHub
<1>3. CASE JoinAsk(h)
  <2>0. hub[h].waiting + 1 \in Nat /\ Request(h).of \in Nat
    BY <1>1, <1>2, <1>3 DEF JoinAsk, HubStates
  <2>1. [hub[h] EXCEPT !.asked = Request(h).of, !.waiting = hub[h].waiting + 1] \in HubStates
    BY <1>1, <2>0, HubUpdates
  <2>2. hub' \in [Hubs -> HubStates] /\ chan' \in [Hubs -> Channels]
    BY <1>1, <1>2, <1>3, <2>1 DEF JoinAsk
  <2>3. QED BY <1>3, <2>2, UnchangedGroups DEF JoinAsk, TypeOK
<1>4. CASE RecoverDecision(h)
  <2>1. FromWorker(h, "relay")
    BY <1>4 DEF RecoverDecision, AskArrives
  <2>2. ChansOK'
    <3>1. CASE decider = "reviewer"
      BY <1>1, <1>2, <1>4, <2>1, <3>1, AnsweredTyped DEF RecoverDecision, ChansOK
    <3>2. CASE decider # "reviewer"
      BY <1>1, <1>4, <2>1, <3>2, AnsweredTyped DEF RecoverDecision, Recorded, DurableOK, ChansOK
    <3>3. QED BY <3>1, <3>2
  <2>3. hub' \in [Hubs -> HubStates]
    BY <1>1, <1>4 DEF RecoverDecision, HubStates
  <2>4. QED BY <1>4, <2>2, <2>3, UnchangedGroups DEF RecoverDecision, TypeOK, ChansOK
<1>5. CASE AutoApprove(h)
  BY <1>1, <1>2, <1>5, AnsweredTyped, UnchangedGroups DEF AutoApprove, AskArrives, DurableOK, TypeOK
<1>6. CASE AskOperator(h)
  BY <1>1, <1>2, <1>6, UnchangedGroups DEF AskOperator, AskArrives, HubStates, TypeOK
<1>7. CASE Decide(h)
  <2>1. HubsOK' /\ ChansOK' /\ DurableOK'
    BY <1>1, <1>7, FinishTyped DEF Decide
  <2>2. decided' \in Seq(SUBSET Hubs)
    <3>1. decided \in Seq(SUBSET Hubs)
      BY DEF TypeOK, GhostsOK
    <3> DEFINE a == hub[h].asked
    <3>2. decided' = [decided EXCEPT ![a] = @ \cup {h}]
      BY <1>7 DEF Decide
    <3>3. Len(decided) \in Nat /\ decided \in [1 .. Len(decided) -> SUBSET Hubs]
      BY <3>1, LenProperties
    <3> HIDE DEF a
    <3>4. decided' \in [1 .. Len(decided) -> SUBSET Hubs]
      BY <3>2, <3>3
    <3>5. QED BY <3>3, <3>4
  <2>3. GhostsOK'
    BY <1>7, <2>2 DEF Decide, TypeOK, GhostsOK
  <2>4. QED BY <1>7, <2>1, <2>3, UnchangedGroups DEF Decide, TypeOK, HubsOK, ChansOK
<1>8. CASE Expire(h)
  BY <1>1, <1>8, FinishTyped, UnchangedGroups DEF Expire, TypeOK, HubsOK, ChansOK
<1>9. CASE CloseWindow(h)
  BY <1>1, <1>9, UnchangedGroups DEF CloseWindow, HubStates, TypeOK
<1>10. QED BY <1>3, <1>4, <1>5, <1>6, <1>7, <1>8, <1>9

LEMMA SocketTypeStep ==
  ASSUME TypeOK, NEW h \in Hubs, Connect(h) \/ HubNotices(h) \/ RecvWelcome(h) \/ Flap(h)
  PROVE  TypeOK'
<1>1. /\ chan \in [Hubs -> Channels] /\ hub \in [Hubs -> HubStates] /\ hub[h] \in HubStates
  BY DEF TypeOK
<1>2. CASE Connect(h)
  BY <1>1, <1>2, MessagesTyped, OneElement, EmptySeq, UnchangedGroups DEF HubStates, Closed, Channels, Links,
     Connect, TypeOK
<1>3. CASE HubNotices(h)
  BY <1>1, <1>3, ClosedTyped, UnchangedGroups DEF HubNotices, HubStates, TypeOK
<1>4. CASE RecvWelcome(h)
  <2> DEFINE g == Head(chan[h].toHub).gen
  <2>1. g \in Nat /\ chan' \in [Hubs -> Channels]
    BY <1>1, <1>4, ReadByHub, FrameFields DEF RecvWelcome
  <2>2. hub' = [hub EXCEPT ![h].att = TRUE, ![h].gen = g,
                            ![h].served = IF hub[h].gen \in {0, g} THEN @ ELSE {}]
    BY <1>4 DEF RecvWelcome
  <2> HIDE DEF g
  <2>3. hub' \in [Hubs -> HubStates]
    BY <1>1, <2>1, <2>2 DEF HubStates
  <2>4. QED BY <1>4, <2>1, <2>3, UnchangedGroups DEF RecvWelcome, TypeOK
<1>5. CASE Flap(h)
  <2>1. chan' \in [Hubs -> Channels]
    BY <1>1, <1>5, ClosedTyped DEF Links, Flap
  <2>2. hub' \in [Hubs -> HubStates]
    <3>1. [hub[h] EXCEPT !.att = FALSE] \in HubStates
      BY <1>1 DEF HubStates
    <3>2. hub' = hub \/ hub' = [hub EXCEPT ![h].att = FALSE]
      BY <1>5 DEF Flap
    <3>3. QED BY <1>1, <3>1, <3>2
  <2>3. pend \in Seq(Relays) /\ Detached(pend) \in Seq(Relays)
    BY LaneTyped DEF TypeOK, WorkerOK, Relays
  <2>4. pend' \in Seq(Relays) /\ current' \in Hubs \cup {None}
    BY <1>5, <2>3 DEF Flap, TypeOK, WorkerOK
  <2>5. WorkerOK' /\ faults' \in Nat
    BY <1>5, <2>4 DEF Flap, TypeOK, WorkerOK, Relays
  <2>6. QED BY <1>5, <2>1, <2>2, <2>5, UnchangedGroups DEF Flap, TypeOK
<1>6. QED BY <1>2, <1>3, <1>4, <1>5

\* A process ends, with the sockets it held.
LEMMA DieTyped ==
  ASSUME TypeOK, NEW h \in Hubs, Die(h)
  PROVE  HubsOK' /\ ChansOK'
<1>1. /\ chan \in [Hubs -> Channels] /\ hub \in [Hubs -> HubStates] /\ chan[h] \in Channels
  BY DEF TypeOK
<1>2. HubsOK'
  BY <1>1, HubsTyped DEF Die, HubsOK, Roles
<1>3. [chan[h] EXCEPT !.link = "hubGone", !.toHub = << >>] \in Channels
  BY <1>1, EmptySeq DEF Channels, Links
<1>4. ChansOK'
  <2> DEFINE d == CASE chan[h].link = "open"    -> [chan[h] EXCEPT !.link = "hubGone", !.toHub = << >>]
                    [] chan[h].link = "hubGone" -> chan[h]
                    [] OTHER                    -> Closed
  <2>1. d \in Channels
    BY <1>1, <1>3, ClosedTyped
  <2>2. chan' = [chan EXCEPT ![h] = d]
    BY DEF Die
  <2> HIDE DEF d
  <2>3. QED BY <1>1, <2>1, <2>2 DEF ChansOK
<1>5. QED BY <1>2, <1>4

LEMMA StartTyped ==
  ASSUME TypeOK, NEW h \in Hubs, NEW role \in Roles, Start(h, role)
  PROVE  HubsOK' /\ clock' \in Nat
BY HubsTyped DEF TypeOK, SupervisorOK, Start, HubsOK

LEMMA SupervisorTypeStep ==
  ASSUME TypeOK, NEW h \in Hubs,
         Supervision(h) \/ BootGreen(h) \/ GreenDies(h) \/ HubCrash(h)
  PROVE  TypeOK'
<1>1. /\ chan \in [Hubs -> Channels] /\ hub \in [Hubs -> HubStates] /\ hub[h] \in HubStates
      /\ flipping \in BOOLEAN /\ clock \in Nat /\ faults \in Nat
      /\ {"off", "live", "standby", "draining", "dead"} \subseteq Roles
  BY DEF TypeOK, SupervisorOK, Roles
<1>2. \A on \in BOOLEAN : ToWorker(chan, h, <<Draining(on)>>) \in [Hubs -> Channels]
  BY <1>1, MessagesTyped, OneElement, ToWorkerSends
<1>3. CASE Drain(h)
  BY <1>1, <1>2, <1>3, UnchangedGroups DEF Drain, HubStates, TypeOK
<1>4. CASE Promote(h)
  BY <1>1, <1>4, UnchangedGroups DEF Promote, HubStates, SupervisorOK, TypeOK
<1>5. CASE Retire(h) \/ GreenDies(h)
  BY <1>5, DieTyped, UnchangedGroups DEF Retire, GreenDies, TypeOK, HubsOK, ChansOK
<1>6. CASE HubCrash(h)
  BY <1>1, <1>6, DieTyped, UnchangedGroups DEF HubCrash, TypeOK, HubsOK, ChansOK
<1>7. CASE Rollback(h)
  <2>1. CASE hub[h].att
    <3>1. hub' = [hub EXCEPT ![h].role = "live"] /\ chan' = ToWorker(chan, h, <<Draining(FALSE)>>)
      BY <1>7, <2>1 DEF Rollback
    <3>2. hub' \in [Hubs -> HubStates] /\ chan' \in [Hubs -> Channels]
      BY <1>1, <1>2, <3>1 DEF HubStates
    <3>3. SupervisorOK'
      BY <1>1, <1>7, <2>1 DEF Rollback, SupervisorOK
    <3>4. QED BY <1>7, <3>2, <3>3, UnchangedGroups DEF Rollback, TypeOK
  <2>2. CASE ~hub[h].att
    <3>0. clock + 1 \in Nat /\ "live" \in Roles
      BY <1>1
    <3>1. [hub[h] EXCEPT !.role = "live", !.epoch = clock + 1] \in HubStates
      BY <1>1, <3>0, HubUpdates
    <3>2. /\ hub' = [hub EXCEPT ![h].role = "live", ![h].epoch = clock + 1]
          /\ clock' = clock + 1 /\ UNCHANGED chan
      BY <1>7, <2>2 DEF Rollback
    <3>3. hub' \in [Hubs -> HubStates] /\ chan' \in [Hubs -> Channels]
      BY <1>1, <3>1, <3>2
    <3>4. SupervisorOK'
      BY <1>7, <3>0, <3>2 DEF Rollback, SupervisorOK
    <3>5. QED BY <1>7, <3>3, <3>4, UnchangedGroups DEF Rollback, TypeOK
  <2>3. QED BY <2>1, <2>2
<1>8. CASE Revive(h)
  BY <1>1, <1>8, StartTyped, UnchangedGroups DEF Revive, SupervisorOK, TypeOK, HubsOK
<1>9. CASE BootGreen(h)
  BY <1>1, <1>9, StartTyped, UnchangedGroups DEF BootGreen, SupervisorOK, TypeOK, HubsOK
<1>10. QED BY <1>3, <1>4, <1>5, <1>6, <1>7, <1>8, <1>9 DEF Supervision

\* No step takes a variable out of its type.
LEMMA TypeStep == TypeOK /\ [Next]_vars => TypeOK'
<1> SUFFICES ASSUME TypeOK, [Next]_vars PROVE TypeOK'
  OBVIOUS
<1>1. CASE UNCHANGED vars
  BY <1>1, UnchangedGroups DEF vars, TypeOK
<1>2. CASE Next
  BY <1>2, AgentTypeStep, WorkerDeathTyped, WorkerTypeStep, RpcTypeStep, ApprovalTypeStep, SocketTypeStep,
     SupervisorTypeStep DEF HubSteps, Next
<1>3. QED BY <1>1, <1>2

\* However many hubs there are, and whatever happens between them, every variable keeps
\* the shape of its counterpart in the code.
THEOREM TypeCorrect == Spec => []TypeOK
<1>1. QED BY TypeInit, TypeStep, PTL DEF Spec

-----------------------------------------------------------------------------
(* The inductive invariant of WriteOncePerHub.                             *)
(*                                                                         *)
(* WriteOncePerHub is not inductive.  A hub recognises a write it has      *)
(* executed by its callId, in a cache it drops when it meets another       *)
(* worker process, so a second execution could only come from a relay of   *)
(* an earlier generation that arrives after the drop.  The invariant says  *)
(* why none does: a socket carries the relays of one generation only, that *)
(* of the welcome at its head or of the last one read from it.             *)

AliveRoles == {"live", "standby", "draining"}

\* The worker generation of what is queued, for a hub whose currentGeneration is g.
GenOf(q, g) == IF q # << >> /\ q[1].t = "welcome" THEN q[1].gen ELSE g

\* Relays of generation g, and approvals.
OfGeneration(q, g) ==
  \A i \in DOMAIN q : q[i].t = "relay" /\ q[i].req.kind # "approval" => q[i].req.of = g

\* A welcome comes first, and is never older than what the hub knows.
QueueOK(q, g, top) ==
  /\ \A i \in DOMAIN q : q[i].t = "welcome" => i = 1
  /\ OfGeneration(q, GenOf(q, g))
  /\ g <= GenOf(q, g) /\ GenOf(q, g) <= top

\* A hello is the first frame on a socket, before anything comes back.
HelloOK(h, c, cur) ==
  \A i \in DOMAIN c.toWorker : c.toWorker[i].t = "hello" => i = 1 /\ c.toHub = << >> /\ cur # h

\* The socket c of hub h in state s, when the worker of generation top has cur as its current hub.
SocketOK(h, c, s, cur, top) ==
  /\ QueueOK(c.toHub, s.gen, top)
  /\ HelloOK(h, c, cur)
  /\ c.link \in {"none", "hubGone"} => c.toHub = << >>
  /\ s.role \notin AliveRoles => c.link \in {"none", "hubGone"}
  /\ cur = h => /\ c.link \in {"open", "hubGone"}
                /\ c.link = "open" => GenOf(c.toHub, s.gen) = top

Sockets == \A h \in Hubs : SocketOK(h, chan[h], hub[h], current, gen)

\* What is pending was issued in this process.
LaneOK(p, g) == \A i \in DOMAIN p : p[i].req.kind # "approval" => p[i].req.of = g

\* The writes of the current generation that hub state s has executed, es, are cached.
CacheOK(s, es) ==
  /\ s.role = "off" => es = << >>
  /\ s.role \in AliveRoles =>
       \A i \in DOMAIN es :
         /\ es[i].of <= s.gen
         /\ es[i].kind = "write" /\ es[i].of = s.gen => [id |-> es[i].id, of |-> es[i].of] \in s.served

Caches == \A h \in Hubs : CacheOK(hub[h], effects[h])

IInv == TypeOK /\ Sockets /\ LaneOK(pend, gen) /\ Caches /\ WriteOncePerHub

-----------------------------------------------------------------------------
(* Queues.                                                                 *)

\* Only relays, all of generation g or approvals.
FramesOf(ms, g) == OfGeneration(ms, g) /\ \A i \in DOMAIN ms : ms[i].t = "relay"

LEMMA EmptyQueue ==
  ASSUME NEW g \in Nat, NEW top \in Nat, g <= top
  PROVE  QueueOK(<< >>, g, top) /\ GenOf(<< >>, g) = g
BY DEF QueueOK, OfGeneration, GenOf

\* More relays of the generation queued.
LEMMA QueueGrows ==
  ASSUME NEW q \in Seq(ToHubMsgs), NEW ms \in Seq(ToHubMsgs), NEW g \in Nat, NEW top \in Nat,
         QueueOK(q, g, top), GenOf(q, g) = top, FramesOf(ms, top)
  PROVE  QueueOK(q \o ms, g, top) /\ GenOf(q \o ms, g) = top
<1> DEFINE qs == q \o ms
<1>1. /\ qs \in Seq(ToHubMsgs) /\ Len(qs) = Len(q) + Len(ms) /\ Len(q) \in Nat /\ Len(ms) \in Nat
      /\ \A i \in 1 .. Len(q) + Len(ms) : qs[i] = IF i <= Len(q) THEN q[i] ELSE ms[i - Len(q)]
      /\ DOMAIN qs = 1 .. Len(q) + Len(ms) /\ DOMAIN q = 1 .. Len(q) /\ DOMAIN ms = 1 .. Len(ms)
  BY ConcatProperties, LenProperties
<1> HIDE DEF qs
<1>2. \A i \in DOMAIN qs : \/ i \in DOMAIN q /\ qs[i] = q[i]
                           \/ i - Len(q) \in DOMAIN ms /\ qs[i] = ms[i - Len(q)]
  BY <1>1
<1>3. \A i \in DOMAIN qs : qs[i].t = "welcome" => i = 1
  BY <1>2 DEF QueueOK, FramesOf
<1>4. OfGeneration(qs, top)
  BY <1>2 DEF QueueOK, FramesOf, OfGeneration
<1>5. GenOf(qs, g) = top
  <2>1. CASE q = << >>
    BY <1>1, <2>1 DEF GenOf, FramesOf
  <2>2. CASE q # << >>
    BY <1>1, <2>2 DEF GenOf
  <2>3. QED BY <2>1, <2>2
<1>6. g <= top
  BY DEF QueueOK
<1>7. QED BY <1>3, <1>4, <1>5, <1>6 DEF QueueOK, qs

\* An attach: the welcome, and the lane behind it.
LEMMA QueueWelcomed ==
  ASSUME NEW ms \in Seq(ToHubMsgs), NEW g \in Nat, NEW top \in Nat, g <= top, FramesOf(ms, top)
  PROVE  QueueOK(<<Welcome(top)>> \o ms, g, top) /\ GenOf(<<Welcome(top)>> \o ms, g) = top
<1> DEFINE qs == <<Welcome(top)>> \o ms
<1>1. <<Welcome(top)>> \in Seq(ToHubMsgs) /\ Len(<<Welcome(top)>>) = 1
  BY MessagesTyped, OneElement
<1>2. /\ qs \in Seq(ToHubMsgs) /\ Len(qs) = 1 + Len(ms) /\ Len(ms) \in Nat
      /\ \A i \in 1 .. 1 + Len(ms) : qs[i] = IF i <= 1 THEN Welcome(top) ELSE ms[i - 1]
      /\ DOMAIN qs = 1 .. 1 + Len(ms) /\ DOMAIN ms = 1 .. Len(ms)
  BY <1>1, ConcatProperties, LenProperties
<1> HIDE DEF qs
<1>3. qs # << >> /\ qs[1] = Welcome(top)
  BY <1>2
<1>4. \A i \in DOMAIN qs : i = 1 \/ (i - 1 \in DOMAIN ms /\ qs[i] = ms[i - 1])
  BY <1>2
<1>5. GenOf(qs, g) = top
  BY <1>3 DEF GenOf, Welcome
<1>6. OfGeneration(qs, top)
  BY <1>3, <1>4 DEF OfGeneration, FramesOf, Welcome
<1>7. \A i \in DOMAIN qs : qs[i].t = "welcome" => i = 1
  BY <1>4 DEF FramesOf
<1>8. QED BY <1>5, <1>6, <1>7 DEF QueueOK, qs

\* A hub that reads a welcome, or a relay.
LEMMA QueueRead ==
  ASSUME NEW q \in Seq(ToHubMsgs), q # << >>, NEW g \in Nat, NEW top \in Nat, QueueOK(q, g, top)
  PROVE  /\ GenOf(Tail(q), GenOf(q, g)) = GenOf(q, g) /\ QueueOK(Tail(q), GenOf(q, g), top)
         /\ g <= GenOf(q, g) /\ GenOf(q, g) \in Nat
         /\ Head(q).t = "welcome" => GenOf(q, g) = Head(q).gen
         /\ Head(q).t = "relay" => /\ GenOf(q, g) = g
                                   /\ Head(q).req.kind # "approval" => Head(q).req.of = g
<1> DEFINE e == GenOf(q, g)
           r == Tail(q)
<1>1. /\ Head(q) = q[1] /\ 1 \in DOMAIN q /\ Len(q) \in Nat /\ DOMAIN q = 1 .. Len(q)
      /\ r \in Seq(ToHubMsgs) /\ Len(r) = Len(q) - 1 /\ DOMAIN r = 1 .. Len(q) - 1
      /\ \A i \in 1 .. Len(r) : r[i] = q[i + 1]
  BY HeadTailProperties, LenProperties
<1>2. e \in Nat /\ g <= e /\ e <= top
  BY <1>1, FrameFields DEF GenOf, QueueOK
<1> HIDE DEF r, e
<1>3. \A i \in DOMAIN r : i + 1 \in DOMAIN q /\ i + 1 # 1 /\ r[i] = q[i + 1]
  BY <1>1
<1>4. \A i \in DOMAIN r : r[i].t # "welcome"
  BY <1>3 DEF QueueOK
<1>5. GenOf(r, e) = e
  BY <1>1, <1>4 DEF GenOf
<1>6. OfGeneration(r, e)
  BY <1>3 DEF QueueOK, OfGeneration, e
<1>7. QueueOK(r, e, top)
  BY <1>2, <1>4, <1>5, <1>6 DEF QueueOK
<1>8. Head(q).t = "welcome" => e = Head(q).gen
  BY <1>1 DEF GenOf, e
<1>9. Head(q).t = "relay" => e = g /\ (Head(q).req.kind # "approval" => Head(q).req.of = g)
  BY <1>1 DEF GenOf, QueueOK, OfGeneration, e
<1>10. QED BY <1>2, <1>5, <1>7, <1>8, <1>9 DEF r, e

-----------------------------------------------------------------------------
(* Sockets.                                                                *)

\* No hello is in d that was not, at the same place, in q.
NoNewHello(q, d) == \A i \in DOMAIN d : d[i].t = "hello" => i \in DOMAIN q /\ q[i].t = "hello"

LEMMA SentHello ==
  ASSUME NEW q \in Seq(ToWorkerMsgs), NEW ms \in Seq(ToWorkerMsgs),
         \A i \in DOMAIN ms : ms[i].t # "hello"
  PROVE  NoNewHello(q, q \o ms)
<1> DEFINE qs == q \o ms
<1>1. /\ qs \in Seq(ToWorkerMsgs) /\ Len(qs) = Len(q) + Len(ms) /\ Len(q) \in Nat /\ Len(ms) \in Nat
      /\ \A i \in 1 .. Len(q) + Len(ms) : qs[i] = IF i <= Len(q) THEN q[i] ELSE ms[i - Len(q)]
      /\ DOMAIN qs = 1 .. Len(q) + Len(ms) /\ DOMAIN q = 1 .. Len(q) /\ DOMAIN ms = 1 .. Len(ms)
  BY ConcatProperties, LenProperties
<1> HIDE DEF qs
<1>2. \A i \in DOMAIN qs : \/ i \in DOMAIN q /\ qs[i] = q[i]
                           \/ i - Len(q) \in DOMAIN ms /\ qs[i] = ms[i - Len(q)]
  BY <1>1
<1>3. QED BY <1>2 DEF NoNewHello, qs

\* Once the first frame is read there is no hello.
LEMMA ReadHello ==
  ASSUME NEW h, NEW c \in Channels, c.toWorker # << >>, NEW cur, HelloOK(h, c, cur)
  PROVE  \A i \in DOMAIN Tail(c.toWorker) : Tail(c.toWorker)[i].t # "hello"
<1> DEFINE q == c.toWorker
<1>1. q \in Seq(ToWorkerMsgs)
  BY DEF Channels
<1>2. /\ Len(q) \in Nat /\ DOMAIN q = 1 .. Len(q) /\ DOMAIN Tail(q) = 1 .. Len(q) - 1
      /\ \A i \in 1 .. Len(q) - 1 : Tail(q)[i] = q[i + 1]
  BY <1>1, HeadTailProperties, LenProperties
<1>3. \A i \in DOMAIN Tail(q) : i + 1 \in DOMAIN q /\ i + 1 # 1 /\ Tail(q)[i] = q[i + 1]
  BY <1>2
<1>4. QED BY <1>3 DEF HelloOK

\* What leaves a socket as it was, but for frames other than a hello written to the worker.
KeepsSocket(h) ==
  /\ chan'[h].link = chan[h].link /\ chan'[h].toHub = chan[h].toHub
  /\ NoNewHello(chan[h].toWorker, chan'[h].toWorker)
  /\ hub'[h].gen = hub[h].gen
  /\ hub'[h].role \in AliveRoles \/ hub'[h].role = hub[h].role
  /\ current' = h => current = h
  /\ gen' = gen

LEMMA KeptSocket ==
  ASSUME NEW h, SocketOK(h, chan[h], hub[h], current, gen), KeepsSocket(h)
  PROVE  SocketOK(h, chan[h], hub[h], current, gen)'
BY DEF KeepsSocket, SocketOK, HelloOK, NoNewHello

\* The facts about hub h that the steps below use.
LEMMA SocketFacts ==
  ASSUME TypeOK, Sockets, NEW h \in Hubs
  PROVE  /\ chan \in [Hubs -> Channels] /\ chan[h] \in Channels
         /\ chan[h].toHub \in Seq(ToHubMsgs) /\ chan[h].toWorker \in Seq(ToWorkerMsgs)
         /\ chan[h].link \in {"none", "open", "hubGone", "workerGone"}
         /\ hub \in [Hubs -> HubStates] /\ hub[h] \in HubStates /\ hub[h].gen \in Nat
         /\ gen \in Nat /\ pend \in Seq(Relays) /\ current \in Hubs \cup {None}
         /\ SocketOK(h, chan[h], hub[h], current, gen)
         /\ hub[h].gen <= gen
<1>1. /\ chan \in [Hubs -> Channels] /\ chan[h] \in Channels
      /\ hub \in [Hubs -> HubStates] /\ hub[h] \in HubStates
      /\ gen \in Nat /\ pend \in Seq(Relays) /\ current \in Hubs \cup {None}
  BY DEF TypeOK, WorkerOK, Relays
<1>2. /\ chan[h].toHub \in Seq(ToHubMsgs) /\ chan[h].toWorker \in Seq(ToWorkerMsgs)
      /\ chan[h].link \in {"none", "open", "hubGone", "workerGone"} /\ hub[h].gen \in Nat
  BY <1>1 DEF Channels, Links, HubStates
<1>3. SocketOK(h, chan[h], hub[h], current, gen)
  BY DEF Sockets
<1>4. GenOf(chan[h].toHub, hub[h].gen) \in Nat
  <2>1. CASE chan[h].toHub # << >> /\ chan[h].toHub[1].t = "welcome"
    BY <1>2, <2>1, FrameFields DEF GenOf
  <2>2. CASE ~(chan[h].toHub # << >> /\ chan[h].toHub[1].t = "welcome")
    BY <1>2, <2>2 DEF GenOf
  <2>3. QED BY <2>1, <2>2
<1>5. hub[h].gen <= gen
  BY <1>1, <1>2, <1>3, <1>4 DEF SocketOK, QueueOK
<1>6. QED BY <1>1, <1>2, <1>3, <1>5

\* A socket closed on both sides, or with nothing on its way to the hub.
LEMMA QuietSocket ==
  ASSUME NEW h, NEW c, NEW s, s.gen \in Nat, NEW top \in Nat, s.gen <= top, NEW cur,
         c.toHub = << >>, HelloOK(h, c, cur),
         s.role \notin AliveRoles => c.link \in {"none", "hubGone"},
         cur = h => c.link = "hubGone"
  PROVE  SocketOK(h, c, s, cur, top)
BY EmptyQueue DEF SocketOK

LEMMA ClosedSocket ==
  ASSUME NEW h, NEW s, s.gen \in Nat, NEW top \in Nat, s.gen <= top, NEW cur, cur # h
  PROVE  SocketOK(h, Closed, s, cur, top)
BY QuietSocket DEF Closed, HelloOK

\* destroy() of a channel whose hub is not current any more.
LEMMA DestroyedSocket ==
  ASSUME NEW h, NEW c \in Channels, NEW d \in Channels, NEW s \in HubStates, NEW cur, NEW cur2,
         NEW top \in Nat, s.gen <= top, SocketOK(h, c, s, cur, top), cur2 # h,
         c.link = "open" => d.link = "workerGone" /\ d.toHub = c.toHub /\ d.toWorker = << >>,
         c.link = "workerGone" => d = c,
         c.link \in {"none", "hubGone"} => d = Closed
  PROVE  SocketOK(h, d, s, cur2, top)
<1>1. CASE c.link = "open"
  BY <1>1 DEF SocketOK, HelloOK
<1>2. CASE c.link = "workerGone"
  BY <1>2 DEF SocketOK, HelloOK
<1>3. CASE c.link \in {"none", "hubGone"}
  BY <1>3, ClosedSocket DEF HubStates
<1>4. QED BY <1>1, <1>2, <1>3 DEF Channels, Links

-----------------------------------------------------------------------------
(* The lane.                                                               *)

LEMMA LaneKept ==
  ASSUME NEW p \in Seq(Relays), NEW g, LaneOK(p, g)
  PROVE  /\ LaneOK(Detached(p), g) /\ LaneOK(Flushed(p), g) /\ FramesOf(Frames(p), g)
         /\ \A i \in DOMAIN p : LaneOK(Without(p, i), g)
<1>1. LaneOK(Detached(p), g) /\ LaneOK(Flushed(p), g)
  BY LaneTyped DEF LaneOK
<1>2. FramesOf(Frames(p), g)
  <2>1. DOMAIN Frames(p) = DOMAIN p /\ \A i \in DOMAIN p : Frames(p)[i] = Relayed(p[i].req)
    BY LaneTyped
  <2>2. \A i \in DOMAIN Frames(p) : Frames(p)[i].t = "relay" /\ Frames(p)[i].req = p[i].req
    BY <2>1 DEF Relayed
  <2>3. QED BY <2>1, <2>2 DEF LaneOK, FramesOf, OfGeneration
<1>3. ASSUME NEW i \in DOMAIN p
      PROVE  LaneOK(Without(p, i), g)
  BY WithoutTyped DEF LaneOK
<1>4. QED BY <1>1, <1>2, <1>3

LEMMA LaneGrows ==
  ASSUME NEW p \in Seq(Relays), NEW e \in Relays, NEW g, LaneOK(p, g),
         e.req.kind # "approval" => e.req.of = g
  PROVE  LaneOK(Append(p, e), g)
<1>1. /\ DOMAIN Append(p, e) = 1 .. Len(p) + 1 /\ DOMAIN p = 1 .. Len(p) /\ Len(p) \in Nat
      /\ \A i \in 1 .. Len(p) : Append(p, e)[i] = p[i]
      /\ Append(p, e)[Len(p) + 1] = e
  <2> HIDE DEF Relays
  <2>1. QED BY AppendProperties, LenProperties
<1>2. \A i \in DOMAIN Append(p, e) : (i \in DOMAIN p /\ Append(p, e)[i] = p[i]) \/ Append(p, e)[i] = e
  BY <1>1
<1>3. QED BY <1>2 DEF LaneOK

\* The caches of hubs that neither execute nor learn of another worker process.
LEMMA CachesKept ==
  ASSUME Caches, UNCHANGED effects,
         \A h \in Hubs : /\ hub'[h].gen = hub[h].gen /\ hub'[h].served = hub[h].served
                         /\ hub'[h].role = hub[h].role \/ {hub[h].role, hub'[h].role} \subseteq AliveRoles
  PROVE  Caches'
BY DEF Caches, CacheOK, AliveRoles

-----------------------------------------------------------------------------
(* What each step does to the sockets, the lane and the caches.            *)

LEMMA SocketsInit == Init => IInv
<1> SUFFICES ASSUME Init PROVE IInv
  OBVIOUS
<1>1. TypeOK
  BY TypeInit
<1>2. Sockets
  <2>1. ASSUME NEW h \in Hubs
        PROVE  SocketOK(h, chan[h], hub[h], current, gen)
    <3>1. chan[h] = Closed /\ hub[h].gen = 0 /\ current = None /\ gen = 1 /\ current # h
      BY HubNumbers DEF Init, NewHub, NoHub
    <3>2. QED BY <3>1, ClosedSocket
  <2>2. QED BY <2>1 DEF Sockets
<1>3. LaneOK(pend, gen)
  BY DEF Init, LaneOK
<1>4. Caches
  BY DEF Init, Caches, CacheOK
<1>5. WriteOncePerHub
  BY DEF Init, WriteOncePerHub
<1>6. QED BY <1>1, <1>2, <1>3, <1>4, <1>5 DEF IInv

\* A relay is issued.
LEMMA IssueStep ==
  ASSUME IInv, TypeOK', NEW r \in Requests, Relay(r), r.kind # "approval" => r.of = gen,
         UNCHANGED <<hub, gen, current, draining, effects>>
  PROVE  Sockets' /\ LaneOK(pend, gen)' /\ Caches'
<1> USE DEF IInv
<1>1. pend \in Seq(Relays) /\ gen \in Nat
  BY DEF TypeOK, WorkerOK, Relays
<1>2. LaneOK(pend', gen)
  <2>1. CASE Len(pend) >= QueueMax
    BY <2>1 DEF Relay
  <2>2. CASE ~(Len(pend) >= QueueMax)
    <3> DEFINE e == [req |-> r, timer |-> IF Ready THEN DeliveredTimer(r) ELSE "reach"]
    <3>1. e \in Relays /\ e.req = r
      BY DEF Relays, Timers, DeliveredTimer
    <3>2. pend' = Append(pend, e)
      BY <2>2 DEF Relay
    <3> HIDE DEF e
    <3>3. QED BY <1>1, <3>1, <3>2, LaneGrows
  <2>3. QED BY <2>1, <2>2
<1>3. ASSUME NEW h \in Hubs
      PROVE  SocketOK(h, chan[h], hub[h], current, gen)'
  <2> DEFINE ms == <<Relayed(r)>>
  <2>1. /\ ms \in Seq(ToHubMsgs) /\ FramesOf(ms, gen)
    BY MessagesTyped, OneElement DEF FramesOf, OfGeneration, Relayed
  <2>2. SocketOK(h, chan[h], hub[h], current, gen) /\ chan \in [Hubs -> Channels]
        /\ chan[h].toHub \in Seq(ToHubMsgs) /\ hub[h].gen \in Nat
    BY SocketFacts
  <2> HIDE DEF ms
  <2>3. CASE UNCHANGED chan \/ h # current
    <3>1. chan'[h] = chan[h]
      <4>1. CASE UNCHANGED chan
        BY <4>1
      <4>2. CASE h # current /\ ~UNCHANGED chan
        BY <2>2, <4>2 DEF Relay, Ready, ms, TypeOK, WorkerOK, ToHub
      <4>3. QED BY <2>3, <4>1, <4>2
    <3>2. QED BY <2>2, <3>1
  <2>4. CASE ~UNCHANGED chan /\ h = current
    <3>1. chan' = ToHub(chan, h, ms)
      BY <2>4 DEF Relay, ms
    <3>2. /\ chan'[h].link = chan[h].link /\ chan'[h].toWorker = chan[h].toWorker
          /\ chan'[h].toHub = IF chan[h].link = "open" THEN chan[h].toHub \o ms ELSE chan[h].toHub
      BY <2>1, <2>2, <3>1, ToHubSends
    <3>3. CASE chan[h].link # "open"
      BY <2>2, <3>2, <3>3 DEF SocketOK, HelloOK
    <3>4. CASE chan[h].link = "open"
      BY <1>1, <2>1, <2>2, <2>4, <3>2, <3>4, QueueGrows DEF SocketOK, HelloOK
    <3>5. QED BY <3>3, <3>4
  <2>5. QED BY <2>3, <2>4
<1>4. Caches'
  BY CachesKept
<1>5. QED BY <1>2, <1>3, <1>4 DEF Sockets

LEMMA AgentStep ==
  ASSUME IInv, TypeOK', Call \/ Ask \/ RelayTimeout
  PROVE  Sockets' /\ LaneOK(pend, gen)' /\ Caches' /\ UNCHANGED effects
<1> USE DEF IInv
<1>0. seq \in Nat /\ gen \in Nat /\ issued \in Nat /\ pend \in Seq(Relays)
  BY DEF TypeOK, WorkerOK, GhostsOK, Relays
<1>1. CASE Call
  BY <1>0, <1>1, KindsAssumption, IssueStep DEF Call, Requests
<1>2. CASE Ask
  BY <1>0, <1>2, IssueStep DEF Ask, Requests, AllKinds
<1>3. CASE RelayTimeout
  BY <1>0, <1>3, LaneKept DEF RelayTimeout, ghosts, Sockets, Caches
<1>4. QED BY <1>1, <1>2, <1>3

\* The worker reads a frame that is not followed by an answer.
LEMMA ReadSocket ==
  ASSUME TypeOK, Sockets, NEW h \in Hubs, NEW t, FromHub(h, t), NEW k \in Hubs,
         chan' = ReadFrom(h), UNCHANGED <<hub, current, gen>>
  PROVE  SocketOK(k, chan[k], hub[k], current, gen)'
<1>1. /\ SocketOK(k, chan[k], hub[k], current, gen) /\ SocketOK(h, chan[h], hub[h], current, gen)
      /\ chan \in [Hubs -> Channels] /\ chan[h] \in Channels /\ chan[h].toWorker # << >>
  BY SocketFacts DEF FromHub
<1>2. /\ chan'[k].link = chan[k].link /\ chan'[k].toHub = chan[k].toHub
      /\ k # h => chan'[k].toWorker = chan[k].toWorker
      /\ chan'[h].toWorker = Tail(chan[h].toWorker)
  BY <1>1, ReadFromChannel
<1>3. NoNewHello(chan[k].toWorker, chan'[k].toWorker)
  BY <1>1, <1>2, ReadHello DEF NoNewHello, SocketOK
<1>4. KeepsSocket(k)
  BY <1>2, <1>3 DEF KeepsSocket
<1>5. QED BY <1>1, <1>4, KeptSocket

\* attach().
LEMMA AttachStep ==
  ASSUME IInv, TypeOK', NEW h \in Hubs, RecvHello(h)
  PROVE  Sockets' /\ LaneOK(pend, gen)'
<1> USE DEF IInv
<1>1. /\ SocketOK(h, chan[h], hub[h], current, gen) /\ chan \in [Hubs -> Channels]
      /\ chan[h] \in Channels /\ gen \in Nat /\ pend \in Seq(Relays) /\ hub[h].gen <= gen
      /\ hub[h].gen \in Nat /\ current \in Hubs \cup {None}
  BY SocketFacts
<1>2. FromHub(h, "hello") /\ UNCHANGED <<hub, gen>>
  BY DEF RecvHello
<1>3. /\ chan[h].toWorker # << >> /\ chan[h].toWorker[1].t = "hello" /\ 1 \in DOMAIN chan[h].toWorker
      /\ ReadFrom(h) \in [Hubs -> Channels]
      /\ \A k \in Hubs : /\ ReadFrom(h)[k].link = chan[k].link /\ ReadFrom(h)[k].toHub = chan[k].toHub
                         /\ k # h => ReadFrom(h)[k].toWorker = chan[k].toWorker
      /\ ReadFrom(h)[h].toWorker = Tail(chan[h].toWorker)
      /\ chan[h].link \in {"open", "hubGone"}
  BY <1>1, <1>2, ReadFromChannel DEF FromHub
<1>4. chan[h].toHub = << >> /\ current # h
  BY <1>1, <1>3 DEF SocketOK, HelloOK
<1>5. \A i \in DOMAIN Tail(chan[h].toWorker) : Tail(chan[h].toWorker)[i].t # "hello"
  BY <1>1, <1>3, ReadHello DEF SocketOK
<1>6. \A k \in Hubs \ {h} : ReadFrom(h)[k] = chan[k]
  BY DEF ReadFrom
<1>7. CASE Head(chan[h].toWorker).epoch < currentEpoch
  <2>1. chan' = Destroyed(ReadFrom(h), h) /\ UNCHANGED <<pend, current>>
    BY <1>7 DEF RecvHello
  <2>2. ASSUME NEW k \in Hubs
        PROVE  SocketOK(k, chan[k], hub[k], current, gen)'
    <3>1. CASE k # h
      BY <1>2, <1>3, <1>6, <2>1, <3>1, DestroyedChannel DEF Sockets
    <3>2. CASE k = h
      <4>1. /\ chan'[h] \in Channels
            /\ ReadFrom(h)[h].link = "open" => /\ chan'[h].link = "workerGone"
                                               /\ chan'[h].toHub = << >> /\ chan'[h].toWorker = << >>
            /\ ReadFrom(h)[h].link \in {"none", "hubGone"} => chan'[h] = Closed
        BY <1>3, <1>4, <2>1, DestroyedChannel
      <4>2. CASE chan[h].link = "open"
        BY <1>1, <1>2, <1>3, <1>4, <2>1, <3>2, <4>1, <4>2, QuietSocket DEF SocketOK, HelloOK
      <4>3. CASE chan[h].link = "hubGone"
        BY <1>1, <1>2, <1>3, <1>4, <2>1, <3>2, <4>1, <4>3, ClosedSocket
      <4>4. QED BY <1>3, <4>2, <4>3
    <3>3. QED BY <3>1, <3>2
  <2>3. QED BY <1>2, <2>1, <2>2 DEF Sockets
<1>8. CASE ~(Head(chan[h].toWorker).epoch < currentEpoch)
  <2> DEFINE prev == IF current \in {None, h} THEN ReadFrom(h) ELSE Destroyed(ReadFrom(h), current)
             ms   == <<Welcome(gen)>> \o Frames(pend)
  <2>1. chan' = ToHub(prev, h, ms) /\ pend' = Flushed(pend) /\ current' = h
    BY <1>8 DEF RecvHello
  <2>2. /\ prev \in [Hubs -> Channels] /\ prev[h] = ReadFrom(h)[h]
        /\ \A k \in Hubs \ {h, current} : prev[k] = chan[k]
    BY <1>1, <1>3, <1>4, <1>6, DestroyedChannel
  <2>3. Frames(pend) \in Seq(ToHubMsgs) /\ FramesOf(Frames(pend), gen)
    BY <1>1, LaneTyped, LaneKept
  <2>4. ms \in Seq(ToHubMsgs)
    BY <1>1, <2>3, MessagesTyped, OneElement, ConcatProperties
  <2>5. QueueOK(ms, hub[h].gen, gen) /\ GenOf(ms, hub[h].gen) = gen
    BY <1>1, <2>3, QueueWelcomed
  <2>6. current # None => SocketOK(current, prev[current], hub[current], h, gen)
    <3>1. SUFFICES ASSUME current # None
                   PROVE  SocketOK(current, prev[current], hub[current], h, gen)
      OBVIOUS
    <3>2. current \in Hubs /\ current # h
      BY <1>1, <1>4, <3>1
    <3>3. prev = Destroyed(ReadFrom(h), current) /\ ReadFrom(h)[current] = chan[current]
      BY <1>4, <1>6, <3>1, <3>2
    <3>4. /\ SocketOK(current, chan[current], hub[current], current, gen)
          /\ chan[current] \in Channels /\ hub[current] \in HubStates /\ hub[current].gen <= gen
      BY <3>2, SocketFacts
    <3>5. /\ prev[current] \in Channels
          /\ chan[current].link = "open" => /\ prev[current].link = "workerGone"
                                            /\ prev[current].toHub = chan[current].toHub
                                            /\ prev[current].toWorker = << >>
          /\ chan[current].link = "workerGone" => prev[current] = chan[current]
          /\ chan[current].link \in {"none", "hubGone"} => prev[current] = Closed
      BY <1>3, <2>2, <3>2, <3>3, DestroyedChannel
    <3> HIDE DEF prev
    <3>6. QED BY <1>1, <3>2, <3>4, <3>5, DestroyedSocket
  <2> HIDE DEF prev, ms
  <2>7. /\ \A k \in Hubs \ {h} : chan'[k] = prev[k]
        /\ chan'[h].link = chan[h].link /\ chan'[h].toWorker = Tail(chan[h].toWorker)
        /\ chan'[h].toHub = IF chan[h].link = "open" THEN << >> \o ms ELSE << >>
    <3>1. \A k \in Hubs \ {h} : chan'[k] = prev[k]
      BY <2>1, <2>2 DEF ToHub
    <3>2. /\ chan'[h].link = prev[h].link /\ chan'[h].toWorker = prev[h].toWorker
          /\ chan'[h].toHub = IF prev[h].link = "open" THEN prev[h].toHub \o ms ELSE prev[h].toHub
      BY <2>1, <2>2, <2>4, ToHubSends
    <3>3. /\ prev[h].link = chan[h].link /\ prev[h].toHub = << >>
          /\ prev[h].toWorker = Tail(chan[h].toWorker)
      BY <1>3, <1>4, <2>2
    <3>4. QED BY <3>1, <3>2, <3>3
  <2>8. << >> \o ms = ms
    BY <2>4, ConcatEmptySeq
  <2>9. ASSUME NEW k \in Hubs
        PROVE  SocketOK(k, chan[k], hub[k], current, gen)'
    <3>1. CASE k = h
      <4>1. HelloOK(h, chan'[h], h)
        BY <1>5, <2>7 DEF HelloOK
      <4>2. CASE chan[h].link = "open"
        BY <1>1, <1>2, <2>1, <2>5, <2>7, <2>8, <3>1, <4>1, <4>2 DEF SocketOK
      <4>3. CASE chan[h].link = "hubGone"
        BY <1>1, <1>2, <2>1, <2>7, <3>1, <4>1, <4>3, QuietSocket
      <4>4. QED BY <1>3, <4>2, <4>3
    <3>2. CASE k # h /\ k = current
      BY <1>2, <2>1, <2>6, <2>7, <3>2, HubNumbers
    <3>3. CASE k # h /\ k # current
      BY <1>2, <2>1, <2>2, <2>7, <3>3 DEF Sockets, SocketOK, HelloOK
    <3>4. QED BY <3>1, <3>2, <3>3
  <2>10. LaneOK(pend, gen)'
    BY <1>1, <1>2, <2>1, LaneKept
  <2>11. QED BY <2>9, <2>10 DEF Sockets
<1>9. QED BY <1>7, <1>8

\* The other frames of a hub, and the end of its socket.
LEMMA WorkerReadStep ==
  ASSUME IInv, TypeOK', NEW h \in Hubs, RecvDraining(h) \/ RecvReply(h) \/ WorkerNotices(h)
  PROVE  Sockets' /\ LaneOK(pend, gen)'
<1> USE DEF IInv
<1>1. /\ SocketOK(h, chan[h], hub[h], current, gen) /\ chan \in [Hubs -> Channels]
      /\ chan[h] \in Channels /\ gen \in Nat /\ pend \in Seq(Relays) /\ hub[h].gen <= gen
      /\ hub[h].gen \in Nat /\ current \in Hubs \cup {None}
      /\ LaneOK(Detached(pend), gen) /\ LaneOK(Flushed(pend), gen)
  BY SocketFacts, LaneKept
<1>2. UNCHANGED <<hub, gen>>
  BY DEF RecvDraining, RecvReply, WorkerNotices
<1>3. CASE RecvDraining(h)
  <2>1. FromHub(h, "draining") /\ UNCHANGED current
    BY <1>3 DEF RecvDraining
  <2>2. LaneOK(pend, gen)'
    BY <1>1, <1>2, <1>3 DEF RecvDraining
  <2>3. CASE chan' = ReadFrom(h)
    BY <1>2, <2>1, <2>2, <2>3, ReadSocket DEF Sockets
  <2>4. CASE chan' # ReadFrom(h)
    <3>1. chan' = ToHub(ReadFrom(h), h, Frames(pend)) /\ current = h
      BY <1>3, <2>4, HubNumbers DEF RecvDraining
    <3>2. Frames(pend) \in Seq(ToHubMsgs) /\ FramesOf(Frames(pend), gen)
      BY <1>1, LaneTyped, LaneKept
    <3>3. /\ ReadFrom(h) \in [Hubs -> Channels] /\ chan[h].toWorker # << >>
          /\ ReadFrom(h)[h].link = chan[h].link /\ ReadFrom(h)[h].toHub = chan[h].toHub
          /\ ReadFrom(h)[h].toWorker = Tail(chan[h].toWorker)
      BY <1>1, <2>1, ReadFromChannel DEF FromHub
    <3>4. \A k \in Hubs \ {h} : chan'[k] = chan[k]
      BY <1>1, <3>1, <3>3 DEF ReadFrom, ToHub
    <3>5. /\ chan'[h].link = chan[h].link /\ chan'[h].toWorker = Tail(chan[h].toWorker)
          /\ chan'[h].toHub = IF chan[h].link = "open" THEN chan[h].toHub \o Frames(pend)
                              ELSE chan[h].toHub
      BY <3>1, <3>2, <3>3, ToHubSends
    <3>6. SocketOK(h, chan[h], hub[h], current, gen)'
      <4>1. HelloOK(h, chan'[h], current)
        <5>1. HelloOK(h, chan[h], current)
          BY <1>1 DEF SocketOK
        <5>2. \A i \in DOMAIN Tail(chan[h].toWorker) : Tail(chan[h].toWorker)[i].t # "hello"
          BY <1>1, <3>3, <5>1, ReadHello
        <5>3. QED BY <3>5, <5>2 DEF HelloOK
      <4>2. CASE chan[h].link = "open"
        BY <1>1, <1>2, <2>1, <3>1, <3>2, <3>5, <4>1, <4>2, QueueGrows DEF SocketOK, Channels
      <4>3. CASE chan[h].link # "open"
        BY <1>1, <1>2, <2>1, <3>5, <4>1, <4>3 DEF SocketOK
      <4>4. QED BY <4>2, <4>3
    <3>7. ASSUME NEW k \in Hubs, k # h
          PROVE  SocketOK(k, chan[k], hub[k], current, gen)'
      BY <1>2, <2>1, <3>4, <3>7 DEF Sockets
    <3>8. QED BY <2>2, <3>6, <3>7 DEF Sockets
  <2>5. QED BY <2>3, <2>4
<1>4. CASE RecvReply(h)
  <2>1. FromHub(h, "reply") /\ chan' = ReadFrom(h) /\ UNCHANGED current
    BY <1>4 DEF RecvReply
  <2>2. \A k \in Hubs : SocketOK(k, chan[k], hub[k], current, gen)'
    BY <1>2, <2>1, ReadSocket
  <2>3. LaneOK(pend, gen)'
    <3>1. CASE UNCHANGED pend
      BY <1>2, <3>1
    <3>2. CASE ~UNCHANGED pend
      BY <1>1, <1>2, <1>4, <3>2, LaneKept DEF RecvReply
    <3>3. QED BY <3>1, <3>2
  <2>4. QED BY <2>2, <2>3 DEF Sockets
<1>5. CASE WorkerNotices(h)
  <2>1. /\ \A k \in Hubs \ {h} : chan'[k] = chan[k]
        /\ chan'[h] = Closed
        /\ current' # h /\ current' \in {current, None}
        /\ LaneOK(pend, gen)'
    BY <1>1, <1>2, <1>5, HubNumbers DEF WorkerNotices
  <2>2. ASSUME NEW k \in Hubs
        PROVE  SocketOK(k, chan[k], hub[k], current, gen)'
    <3>1. CASE k = h
      BY <1>1, <1>2, <2>1, <3>1, ClosedSocket
    <3>2. CASE k # h
      BY <1>2, <2>1, <3>2, HubNumbers DEF Sockets, SocketOK, HelloOK
    <3>3. QED BY <3>1, <3>2
  <2>3. QED BY <2>1, <2>2 DEF Sockets
<1>6. QED BY <1>3, <1>4, <1>5

LEMMA WorkerStep ==
  ASSUME IInv, TypeOK', NEW h \in Hubs, WorkerSteps(h)
  PROVE  Sockets' /\ LaneOK(pend, gen)' /\ Caches' /\ UNCHANGED effects
BY AttachStep, WorkerReadStep DEF WorkerSteps, RecvHello, RecvDraining, RecvReply, WorkerNotices, ghosts, IInv,
   Caches

\* A new worker process: what is queued is of an older generation.
LEMMA WorkerDeathStep ==
  ASSUME IInv, TypeOK', WorkerDeath
  PROVE  Sockets' /\ LaneOK(pend, gen)' /\ Caches' /\ UNCHANGED effects
<1> USE DEF IInv
<1>1. UNCHANGED <<hub, effects>> /\ gen' = gen + 1 /\ pend' = << >> /\ current' = None
  BY DEF WorkerDeath, ghosts
<1>2. ASSUME NEW h \in Hubs
      PROVE  SocketOK(h, chan[h], hub[h], current, gen)'
  <2>1. /\ SocketOK(h, chan[h], hub[h], current, gen) /\ chan \in [Hubs -> Channels]
        /\ chan[h] \in Channels /\ hub[h] \in HubStates
        /\ gen \in Nat /\ hub[h].gen <= gen /\ hub[h].gen \in Nat /\ h # None
    BY SocketFacts, HubNumbers
  <2>2. chan'[h] = Destroyed(chan, h)[h] /\ chan'[h] \in Channels
    BY <2>1, DestroyedChannel DEF WorkerDeath
  <2>3. SocketOK(h, chan'[h], hub[h], None, gen)
    BY <2>1, <2>2, DestroyedChannel, DestroyedSocket
  <2>4. GenOf(chan'[h].toHub, hub[h].gen) <= gen => GenOf(chan'[h].toHub, hub[h].gen) <= gen + 1
    <3>1. GenOf(chan'[h].toHub, hub[h].gen) \in Nat
      <4>1. CASE chan'[h].toHub # << >> /\ chan'[h].toHub[1].t = "welcome"
        BY <2>2, <4>1, FrameFields DEF Channels, GenOf
      <4>2. CASE ~(chan'[h].toHub # << >> /\ chan'[h].toHub[1].t = "welcome")
        BY <2>1, <4>2 DEF GenOf
      <4>3. QED BY <4>1, <4>2
    <3>2. QED BY <2>1, <3>1
  <2>5. QueueOK(chan'[h].toHub, hub[h].gen, gen + 1)
    BY <2>3, <2>4 DEF SocketOK, QueueOK
  <2>6. QED BY <1>1, <2>1, <2>3, <2>5 DEF SocketOK
<1>3. LaneOK(pend, gen)'
  BY <1>1 DEF LaneOK
<1>4. QED BY <1>1, <1>2, <1>3 DEF Sockets, Caches

\* What the hubs' records keep in most steps.
KeepsHubs ==
  \A k \in Hubs : /\ hub'[k].gen = hub[k].gen /\ hub'[k].served = hub[k].served
                  /\ hub'[k].role = hub[k].role \/ {hub[k].role, hub'[k].role} \subseteq AliveRoles

\* A hub sends replies or its drain state.
LEMMA HubSends ==
  ASSUME IInv, NEW h \in Hubs, NEW ms \in Seq(ToWorkerMsgs), \A i \in DOMAIN ms : ms[i].t # "hello",
         chan' = ToWorker(chan, h, ms), KeepsHubs, UNCHANGED <<current, gen>>
  PROVE  Sockets'
<1> USE DEF IInv
<1>1. ASSUME NEW k \in Hubs
      PROVE  SocketOK(k, chan[k], hub[k], current, gen)'
  <2>1. /\ SocketOK(k, chan[k], hub[k], current, gen) /\ chan \in [Hubs -> Channels]
        /\ chan[k].toWorker \in Seq(ToWorkerMsgs)
    BY SocketFacts
  <2>2. /\ chan'[k].link = chan[k].link /\ chan'[k].toHub = chan[k].toHub
        /\ chan'[k].toWorker = IF k = h /\ hub[h].att /\ chan[h].link = "open"
                               THEN chan[h].toWorker \o ms ELSE chan[k].toWorker
    BY <2>1, ToWorkerSends
  <2>3. NoNewHello(chan[k].toWorker, chan'[k].toWorker)
    BY <2>1, <2>2, SentHello DEF NoNewHello
  <2>4. KeepsSocket(k)
    BY <2>2, <2>3 DEF KeepsSocket, KeepsHubs
  <2>5. QED BY <2>1, <2>4, KeptSocket
<1>2. QED BY <1>1 DEF Sockets

\* A hub reads a relay and perhaps answers it: the relay is one of its generation.
LEMMA HubReads ==
  ASSUME IInv, NEW h \in Hubs, FromWorker(h, "relay"), UNCHANGED <<current, gen>>,
         \A k \in Hubs : hub'[k].gen = hub[k].gen /\ hub'[k].role = hub[k].role,
         \/ chan' = ReadBy(h)
         \/ \E m \in Replies : chan' = ToWorker(ReadBy(h), h, <<m>>)
  PROVE  /\ Sockets'
         /\ Request(h).kind # "approval" => Request(h).of = hub[h].gen
<1> USE DEF IInv
<1>1. /\ SocketOK(h, chan[h], hub[h], current, gen) /\ chan \in [Hubs -> Channels]
      /\ chan[h].toHub \in Seq(ToHubMsgs) /\ chan[h].toHub # << >> /\ hub[h].gen \in Nat /\ gen \in Nat
      /\ Head(chan[h].toHub).t = "relay"
  BY SocketFacts DEF FromWorker
<1>2. /\ GenOf(chan[h].toHub, hub[h].gen) = hub[h].gen
      /\ GenOf(Tail(chan[h].toHub), hub[h].gen) = hub[h].gen
      /\ QueueOK(Tail(chan[h].toHub), hub[h].gen, gen)
      /\ Request(h).kind # "approval" => Request(h).of = hub[h].gen
  BY <1>1, QueueRead DEF SocketOK, Request
<1>3. /\ ReadBy(h) \in [Hubs -> Channels]
      /\ \A k \in Hubs : /\ ReadBy(h)[k].link = chan[k].link /\ ReadBy(h)[k].toWorker = chan[k].toWorker
                         /\ k # h => ReadBy(h)[k].toHub = chan[k].toHub
      /\ ReadBy(h)[h].toHub = Tail(chan[h].toHub)
  BY <1>1, ReadByHub
<1>4. ASSUME NEW k \in Hubs
      PROVE  /\ chan'[k].link = chan[k].link
             /\ k # h => chan'[k].toHub = chan[k].toHub
             /\ k = h => chan'[k].toHub = Tail(chan[k].toHub)
             /\ NoNewHello(chan[k].toWorker, chan'[k].toWorker)
  <2>1. CASE chan' = ReadBy(h)
    BY <1>3, <2>1 DEF NoNewHello
  <2>2. CASE \E m \in Replies : chan' = ToWorker(ReadBy(h), h, <<m>>)
    <3>1. PICK m \in Replies : chan' = ToWorker(ReadBy(h), h, <<m>>)
      BY <2>2
    <3> DEFINE ms == <<m>>
    <3>2. m \in ToWorkerMsgs /\ m.t = "reply"
      BY DEF ToWorkerMsgs, Replies
    <3>3. ms \in Seq(ToWorkerMsgs) /\ \A i \in DOMAIN ms : ms[i].t # "hello"
      BY <3>2, OneElement
    <3> HIDE DEF ms
    <3>4. /\ chan'[k].link = ReadBy(h)[k].link /\ chan'[k].toHub = ReadBy(h)[k].toHub
          /\ \/ chan'[k].toWorker = ReadBy(h)[k].toWorker
             \/ k = h /\ chan'[k].toWorker = ReadBy(h)[k].toWorker \o ms
      <4>1. chan' = ToWorker(ReadBy(h), h, ms)
        BY <3>1 DEF ms
      <4>2. /\ chan'[k].link = ReadBy(h)[k].link /\ chan'[k].toHub = ReadBy(h)[k].toHub
            /\ chan'[k].toWorker = IF k = h /\ hub[h].att /\ ReadBy(h)[h].link = "open"
                                   THEN ReadBy(h)[h].toWorker \o ms ELSE ReadBy(h)[k].toWorker
        BY <1>3, <3>3, <4>1, ToWorkerSends
      <4>3. QED BY <4>2
    <3>5. NoNewHello(chan[k].toWorker, chan'[k].toWorker)
      <4>1. CASE chan'[k].toWorker = chan[k].toWorker
        BY <4>1 DEF NoNewHello
      <4>2. CASE chan'[k].toWorker = chan[k].toWorker \o ms
        BY <1>1, <3>3, <4>2, SentHello DEF Channels
      <4>3. QED BY <1>3, <3>4, <4>1, <4>2
    <3>6. QED BY <1>3, <3>4, <3>5
  <2>3. QED BY <2>1, <2>2
<1>5. ASSUME NEW k \in Hubs
      PROVE  SocketOK(k, chan[k], hub[k], current, gen)'
  <2>1. CASE k # h
    BY <1>4, <2>1, KeptSocket DEF Sockets, KeepsSocket
  <2>2. CASE k = h
    <3>1. chan[h].link \notin {"none", "hubGone"}
      BY <1>1 DEF SocketOK
    <3>2. HelloOK(h, chan'[h], current)
      BY <1>1, <1>4 DEF SocketOK, HelloOK, NoNewHello
    <3>3. chan'[h].link = chan[h].link /\ chan'[h].toHub = Tail(chan[h].toHub)
      BY <1>4
    <3>4. QED BY <1>1, <1>2, <2>2, <3>1, <3>2, <3>3 DEF SocketOK
  <2>3. QED BY <2>1, <2>2
<1>6. QED BY <1>2, <1>5 DEF Sockets

\* The steps of a hub that neither execute nor change generation.
LEMMA ApprovalStep ==
  ASSUME IInv, TypeOK', NEW h \in Hubs,
         \/ JoinAsk(h) \/ RecoverDecision(h) \/ AutoApprove(h) \/ AskOperator(h)
         \/ Decide(h) \/ Expire(h) \/ CloseWindow(h) \/ FinishAction(h)
  PROVE  Sockets' /\ LaneOK(pend, gen)' /\ Caches' /\ UNCHANGED effects
<1> USE DEF IInv
<1>0. /\ chan \in [Hubs -> Channels] /\ hub \in [Hubs -> HubStates] /\ hub[h] \in HubStates /\ h \in Nat
      /\ {"system", "policy", "operator", "reviewer"} \subseteq Deciders
  BY HubNumbers DEF TypeOK, Deciders
<1>1. UNCHANGED <<gen, pend, current, effects>>
  BY DEF JoinAsk, RecoverDecision, AutoApprove, AskOperator, Decide, Expire, CloseWindow,
         FinishAction, worker, ghosts
<1>2. \A k \in Hubs : /\ hub'[k].gen = hub[k].gen /\ hub'[k].served = hub[k].served
                      /\ hub'[k].role = hub[k].role
  <2>1. CASE JoinAsk(h) \/ AskOperator(h)
    <3>1. PICK n : hub' = [hub EXCEPT ![h].asked = Request(h).of, ![h].waiting = n]
      BY <2>1 DEF JoinAsk, AskOperator
    <3>2. QED BY <1>0, <3>1 DEF HubStates
  <2>2. CASE RecoverDecision(h) \/ AutoApprove(h) \/ CloseWindow(h)
    <3>1. hub' = hub \/ hub' = [hub EXCEPT ![h].recovers = FALSE]
      BY <2>2 DEF RecoverDecision, AutoApprove, CloseWindow
    <3>2. CASE hub' = hub
      BY <3>2
    <3>3. CASE hub' = [hub EXCEPT ![h].recovers = FALSE]
      BY <1>0, <3>3 DEF HubStates
    <3>4. QED BY <3>1, <3>2, <3>3
  <2>3. CASE Decide(h) \/ Expire(h)
    <3>1. hub' = [hub EXCEPT ![h].asked = 0, ![h].waiting = 0, ![h].recovers = FALSE]
      BY <2>3 DEF Decide, Expire, Finish
    <3>2. QED BY <1>0, <3>1 DEF HubStates
  <2>4. CASE FinishAction(h)
    BY <1>0, <2>4 DEF FinishAction, HubStates
  <2>5. QED BY <2>1, <2>2, <2>3, <2>4
<1>3. Caches' /\ LaneOK(pend, gen)' /\ KeepsHubs
  BY <1>1, <1>2, CachesKept DEF KeepsHubs
<1>4. CASE JoinAsk(h) \/ RecoverDecision(h) \/ AutoApprove(h) \/ AskOperator(h)
  <2>1. FromWorker(h, "relay")
    BY <1>4 DEF JoinAsk, RecoverDecision, AutoApprove, AskOperator, AskArrives
  <2>2. Request(h).id \in Nat /\ Request(h).of \in Nat
    BY <2>1, RequestTyped
  <2>3. \/ chan' = ReadBy(h)
        \/ \E m \in Replies : chan' = ToWorker(ReadBy(h), h, <<m>>)
    <3>1. CASE JoinAsk(h) \/ AskOperator(h)
      BY <3>1 DEF JoinAsk, AskOperator
    <3>2. CASE RecoverDecision(h) /\ decider = "reviewer"
      BY <1>0, <2>2, <3>2, ReplyTyped DEF RecoverDecision
    <3>3. CASE RecoverDecision(h) /\ decider # "reviewer"
      BY <2>2, <3>3, ReplyTyped DEF TypeOK, DurableOK, RecoverDecision, Recorded
    <3>4. CASE AutoApprove(h)
      BY <1>0, <2>2, <3>4, ReplyTyped DEF AutoApprove
    <3>5. QED BY <1>4, <3>1, <3>2, <3>3, <3>4
  <2>4. Sockets'
    BY <1>1, <1>2, <2>1, <2>3, HubReads
  <2>5. QED BY <1>1, <1>3, <2>4
<1>5. CASE Decide(h) \/ Expire(h)
  <2>1. PICK who \in Deciders : Finish(h, who)
    BY <1>0, <1>5 DEF Decide, Expire
  <2> DEFINE ms == [i \in 1 .. hub[h].waiting |-> Reply([id |-> 0], hub[h].asked, h, who)]
  <2>2. chan' = ToWorker(chan, h, ms)
    BY <2>1 DEF Finish
  <2>3. hub[h].waiting \in Nat /\ hub[h].asked \in Nat
    BY <1>0 DEF HubStates
  <2>4. Reply([id |-> 0], hub[h].asked, h, who) \in ToWorkerMsgs
    BY <1>0, <2>3, ReplyTyped
  <2>5. ms \in Seq(ToWorkerMsgs) /\ \A i \in DOMAIN ms : ms[i].t # "hello"
    BY <2>3, <2>4 DEF Reply
  <2> HIDE DEF ms
  <2>6. Sockets'
    BY <1>1, <1>3, <2>2, <2>5, HubSends
  <2>7. QED BY <1>1, <1>3, <2>6
<1>6. CASE FinishAction(h)
  <2>1. PICK i \in DOMAIN hub[h].running :
          chan' = ToWorker(chan, h, <<Reply(hub[h].running[i], hub[h].running[i].of, h, "hub")>>)
    BY <1>6 DEF FinishAction
  <2> DEFINE m  == Reply(hub[h].running[i], hub[h].running[i].of, h, "hub")
             ms == <<m>>
  <2>2. hub[h].running \in Seq(Requests)
    BY <1>0 DEF HubStates
  <2>3. hub[h].running[i] \in Requests
    BY <2>2
  <2>4. m \in ToWorkerMsgs /\ m.t = "reply"
    BY <1>0, <2>3, ReplyTyped DEF Requests, Reply
  <2> HIDE DEF m
  <2>5. ms \in Seq(ToWorkerMsgs) /\ \A j \in DOMAIN ms : ms[j].t # "hello"
    BY <2>4, OneElement
  <2>6. chan' = ToWorker(chan, h, ms)
    BY <2>1 DEF m
  <2> HIDE DEF ms
  <2>7. Sockets'
    BY <1>1, <1>3, <2>5, <2>6, HubSends
  <2>8. QED BY <1>1, <1>3, <2>7
<1>7. CASE CloseWindow(h)
  BY <1>1, <1>2, <1>3, <1>7 DEF CloseWindow, Sockets, SocketOK, HelloOK
<1>8. QED BY <1>4, <1>5, <1>6, <1>7

\* connect(), and what ends or greets a socket.
LEMMA SocketStep ==
  ASSUME IInv, TypeOK', NEW h \in Hubs, Connect(h) \/ HubNotices(h) \/ RecvWelcome(h) \/ Flap(h)
  PROVE  Sockets' /\ LaneOK(pend, gen)' /\ Caches' /\ UNCHANGED effects
<1> USE DEF IInv
<1>1. /\ SocketOK(h, chan[h], hub[h], current, gen) /\ chan \in [Hubs -> Channels]
      /\ chan[h] \in Channels /\ hub \in [Hubs -> HubStates] /\ hub[h] \in HubStates
      /\ gen \in Nat /\ pend \in Seq(Relays) /\ hub[h].gen <= gen /\ hub[h].gen \in Nat
      /\ current \in Hubs \cup {None}
  BY SocketFacts
<1>2. UNCHANGED <<gen, effects>>
  BY DEF Connect, HubNotices, RecvWelcome, Flap, worker, ghosts
<1>3. \A k \in Hubs \ {h} : chan'[k] = chan[k] /\ hub'[k] = hub[k]
  BY <1>1 DEF Connect, HubNotices, Flap, RecvWelcome, ReadBy
<1>4. ASSUME NEW k \in Hubs, k # h, current' \in {current, None}
      PROVE  SocketOK(k, chan[k], hub[k], current, gen)'
  BY <1>2, <1>3, <1>4, HubNumbers DEF Sockets, SocketOK, HelloOK
<1>5. CASE Connect(h)
  <2>1. /\ chan'[h] = [Closed EXCEPT !.link = "open", !.toWorker = <<Hello(hub[h].epoch)>>]
        /\ UNCHANGED <<hub, pend, current>> /\ Alive(h) /\ chan[h].link = "none"
    BY <1>1, <1>5 DEF Connect, worker
  <2>2. /\ chan'[h].link = "open" /\ chan'[h].toHub = << >>
        /\ chan'[h].toWorker = <<Hello(hub[h].epoch)>>
    BY <2>1 DEF Closed
  <2>3. current # h /\ hub[h].role \in AliveRoles
    BY <1>1, <2>1 DEF SocketOK, Alive, AliveRoles
  <2>4. HelloOK(h, chan'[h], current)
    BY <2>2, <2>3 DEF HelloOK
  <2>5. SocketOK(h, chan'[h], hub[h], current, gen)
    BY <1>1, <2>2, <2>3, <2>4, QuietSocket
  <2>6. Caches' /\ LaneOK(pend, gen)'
    BY <1>2, <2>1 DEF Caches
  <2>7. QED BY <1>2, <1>4, <2>1, <2>5, <2>6 DEF Sockets
<1>6. CASE HubNotices(h)
  <2>1. /\ chan'[h] = Closed /\ hub' = [hub EXCEPT ![h].att = FALSE]
        /\ UNCHANGED <<pend, current>> /\ chan[h].link = "workerGone"
    BY <1>1, <1>6 DEF HubNotices, worker
  <2>2. current # h
    BY <1>1, <2>1 DEF SocketOK
  <2>3. KeepsHubs
    BY <1>1, <2>1 DEF KeepsHubs, HubStates
  <2>4. SocketOK(h, Closed, hub'[h], current, gen)
    BY <1>1, <2>2, <2>3, ClosedSocket DEF KeepsHubs
  <2>5. Caches' /\ LaneOK(pend, gen)'
    BY <1>2, <2>1, <2>3, CachesKept DEF KeepsHubs
  <2>6. QED BY <1>2, <1>4, <2>1, <2>4, <2>5 DEF Sockets
<1>7. CASE RecvWelcome(h)
  <2> DEFINE q == chan[h].toHub
             g == Head(q).gen
  <2>1. /\ FromWorker(h, "welcome") /\ chan' = ReadBy(h) /\ UNCHANGED <<pend, current>>
        /\ hub' = [hub EXCEPT ![h].att = TRUE, ![h].gen = g,
                              ![h].served = IF hub[h].gen \in {0, g} THEN @ ELSE {}]
    BY <1>7 DEF RecvWelcome, worker
  <2>2. /\ q \in Seq(ToHubMsgs) /\ q # << >> /\ Head(q).t = "welcome"
        /\ chan'[h].link = chan[h].link /\ chan'[h].toWorker = chan[h].toWorker
        /\ chan'[h].toHub = Tail(q)
    BY <1>1, <2>1, ReadByHub DEF FromWorker, Channels
  <2>3. QueueOK(q, hub[h].gen, gen)
    BY <1>1 DEF SocketOK
  <2> HIDE DEF q
  <2>4. /\ g = GenOf(q, hub[h].gen) /\ GenOf(Tail(q), g) = g /\ QueueOK(Tail(q), g, gen)
        /\ hub[h].gen <= g /\ g \in Nat
    BY <1>1, <2>2, <2>3, QueueRead
  <2> HIDE DEF g
  <2>5. /\ hub'[h].gen = g /\ hub'[h].role = hub[h].role
        /\ hub'[h].served = IF hub[h].gen \in {0, g} THEN hub[h].served ELSE {}
    BY <1>1, <2>1, <2>4 DEF HubStates
  <2>6. SocketOK(h, chan'[h], hub'[h], current, gen)
    BY <1>1, <2>2, <2>4, <2>5 DEF SocketOK, HelloOK, q
  <2>7. CacheOK(hub'[h], effects[h])
    <3>1. effects[h] \in Seq(Requests) /\ CacheOK(hub[h], effects[h])
      BY DEF TypeOK, GhostsOK, Caches
    <3>2. \A i \in DOMAIN effects[h] : effects[h][i].of \in Nat
      <4>1. \A i \in DOMAIN effects[h] : effects[h][i] \in Requests
        BY <3>1
      <4>2. QED BY <4>1 DEF Requests
    <3>3. ASSUME hub[h].role \in AliveRoles, NEW i \in DOMAIN effects[h]
          PROVE  /\ effects[h][i].of <= g
                 /\ effects[h][i].kind = "write" /\ effects[h][i].of = g =>
                      [id |-> effects[h][i].id, of |-> effects[h][i].of] \in hub'[h].served
      <4>1. effects[h][i].of <= hub[h].gen
        BY <3>1, <3>3 DEF CacheOK
      <4>2. effects[h][i].of <= g
        BY <1>1, <2>4, <3>2, <4>1
      <4>3. effects[h][i].of = g => hub[h].gen = g /\ hub'[h].served = hub[h].served
        BY <1>1, <2>4, <2>5, <3>2, <4>1
      <4>4. QED BY <3>1, <3>3, <4>2, <4>3 DEF CacheOK
    <3>4. QED BY <2>5, <3>1, <3>3 DEF CacheOK
  <2>8. Caches'
    BY <1>2, <1>3, <2>7 DEF Caches
  <2>9. LaneOK(pend, gen)'
    BY <1>2, <2>1
  <2>10. QED BY <1>2, <1>4, <2>1, <2>6, <2>8, <2>9 DEF Sockets
<1>8. CASE Flap(h)
  <2>1. /\ chan[h].link = "open" /\ current' \in {current, None}
        /\ chan'[h].toHub = << >> /\ chan'[h].toWorker = << >>
        /\ \/ chan'[h].link = "hubGone" \/ (chan'[h].link = "workerGone" /\ current' # h)
    BY <1>1, <1>8, HubNumbers DEF Flap, Closed
  <2>2. hub[h].role \in AliveRoles
    BY <1>1, <2>1 DEF SocketOK
  <2>3. hub' = hub \/ hub' = [hub EXCEPT ![h].att = FALSE]
    BY <1>8 DEF Flap
  <2>4. KeepsHubs
    <3>1. CASE hub' = hub
      BY <3>1 DEF KeepsHubs
    <3>2. CASE hub' = [hub EXCEPT ![h].att = FALSE]
      BY <1>1, <3>2 DEF KeepsHubs, HubStates
    <3>3. QED BY <2>3, <3>1, <3>2
  <2>5. hub'[h].role \in AliveRoles /\ hub'[h].gen = hub[h].gen
    BY <2>2, <2>4 DEF KeepsHubs
  <2>6. SocketOK(h, chan'[h], hub'[h], current', gen)
    BY <1>1, <2>1, <2>5, QuietSocket DEF HelloOK
  <2>7. LaneOK(pend, gen)'
    BY <1>1, <1>2, <1>8, LaneKept DEF Flap
  <2>8. Caches'
    BY <1>2, <2>4, CachesKept DEF KeepsHubs
  <2>9. QED BY <1>2, <1>4, <2>1, <2>6, <2>7, <2>8 DEF Sockets
<1>9. QED BY <1>5, <1>6, <1>7, <1>8

\* hubctl starts a process: nothing is on its socket, and it has executed nothing.
LEMMA StartStep ==
  ASSUME IInv, TypeOK', NEW h \in Hubs, NEW role \in AliveRoles, hub[h].role = "off", Start(h, role),
         UNCHANGED <<chan, gen, pend, current, effects>>
  PROVE  Sockets' /\ LaneOK(pend, gen)' /\ Caches'
<1> USE DEF IInv
<1>1. /\ SocketOK(h, chan[h], hub[h], current, gen) /\ hub \in [Hubs -> HubStates] /\ gen \in Nat
  BY SocketFacts
<1>2. /\ hub'[h].role \in AliveRoles /\ hub'[h].gen = 0 /\ hub'[h].role # "off"
      /\ \A k \in Hubs \ {h} : hub'[k] = hub[k]
  BY <1>1 DEF Start, NewHub, NoHub, AliveRoles
<1>3. chan[h].link \in {"none", "hubGone"} /\ chan[h].toHub = << >> /\ HelloOK(h, chan[h], current)
  BY <1>1 DEF SocketOK, AliveRoles
<1>4. current = h => chan[h].link = "hubGone"
  BY <1>1, <1>3 DEF SocketOK
<1>5. SocketOK(h, chan[h], hub'[h], current, gen)
  BY <1>1, <1>2, <1>3, <1>4, QuietSocket
<1>6. Sockets'
  BY <1>2, <1>5 DEF Sockets
<1>7. Caches'
  BY <1>2 DEF Caches, CacheOK
<1>8. QED BY <1>6, <1>7

\* A process ends: it executes nothing any more, and what was on its way to it is lost.
LEMMA DieStep ==
  ASSUME IInv, TypeOK', NEW h \in Hubs, Die(h), UNCHANGED <<gen, pend, current, effects>>
  PROVE  Sockets' /\ LaneOK(pend, gen)' /\ Caches'
<1> USE DEF IInv
<1>1. /\ SocketOK(h, chan[h], hub[h], current, gen) /\ hub \in [Hubs -> HubStates] /\ gen \in Nat
      /\ chan \in [Hubs -> Channels] /\ chan[h] \in Channels
      /\ chan[h].link \in {"none", "open", "hubGone", "workerGone"}
  BY SocketFacts
<1>2. /\ hub'[h].role = "dead" /\ hub'[h].gen = 0
      /\ \A k \in Hubs \ {h} : hub'[k] = hub[k] /\ chan'[k] = chan[k]
  BY <1>1 DEF Die, NoHub
<1>3. SocketOK(h, chan'[h], hub'[h], current, gen)
  <2>1. CASE chan[h].link = "open"
    <3>1. chan'[h] = [chan[h] EXCEPT !.link = "hubGone", !.toHub = << >>]
      BY <1>1, <2>1 DEF Die
    <3>2. /\ chan'[h].link = "hubGone" /\ chan'[h].toHub = << >>
          /\ chan'[h].toWorker = chan[h].toWorker
      BY <1>1, <3>1 DEF Channels
    <3>3. HelloOK(h, chan'[h], current)
      BY <1>1, <3>2 DEF SocketOK, HelloOK
    <3>4. QED BY <1>1, <1>2, <3>2, <3>3, QuietSocket
  <2>2. CASE chan[h].link = "hubGone"
    <3>1. chan'[h] = chan[h] /\ chan[h].toHub = << >> /\ HelloOK(h, chan[h], current)
      BY <1>1, <2>2 DEF Die, SocketOK
    <3>2. QED BY <1>1, <1>2, <2>2, <3>1, QuietSocket
  <2>3. CASE chan[h].link \in {"none", "workerGone"}
    <3>1. chan'[h] = Closed /\ current # h
      BY <1>1, <2>3 DEF Die, SocketOK
    <3>2. QED BY <1>1, <1>2, <3>1, ClosedSocket
  <2>4. QED BY <1>1, <2>1, <2>2, <2>3
<1>4. Sockets'
  BY <1>2, <1>3 DEF Sockets
<1>5. CacheOK(hub'[h], effects[h])
  BY <1>2 DEF CacheOK, AliveRoles
<1>6. Caches'
  BY <1>2, <1>5 DEF Caches
<1>7. QED BY <1>4, <1>6

LEMMA SupervisorStep ==
  ASSUME IInv, TypeOK', NEW h \in Hubs,
         Supervision(h) \/ BootGreen(h) \/ GreenDies(h) \/ HubCrash(h)
  PROVE  Sockets' /\ LaneOK(pend, gen)' /\ Caches' /\ UNCHANGED effects
<1> USE DEF IInv
<1>0. /\ chan \in [Hubs -> Channels] /\ hub \in [Hubs -> HubStates] /\ hub[h] \in HubStates
  BY DEF TypeOK
<1>1. UNCHANGED <<gen, pend, current, effects>>
  BY DEF Supervision, Drain, Promote, Retire, Rollback, Revive, BootGreen, GreenDies, HubCrash,
         worker, ghosts
<1>2. CASE Retire(h) \/ GreenDies(h) \/ HubCrash(h)
  BY <1>1, <1>2, DieStep DEF Retire, GreenDies, HubCrash
<1>3. CASE Revive(h) \/ BootGreen(h)
  BY <1>1, <1>3, StartStep DEF Revive, BootGreen, AliveRoles, Startable
<1>4. CASE Drain(h) \/ Promote(h) \/ Rollback(h)
  <2>1. /\ hub[h].role \in AliveRoles
        /\ \/ \E r \in AliveRoles : hub' = [hub EXCEPT ![h].role = r]
           \/ \E e : hub' = [hub EXCEPT ![h].role = "live", ![h].epoch = e]
        /\ \/ UNCHANGED chan
           \/ \E on \in BOOLEAN : chan' = ToWorker(chan, h, <<Draining(on)>>)
    BY <1>4 DEF Drain, AliveRoles, Promote, Rollback
  <2>2. KeepsHubs
    <3>1. CASE \E r \in AliveRoles : hub' = [hub EXCEPT ![h].role = r]
      <4>1. PICK r \in AliveRoles : hub' = [hub EXCEPT ![h].role = r]
        BY <3>1
      <4>2. QED BY <1>0, <2>1, <4>1 DEF KeepsHubs, HubStates
    <3>2. CASE \E e : hub' = [hub EXCEPT ![h].role = "live", ![h].epoch = e]
      <4>1. PICK e : hub' = [hub EXCEPT ![h].role = "live", ![h].epoch = e]
        BY <3>2
      <4>2. hub'[h].role = "live" /\ hub'[h].gen = hub[h].gen /\ hub'[h].served = hub[h].served
        BY <1>0, <4>1 DEF HubStates
      <4>3. \A k \in Hubs \ {h} : hub'[k] = hub[k]
        BY <1>0, <4>1
      <4>4. QED BY <2>1, <4>2, <4>3 DEF KeepsHubs, AliveRoles
    <3>3. QED BY <2>1, <3>1, <3>2
  <2>3. Sockets'
    <3>1. CASE UNCHANGED chan
      <4>1. ASSUME NEW k \in Hubs
            PROVE  SocketOK(k, chan[k], hub[k], current, gen)'
        BY <1>1, <2>2, <3>1, KeptSocket DEF Sockets, KeepsSocket, KeepsHubs, NoNewHello
      <4>2. QED BY <4>1 DEF Sockets
    <3>2. CASE \E on \in BOOLEAN : chan' = ToWorker(chan, h, <<Draining(on)>>)
      <4>1. PICK on \in BOOLEAN : chan' = ToWorker(chan, h, <<Draining(on)>>)
        BY <3>2
      <4> DEFINE m  == Draining(on)
                 ms == <<m>>
      <4>2. m \in ToWorkerMsgs /\ m.t = "draining"
        BY MessagesTyped DEF Draining
      <4> HIDE DEF m
      <4>3. ms \in Seq(ToWorkerMsgs) /\ \A i \in DOMAIN ms : ms[i].t # "hello"
        BY <4>2, OneElement
      <4>4. chan' = ToWorker(chan, h, ms)
        BY <4>1 DEF m
      <4> HIDE DEF ms
      <4>5. QED BY <1>1, <2>2, <4>3, <4>4, HubSends
    <3>3. QED BY <2>1, <3>1, <3>2
  <2>4. Caches' /\ LaneOK(pend, gen)'
    BY <1>1, <2>2, CachesKept DEF KeepsHubs
  <2>5. QED BY <1>1, <2>3, <2>4
<1>5. QED BY <1>2, <1>3, <1>4 DEF Supervision

-----------------------------------------------------------------------------
(* Executions.                                                             *)

\* A hub executes a relay: what it adds to the effects, and to the cache.
LEMMA EffectStep ==
  ASSUME IInv, NEW h \in Hubs, FromWorker(h, "relay"), Executed(h),
         Request(h).kind # "approval" => Request(h).of = hub[h].gen,
         Request(h).kind \in {"write", "action"}, Alive(h),
         \A k \in Hubs : hub'[k].gen = hub[k].gen /\ hub'[k].role = hub[k].role,
         \A k \in Hubs : hub[k].served \subseteq hub'[k].served,
         Request(h).kind = "write" =>
           /\ [id |-> Request(h).id, of |-> Request(h).of] \notin hub[h].served
           /\ [id |-> Request(h).id, of |-> Request(h).of] \in hub'[h].served
  PROVE  Caches' /\ WriteOncePerHub'
<1> USE DEF IInv
<1> DEFINE r  == Request(h)
           es == effects[h]
<1>1. /\ effects \in [Hubs -> Seq(Requests)] /\ es \in Seq(Requests) /\ r \in Requests
      /\ hub[h].gen \in Nat /\ r.of = hub[h].gen
  BY RequestTyped, SocketFacts DEF TypeOK, GhostsOK
<1>2. /\ \A k \in Hubs \ {h} : effects'[k] = effects[k]
      /\ effects'[h] = Append(es, r)
  BY <1>1 DEF Executed
<1> HIDE DEF r
<1>3. /\ Len(es) \in Nat /\ DOMAIN es = 1 .. Len(es) /\ DOMAIN effects'[h] = 1 .. Len(es) + 1
      /\ \A i \in 1 .. Len(es) : effects'[h][i] = es[i]
      /\ effects'[h][Len(es) + 1] = r
  BY <1>1, <1>2, AppendProperties, LenProperties
<1>4. hub[h].role \in AliveRoles /\ hub[h].role # "off"
  BY DEF Alive, AliveRoles
<1>5. \A i \in DOMAIN es : /\ es[i].of <= hub[h].gen
                           /\ es[i].kind = "write" /\ es[i].of = hub[h].gen =>
                                [id |-> es[i].id, of |-> es[i].of] \in hub[h].served
  BY <1>4 DEF Caches, CacheOK
<1> HIDE DEF es
<1>6. \A i \in DOMAIN effects'[h] : (i \in DOMAIN es /\ effects'[h][i] = es[i])
                                      \/ (i = Len(es) + 1 /\ effects'[h][i] = r)
  BY <1>3
<1>7. CacheOK(hub'[h], effects'[h])
  <2>1. ASSUME NEW i \in DOMAIN effects'[h]
        PROVE  /\ effects'[h][i].of <= hub'[h].gen
               /\ effects'[h][i].kind = "write" /\ effects'[h][i].of = hub'[h].gen =>
                    [id |-> effects'[h][i].id, of |-> effects'[h][i].of] \in hub'[h].served
    BY <1>1, <1>5, <1>6 DEF r
  <2>2. hub'[h].role # "off"
    BY <1>4
  <2>3. QED BY <2>1, <2>2 DEF CacheOK
<1>8. ASSUME NEW k \in Hubs
      PROVE  CacheOK(hub'[k], effects'[k])
  <2>1. CASE k = h
    BY <1>7, <2>1
  <2>2. CASE k # h
    BY <1>2, <2>2 DEF Caches, CacheOK
  <2>3. QED BY <2>1, <2>2
<1>9. \A i \in DOMAIN es : es[i].kind = "write" => es[i] # r
  BY <1>1, <1>5 DEF r
<1>10. ASSUME NEW k \in Hubs, NEW i \in DOMAIN effects'[k], NEW j \in DOMAIN effects'[k],
              effects'[k][i].kind = "write", effects'[k][i] = effects'[k][j]
       PROVE  i = j
  <2>1. CASE k = h
    BY <1>6, <1>9, <1>10, <2>1 DEF WriteOncePerHub, es
  <2>2. CASE k # h
    BY <1>2, <1>10, <2>2 DEF WriteOncePerHub
  <2>3. QED BY <2>1, <2>2
<1>11. QED BY <1>8, <1>10 DEF Caches, WriteOncePerHub

\* dispatchRpc().
LEMMA RpcStep ==
  ASSUME IInv, TypeOK', NEW h \in Hubs, ServeWrite(h) \/ StartAction(h)
  PROVE  Sockets' /\ LaneOK(pend, gen)' /\ Caches' /\ WriteOncePerHub'
<1> USE DEF IInv
<1> DEFINE r    == Request(h)
           hits == {s \in hub[h].served : s.id = r.id}
<1>0. /\ hub \in [Hubs -> HubStates] /\ hub[h] \in HubStates /\ h \in Nat
      /\ UNCHANGED <<gen, pend, current>>
      /\ FromWorker(h, "relay") /\ r \in Requests /\ r.id \in Nat /\ r.of \in Nat
      /\ Alive(h) /\ r.kind \in {"write", "action"}
  BY HubNumbers, RequestTyped DEF TypeOK, ServeWrite, StartAction, worker, FromWorker
<1>1. LaneOK(pend, gen)'
  BY <1>0
<1>2. CASE ServeWrite(h) /\ hits # {}
  <2>1. PICK s \in hits : chan' = ToWorker(ReadBy(h), h, <<Reply(r, s.of, h, "hub")>>)
    BY <1>2 DEF ServeWrite
  <2>2. s.of \in Nat /\ UNCHANGED <<hub, effects>>
    BY <1>0, <1>2 DEF ServeWrite, HubStates
  <2>3. Reply(r, s.of, h, "hub") \in Replies
    BY <1>0, <2>2, ReplyTyped
  <2>4. Sockets'
    BY <1>0, <2>1, <2>2, <2>3, HubReads
  <2>5. Caches' /\ WriteOncePerHub'
    BY <2>2 DEF Caches, WriteOncePerHub
  <2>6. QED BY <1>1, <2>4, <2>5
<1>3. CASE ServeWrite(h) /\ hits = {}
  <2>1. /\ hub' = [hub EXCEPT ![h].served = @ \cup {[id |-> r.id, of |-> r.of]}]
        /\ chan' = ToWorker(ReadBy(h), h, <<Reply(r, r.of, h, "hub")>>)
        /\ Executed(h)
    BY <1>3 DEF ServeWrite
  <2>2. /\ \A k \in Hubs : hub'[k].gen = hub[k].gen /\ hub'[k].role = hub[k].role
        /\ \A k \in Hubs : hub[k].served \subseteq hub'[k].served
        /\ [id |-> r.id, of |-> r.of] \in hub'[h].served
    BY <1>0, <2>1 DEF HubStates
  <2>3. [id |-> r.id, of |-> r.of] \notin hub[h].served
    BY <1>3
  <2>4. Reply(r, r.of, h, "hub") \in Replies
    BY <1>0, ReplyTyped
  <2>5. Sockets' /\ (r.kind # "approval" => r.of = hub[h].gen)
    BY <1>0, <2>1, <2>2, <2>4, HubReads
  <2>6. Caches' /\ WriteOncePerHub'
    BY <1>0, <2>1, <2>2, <2>3, <2>5, EffectStep
  <2>7. QED BY <1>1, <2>5, <2>6
<1>4. CASE StartAction(h)
  BY <1>0, <1>1, <1>4, HubReads, EffectStep DEF StartAction, HubStates
<1>5. QED BY <1>2, <1>3, <1>4

LEMMA InvStep == IInv /\ [Next]_vars => IInv'
<1> SUFFICES ASSUME IInv, [Next]_vars PROVE IInv'
  OBVIOUS
<1>1. TypeOK'
  BY TypeStep DEF IInv
<1>2. CASE UNCHANGED vars
  BY <1>1, <1>2 DEF vars, worker, ghosts, IInv, Sockets, Caches, WriteOncePerHub
<1>3. CASE \/ Call \/ Ask \/ RelayTimeout \/ WorkerDeath
           \/ \E h \in Hubs :
                \/ WorkerSteps(h) \/ Supervision(h)
                \/ Connect(h) \/ HubNotices(h) \/ RecvWelcome(h) \/ Flap(h)
                \/ JoinAsk(h) \/ RecoverDecision(h) \/ AutoApprove(h) \/ AskOperator(h)
                \/ FinishAction(h) \/ Decide(h) \/ Expire(h) \/ CloseWindow(h)
                \/ BootGreen(h) \/ GreenDies(h) \/ HubCrash(h)
  <2>1. Sockets' /\ LaneOK(pend, gen)' /\ Caches' /\ UNCHANGED effects
    BY <1>1, <1>3, AgentStep, WorkerDeathStep, WorkerStep, SupervisorStep, SocketStep, ApprovalStep
  <2>2. WriteOncePerHub'
    BY <2>1 DEF IInv, WriteOncePerHub
  <2>3. QED BY <1>1, <2>1, <2>2 DEF IInv
<1>4. CASE \E h \in Hubs : ServeWrite(h) \/ StartAction(h)
  BY <1>1, <1>4, RpcStep DEF IInv
<1>5. QED BY <1>2, <1>3, <1>4 DEF Next, HubSteps

\* However many hubs, relays, resends and restarts: no hub process executes a write twice.
THEOREM WriteOnceCorrect == Spec => []WriteOncePerHub
<1>1. IInv => WriteOncePerHub
  BY DEF IInv
<1>2. QED BY SocketsInit, InvStep, <1>1, PTL DEF Spec

-----------------------------------------------------------------------------
(* The inductive invariant of NoOrphanedRelay.                             *)
(*                                                                         *)
(* Only an approval that was sent waits without a timer, and the lane      *)
(* holds one at most.  Where it is follows it through the hub: on the way  *)
(* there, asked, answered.  The hub drops what it sends before it has read *)
(* the worker's welcome, so the invariant also says that it reads the      *)
(* welcome before any relay of that connection, and that a request that is *)
(* asked has somebody waiting to be answered.                              *)

\* Approvals share id 0, and count from 1.
Proper(r) == (r.kind = "approval" <=> r.id = 0) /\ (r.id = 0 => r.of # 0)

\* One approval at most is pending, and nothing else waits without a timer.
LaneShape(p) ==
  /\ \A i \in DOMAIN p : Proper(p[i].req) /\ (p[i].timer = "none" => p[i].req.id = 0)
  /\ \A i, j \in DOMAIN p : p[i].req.id = 0 /\ p[j].req.id = 0 => i = j

WireShape(q) == \A i \in DOMAIN q : q[i].t = "relay" => Proper(q[i].req)

Waits(s) == s.asked # 0 => s.waiting >= 1

\* Something waits without a timer.
Unbounded(p) == \E i \in DOMAIN p : p[i].timer = "none"

Welcomed(q) == q # << >> /\ q[1].t = "welcome"
AskOn(q)    == \E i \in DOMAIN q : q[i].t = "relay" /\ q[i].req.id = 0
AnswerOn(q) == \E i \in DOMAIN q : q[i].t = "reply" /\ q[i].id = 0

\* The approval is on its way to the hub, or there, or its answer is on its way back.
Held(c, s) == AskOn(c.toHub) \/ (s.att /\ (s.asked # 0 \/ AnswerOn(c.toWorker)))

\* Hub h in state s, with socket c, if it is the current one and its end is not closed.
HandOK(h, c, s, p, cur) ==
  cur = h /\ c.link = "open" =>
    /\ s.att \/ Welcomed(c.toHub)
    /\ Unbounded(p) => Held(c, s)

HubsHold == \A h \in Hubs : /\ WireShape(chan[h].toHub) /\ Waits(hub[h])
                            /\ HandOK(h, chan[h], hub[h], pend, current)

Holding == LaneShape(pend) /\ HubsHold /\ (Unbounded(pend) => current # None)

HInv == IInv /\ Holding

-----------------------------------------------------------------------------
(* Sequences, the lane and the sockets under that invariant.               *)

\* The elements of two sequences put together.
LEMMA Joined ==
  ASSUME NEW S, NEW q \in Seq(S), NEW ms \in Seq(S)
  PROVE  /\ \A i \in DOMAIN q : i \in DOMAIN (q \o ms) /\ (q \o ms)[i] = q[i]
         /\ \A i \in DOMAIN ms : \E j \in DOMAIN (q \o ms) : (q \o ms)[j] = ms[i]
         /\ \A j \in DOMAIN (q \o ms) : \/ j \in DOMAIN q /\ (q \o ms)[j] = q[j]
                                        \/ \E i \in DOMAIN ms : (q \o ms)[j] = ms[i]
<1> DEFINE qs == q \o ms
<1>1. /\ qs \in Seq(S) /\ Len(qs) = Len(q) + Len(ms) /\ Len(q) \in Nat /\ Len(ms) \in Nat
      /\ \A i \in 1 .. Len(q) + Len(ms) : qs[i] = IF i <= Len(q) THEN q[i] ELSE ms[i - Len(q)]
      /\ DOMAIN qs = 1 .. Len(q) + Len(ms) /\ DOMAIN q = 1 .. Len(q) /\ DOMAIN ms = 1 .. Len(ms)
  BY ConcatProperties, LenProperties
<1> HIDE DEF qs
<1>2. \A i \in DOMAIN q : i \in DOMAIN qs /\ qs[i] = q[i]
  BY <1>1
<1>3. ASSUME NEW i \in DOMAIN ms
      PROVE  \E j \in DOMAIN qs : qs[j] = ms[i]
  <2>1. /\ Len(q) + i \in DOMAIN qs /\ ~(Len(q) + i <= Len(q)) /\ Len(q) + i - Len(q) = i
        /\ Len(q) + i \in 1 .. Len(q) + Len(ms)
    BY <1>1
  <2>2. qs[Len(q) + i] = ms[i]
    BY <1>1, <2>1
  <2>3. QED BY <2>1, <2>2
<1>4. ASSUME NEW j \in DOMAIN qs, ~(j \in DOMAIN q /\ qs[j] = q[j])
      PROVE  \E i \in DOMAIN ms : qs[j] = ms[i]
  <2>1. j - Len(q) \in DOMAIN ms /\ qs[j] = ms[j - Len(q)]
    BY <1>1, <1>4
  <2>2. QED BY <2>1
<1>5. QED BY <1>2, <1>3, <1>4 DEF qs

\* The elements behind the first.
LEMMA Behind ==
  ASSUME NEW S, NEW q \in Seq(S), q # << >>
  PROVE  /\ \A i \in DOMAIN q : i # 1 => \E j \in DOMAIN Tail(q) : Tail(q)[j] = q[i]
         /\ \A i \in DOMAIN Tail(q) : i + 1 \in DOMAIN q /\ Tail(q)[i] = q[i + 1]
<1>1. /\ Len(q) \in Nat /\ DOMAIN q = 1 .. Len(q) /\ DOMAIN Tail(q) = 1 .. Len(q) - 1
      /\ \A i \in 1 .. Len(q) - 1 : Tail(q)[i] = q[i + 1]
  BY HeadTailProperties, LenProperties
<1>2. ASSUME NEW i \in DOMAIN q, i # 1
      PROVE  \E j \in DOMAIN Tail(q) : Tail(q)[j] = q[i]
  <2>1. i - 1 \in DOMAIN Tail(q) /\ (i - 1) + 1 = i /\ i - 1 \in 1 .. Len(q) - 1
    BY <1>1, <1>2
  <2>2. QED BY <1>1, <2>1
<1>3. QED BY <1>1, <1>2

\* Which elements a sequence keeps without its i-th.
LEMMA WithoutIndex ==
  ASSUME NEW S, NEW q \in Seq(S), NEW i \in DOMAIN q
  PROVE  \A k \in DOMAIN Without(q, i) :
           /\ (IF k < i THEN k ELSE k + 1) \in DOMAIN q \ {i}
           /\ Without(q, i)[k] = q[IF k < i THEN k ELSE k + 1]
           /\ k \in Nat
<1> DEFINE a == SubSeq(q, 1, i - 1)
           b == SubSeq(q, i + 1, Len(q))
<1>1. i \in 1 .. Len(q) /\ Len(q) \in Nat /\ DOMAIN q = 1 .. Len(q)
  BY LenProperties
<1>2. a \in Seq(S) /\ Len(a) = i - 1 /\ \A k \in 1 .. i - 1 : a[k] = q[k]
  BY <1>1, SubSeqProperties
<1>3. b \in Seq(S) /\ Len(b) = Len(q) - i /\ \A k \in 1 .. Len(q) - i : b[k] = q[i + k]
  BY <1>1, SubSeqProperties
<1>4. Without(q, i) = a \o b
  BY DEF Without
<1> HIDE DEF a, b
<1>5. /\ a \o b \in Seq(S) /\ DOMAIN (a \o b) = 1 .. Len(q) - 1
      /\ \A k \in 1 .. Len(q) - 1 : (a \o b)[k] = IF k <= i - 1 THEN a[k] ELSE b[k - (i - 1)]
  <2>1. /\ a \o b \in Seq(S) /\ Len(a \o b) = Len(a) + Len(b)
        /\ \A k \in 1 .. Len(a) + Len(b) : (a \o b)[k] = IF k <= Len(a) THEN a[k] ELSE b[k - Len(a)]
    BY <1>2, <1>3, ConcatProperties
  <2>2. Len(a) + Len(b) = Len(q) - 1
    BY <1>1, <1>2, <1>3
  <2>3. DOMAIN (a \o b) = 1 .. Len(a \o b)
    BY <2>1, LenProperties
  <2>4. QED BY <1>2, <2>1, <2>2, <2>3
<1>6. ASSUME NEW k \in 1 .. Len(q) - 1
      PROVE  /\ (IF k < i THEN k ELSE k + 1) \in DOMAIN q \ {i}
             /\ (a \o b)[k] = q[IF k < i THEN k ELSE k + 1]
             /\ k \in Nat
  <2>1. CASE k < i
    <3>1. k <= i - 1 /\ k \in 1 .. i - 1
      BY <1>1, <2>1
    <3>2. (a \o b)[k] = q[k]
      BY <1>2, <1>5, <3>1
    <3>3. QED BY <1>1, <2>1, <3>2
  <2>2. CASE ~(k < i)
    <3>1. ~(k <= i - 1) /\ k - (i - 1) \in 1 .. Len(q) - i /\ i + (k - (i - 1)) = k + 1
      BY <1>1, <2>2
    <3>2. (a \o b)[k] = q[k + 1]
      BY <1>3, <1>5, <3>1
    <3>3. QED BY <1>1, <2>2, <3>2
  <2>3. QED BY <2>1, <2>2
<1>7. QED BY <1>4, <1>5, <1>6

\* The lane held, sent, or with one relay less.
LEMMA ShapeKept ==
  ASSUME NEW p \in Seq(Relays), LaneShape(p)
  PROVE  /\ LaneShape(Detached(p)) /\ ~Unbounded(Detached(p))
         /\ LaneShape(Flushed(p)) /\ (Unbounded(Flushed(p)) => AskOn(Frames(p)))
         /\ WireShape(Frames(p))
<1>1. /\ DOMAIN Detached(p) = DOMAIN p /\ DOMAIN Flushed(p) = DOMAIN p /\ DOMAIN Frames(p) = DOMAIN p
      /\ \A i \in DOMAIN p : /\ Detached(p)[i].req = p[i].req /\ Flushed(p)[i].req = p[i].req
                             /\ Frames(p)[i] = Relayed(p[i].req)
  BY LaneTyped
<1>2. \A i \in DOMAIN p : Detached(p)[i].timer = "reach" /\ Flushed(p)[i].timer = DeliveredTimer(p[i].req)
  BY LaneElement DEF Detached, Flushed, Relays
<1>3. \A i \in DOMAIN p : Frames(p)[i].t = "relay" /\ Frames(p)[i].req = p[i].req
  BY <1>1 DEF Relayed
<1>4. LaneShape(Detached(p)) /\ ~Unbounded(Detached(p))
  BY <1>1, <1>2 DEF LaneShape, Unbounded
<1>5. \A i \in DOMAIN p : Flushed(p)[i].timer = "none" => p[i].req.id = 0
  BY <1>2 DEF DeliveredTimer, LaneShape, Proper
<1>6. LaneShape(Flushed(p))
  BY <1>1, <1>5 DEF LaneShape
<1>7. Unbounded(Flushed(p)) => AskOn(Frames(p))
  BY <1>1, <1>3, <1>5 DEF Unbounded, AskOn
<1>8. WireShape(Frames(p))
  BY <1>1, <1>3 DEF WireShape, LaneShape
<1>9. QED BY <1>4, <1>6, <1>7, <1>8

LEMMA ShapeWithout ==
  ASSUME NEW p \in Seq(Relays), LaneShape(p), NEW i \in DOMAIN p
  PROVE  /\ LaneShape(Without(p, i)) /\ (Unbounded(Without(p, i)) => Unbounded(p))
         /\ p[i].req.id = 0 => ~Unbounded(Without(p, i))
<1> DEFINE q == Without(p, i)
           at(k) == IF k < i THEN k ELSE k + 1
<1>1. \A k \in DOMAIN q : at(k) \in DOMAIN p \ {i} /\ q[k] = p[at(k)] /\ k \in Nat
  <2> HIDE DEF Relays
  <2>1. QED BY WithoutIndex
<1>2. i \in Nat
  OBVIOUS
<1>3. \A k, l \in DOMAIN q : at(k) = at(l) => k = l
  BY <1>1, <1>2
<1> HIDE DEF q, at
<1>4. LaneShape(q)
  BY <1>1, <1>3 DEF LaneShape
<1>5. Unbounded(q) => Unbounded(p)
  BY <1>1 DEF Unbounded
<1>6. ASSUME p[i].req.id = 0, NEW k \in DOMAIN q, q[k].timer = "none"
      PROVE  FALSE
  BY <1>1, <1>6 DEF LaneShape
<1>7. QED BY <1>4, <1>5, <1>6 DEF q, Unbounded

\* A relay more.
LEMMA ShapeGrows ==
  ASSUME NEW p \in Seq(Relays), LaneShape(p), NEW e \in Relays, Proper(e.req),
         e.timer = "none" => e.req.id = 0, e.req.id = 0 => \A i \in DOMAIN p : p[i].req.id # 0
  PROVE  /\ LaneShape(Append(p, e))
         /\ Unbounded(Append(p, e)) => Unbounded(p) \/ e.timer = "none"
<1>1. /\ DOMAIN Append(p, e) = 1 .. Len(p) + 1 /\ DOMAIN p = 1 .. Len(p) /\ Len(p) \in Nat
      /\ \A i \in 1 .. Len(p) : Append(p, e)[i] = p[i]
      /\ Append(p, e)[Len(p) + 1] = e
  <2> HIDE DEF Relays
  <2>1. QED BY AppendProperties, LenProperties
<1>2. \A i \in DOMAIN Append(p, e) : \/ i \in DOMAIN p /\ Append(p, e)[i] = p[i]
                                     \/ i = Len(p) + 1 /\ Append(p, e)[i] = e
  BY <1>1
<1>3. QED BY <1>2 DEF LaneShape, Unbounded

\* Frames behind those on a socket.
LEMMA FramesBehind ==
  ASSUME NEW q \in Seq(ToHubMsgs), NEW ms \in Seq(ToHubMsgs)
  PROVE  /\ WireShape(q) /\ WireShape(ms) => WireShape(q \o ms)
         /\ Welcomed(q) => Welcomed(q \o ms)
         /\ AskOn(q) \/ AskOn(ms) => AskOn(q \o ms)
<1>0. /\ \A i \in DOMAIN q : i \in DOMAIN (q \o ms) /\ (q \o ms)[i] = q[i]
      /\ \A i \in DOMAIN ms : \E j \in DOMAIN (q \o ms) : (q \o ms)[j] = ms[i]
  BY Joined
<1>1. \A j \in DOMAIN (q \o ms) :
        \/ j \in DOMAIN q /\ (q \o ms)[j] = q[j]
        \/ \E i \in DOMAIN ms : (q \o ms)[j] = ms[i]
  BY Joined
<1>2. WireShape(q) /\ WireShape(ms) => WireShape(q \o ms)
  BY <1>1 DEF WireShape
<1>3. ASSUME Welcomed(q) PROVE Welcomed(q \o ms)
  BY <1>0, <1>3 DEF Welcomed
<1>4. AskOn(q) \/ AskOn(ms) => AskOn(q \o ms)
  BY <1>0 DEF AskOn
<1>5. QED BY <1>2, <1>3, <1>4

LEMMA AnswersBehind ==
  ASSUME NEW q \in Seq(ToWorkerMsgs), NEW ms \in Seq(ToWorkerMsgs)
  PROVE  AnswerOn(q) \/ AnswerOn(ms) => AnswerOn(q \o ms)
<1>1. /\ \A i \in DOMAIN q : i \in DOMAIN (q \o ms) /\ (q \o ms)[i] = q[i]
      /\ \A i \in DOMAIN ms : \E j \in DOMAIN (q \o ms) : (q \o ms)[j] = ms[i]
  BY Joined
<1>2. QED BY <1>1 DEF AnswerOn

\* What a reader leaves behind.
LEMMA HeadRead ==
  /\ \A q \in Seq(ToHubMsgs) :
       q # << >> => /\ WireShape(q) => WireShape(Tail(q))
                    /\ AskOn(q) => AskOn(Tail(q)) \/ (Head(q).t = "relay" /\ Head(q).req.id = 0)
                    /\ Welcomed(q) => Head(q).t = "welcome"
  /\ \A q \in Seq(ToWorkerMsgs) :
       q # << >> => (AnswerOn(q) => AnswerOn(Tail(q)) \/ (Head(q).t = "reply" /\ Head(q).id = 0))
<1>1. ASSUME NEW q \in Seq(ToHubMsgs), q # << >>
      PROVE  /\ WireShape(q) => WireShape(Tail(q))
             /\ AskOn(q) => AskOn(Tail(q)) \/ (Head(q).t = "relay" /\ Head(q).req.id = 0)
             /\ Welcomed(q) => Head(q).t = "welcome"
  <2>1. /\ \A i \in DOMAIN q : i # 1 => \E j \in DOMAIN Tail(q) : Tail(q)[j] = q[i]
        /\ \A i \in DOMAIN Tail(q) : i + 1 \in DOMAIN q /\ Tail(q)[i] = q[i + 1]
        /\ Head(q) = q[1]
    BY <1>1, Behind
  <2>2. WireShape(q) => WireShape(Tail(q))
    BY <2>1 DEF WireShape
  <2>3. ASSUME AskOn(q), ~AskOn(Tail(q))
        PROVE  Head(q).t = "relay" /\ Head(q).req.id = 0
    BY <2>1, <2>3 DEF AskOn
  <2>4. QED BY <2>1, <2>2, <2>3 DEF Welcomed
<1>2. ASSUME NEW q \in Seq(ToWorkerMsgs), q # << >>
      PROVE  AnswerOn(q) => AnswerOn(Tail(q)) \/ (Head(q).t = "reply" /\ Head(q).id = 0)
  BY <1>2, Behind DEF AnswerOn
<1>3. QED BY <1>1, <1>2

\* A step of hub h alone.
LEMMA HubHolding ==
  ASSUME Holding, NEW h \in Hubs, UNCHANGED <<pend, current>>,
         \A k \in Hubs \ {h} : chan'[k] = chan[k] /\ hub'[k] = hub[k],
         WireShape(chan'[h].toHub), Waits(hub'[h]), HandOK(h, chan'[h], hub'[h], pend, current)
  PROVE  Holding'
<1>1. ASSUME NEW k \in Hubs
      PROVE  WireShape(chan'[k].toHub) /\ Waits(hub'[k]) /\ HandOK(k, chan'[k], hub'[k], pend', current')
  BY DEF Holding, HubsHold
<1>2. HubsHold'
  BY <1>1 DEF HubsHold
<1>3. QED BY <1>2 DEF Holding

-----------------------------------------------------------------------------
(* What each step does to what is held.                                    *)

LEMMA HoldingInit == Init => Holding
<1> SUFFICES ASSUME Init PROVE Holding
  OBVIOUS
<1>1. pend = << >> /\ current = None
  BY DEF Init
<1>2. LaneShape(pend) /\ ~Unbounded(pend)
  BY <1>1 DEF LaneShape, Unbounded
<1>3. ASSUME NEW h \in Hubs
      PROVE  /\ WireShape(chan[h].toHub) /\ Waits(hub[h])
             /\ HandOK(h, chan[h], hub[h], pend, current)
  BY <1>1, HubNumbers DEF Init, NewHub, NoHub, Closed, WireShape, Waits, HandOK
<1>4. QED BY <1>2, <1>3 DEF Holding, HubsHold

\* A relay is issued: sent, if the current channel takes it, or held with a timer.
LEMMA IssueHolding ==
  ASSUME TypeOK, Sockets, Holding, NEW r \in Requests, Relay(r), Proper(r),
         r.id = 0 => \A i \in DOMAIN pend : pend[i].req.id # 0, UNCHANGED <<hub, current>>
  PROVE  Holding'
<1>1. pend \in Seq(Relays) /\ chan \in [Hubs -> Channels] /\ current \in Hubs \cup {None} /\ LaneShape(pend)
  BY DEF TypeOK, WorkerOK, Relays, Holding
<1>2. CASE Len(pend) >= QueueMax
  BY <1>2 DEF Relay, Holding, HubsHold
<1>3. CASE ~(Len(pend) >= QueueMax)
  <2> DEFINE e == [req |-> r, timer |-> IF Ready THEN DeliveredTimer(r) ELSE "reach"]
  <2>1. /\ e \in Relays /\ e.req = r /\ pend' = Append(pend, e)
        /\ e.timer = "none" => Ready /\ r.id = 0
    BY <1>3 DEF Relay, Relays, Timers, DeliveredTimer, Proper
  <2> HIDE DEF e
  <2>2. LaneShape(pend') /\ (Unbounded(pend') => Unbounded(pend) \/ e.timer = "none")
    BY <1>1, <2>1, ShapeGrows
  <2>3. CASE ~Ready
    BY <1>3, <2>1, <2>2, <2>3 DEF Relay, Holding, HubsHold, HandOK
  <2>4. CASE Ready
    <3> DEFINE ms == <<Relayed(r)>>
    <3>1. /\ ms \in Seq(ToHubMsgs) /\ ms[1].t = "relay" /\ ms[1].req = r /\ DOMAIN ms = {1}
      BY MessagesTyped, OneElement DEF Relayed
    <3>2. chan' = ToHub(chan, current, ms) /\ current \in Hubs
      BY <1>1, <1>3, <2>4 DEF Relay, Ready
    <3> HIDE DEF ms
    <3>3. WireShape(ms) /\ (r.id = 0 => AskOn(ms))
      BY <3>1 DEF WireShape, AskOn
    <3>4. /\ chan'[current].link = chan[current].link
          /\ chan'[current].toWorker = chan[current].toWorker
          /\ chan'[current].toHub = IF chan[current].link = "open" THEN chan[current].toHub \o ms
                                    ELSE chan[current].toHub
          /\ \A k \in Hubs \ {current} : chan'[k] = chan[k]
      BY <1>1, <3>1, <3>2, ToHubSends DEF ToHub
    <3>5. chan[current].toHub \in Seq(ToHubMsgs)
      BY <1>1, <3>2 DEF Channels
    <3>6. ASSUME NEW h \in Hubs
          PROVE  /\ WireShape(chan'[h].toHub) /\ Waits(hub'[h])
                 /\ HandOK(h, chan'[h], hub'[h], pend', current')
      <4>1. WireShape(chan[h].toHub) /\ Waits(hub[h]) /\ HandOK(h, chan[h], hub[h], pend, current)
        BY DEF Holding, HubsHold
      <4>2. CASE h # current
        BY <3>4, <4>1, <4>2 DEF HandOK
      <4>3. CASE h = current /\ chan[h].link # "open"
        BY <3>4, <4>1, <4>3 DEF HandOK
      <4>4. CASE h = current /\ chan[h].link = "open"
        BY <2>1, <2>2, <3>1, <3>3, <3>4, <3>5, <4>1, <4>4, FramesBehind DEF HandOK, Held
      <4>5. QED BY <4>2, <4>3, <4>4
    <3>7. current' # None
      BY <2>4 DEF Ready
    <3>8. QED BY <2>2, <3>6, <3>7 DEF Holding, HubsHold
  <2>5. QED BY <2>3, <2>4
<1>4. QED BY <1>2, <1>3

LEMMA AgentHolding ==
  ASSUME TypeOK, Sockets, Holding, Call \/ Ask \/ RelayTimeout
  PROVE  Holding'
<1>0. seq \in Nat /\ gen \in Nat /\ issued \in Nat /\ pend \in Seq(Relays)
  BY DEF TypeOK, WorkerOK, GhostsOK, Relays
<1>1. CASE Call
  <2>1. PICK k \in Kinds \ {"approval"} : Relay([kind |-> k, id |-> seq', of |-> gen])
    BY <1>1 DEF Call
  <2> DEFINE r == [kind |-> k, id |-> seq', of |-> gen]
  <2>2. r \in Requests /\ r.id # 0 /\ r.kind # "approval"
    BY <1>0, <1>1, KindsAssumption DEF Call, Requests
  <2> HIDE DEF r
  <2>3. Proper(r) /\ Relay(r) /\ UNCHANGED <<hub, current>>
    BY <1>1, <2>1, <2>2 DEF Proper, Call, r
  <2>4. QED BY <2>2, <2>3, IssueHolding
<1>2. CASE Ask
  <2> DEFINE r == [kind |-> "approval", id |-> 0, of |-> issued']
  <2>1. r \in Requests /\ r.id = 0 /\ r.kind = "approval" /\ r.of # 0
    BY <1>0, <1>2 DEF Ask, Requests, AllKinds
  <2>2. Relay(r) /\ UNCHANGED <<hub, current>> /\ \A i \in DOMAIN pend : pend[i].req.id # 0
    BY <1>2 DEF Ask
  <2> HIDE DEF r
  <2>3. Proper(r)
    BY <2>1 DEF Proper
  <2>4. QED BY <2>1, <2>2, <2>3, IssueHolding
<1>3. CASE RelayTimeout
  BY <1>0, <1>3, ShapeWithout DEF RelayTimeout, Holding, HubsHold, HandOK
<1>4. QED BY <1>1, <1>2, <1>3

\* attach(): the welcome, and the lane behind it.
LEMMA AttachHolding ==
  ASSUME TypeOK, Sockets, Holding, NEW h \in Hubs, RecvHello(h)
  PROVE  Holding'
<1>1. /\ SocketOK(h, chan[h], hub[h], current, gen) /\ chan \in [Hubs -> Channels]
      /\ gen \in Nat /\ pend \in Seq(Relays) /\ current \in Hubs \cup {None} /\ LaneShape(pend)
  BY SocketFacts DEF Holding
<1>2. FromHub(h, "hello") /\ UNCHANGED hub
  BY DEF RecvHello
<1>3. /\ chan[h].toWorker[1].t = "hello" /\ 1 \in DOMAIN chan[h].toWorker
      /\ ReadFrom(h) \in [Hubs -> Channels]
      /\ ReadFrom(h)[h].link = chan[h].link /\ ReadFrom(h)[h].toHub = chan[h].toHub
  BY <1>1, <1>2, ReadFromChannel DEF FromHub
<1>4. chan[h].toHub = << >> /\ current # h /\ h # None
  BY <1>1, <1>3, HubNumbers DEF SocketOK, HelloOK
<1>5. \A k \in Hubs \ {h} : ReadFrom(h)[k] = chan[k]
  BY DEF ReadFrom
<1>6. \A k \in Hubs : WireShape(chan[k].toHub) /\ Waits(hub[k])
  BY DEF Holding, HubsHold
<1>7. CASE Head(chan[h].toWorker).epoch < currentEpoch
  <2>1. chan' = Destroyed(ReadFrom(h), h) /\ UNCHANGED <<pend, current>>
    BY <1>7 DEF RecvHello
  <2>2. \A k \in Hubs \ {h} : chan'[k] = chan[k]
    BY <1>3, <1>5, <2>1, DestroyedChannel
  <2>3. WireShape(chan'[h].toHub)
    BY <1>3, <1>4, <2>1, ClosedTyped DEF Destroyed, WireShape
  <2>4. HandOK(h, chan'[h], hub'[h], pend, current)
    BY <1>4 DEF HandOK
  <2>5. Waits(hub'[h]) /\ \A k \in Hubs \ {h} : chan'[k] = chan[k] /\ hub'[k] = hub[k]
    BY <1>2, <1>6, <2>2
  <2>6. QED BY <2>1, <2>3, <2>4, <2>5, HubHolding
<1>8. CASE ~(Head(chan[h].toWorker).epoch < currentEpoch)
  <2> DEFINE prev == IF current \in {None, h} THEN ReadFrom(h) ELSE Destroyed(ReadFrom(h), current)
             ms   == <<Welcome(gen)>> \o Frames(pend)
  <2>1. chan' = ToHub(prev, h, ms) /\ pend' = Flushed(pend) /\ current' = h
    BY <1>8 DEF RecvHello
  <2>2. /\ prev \in [Hubs -> Channels] /\ prev[h] = ReadFrom(h)[h]
        /\ \A k \in Hubs \ {h} : prev[k].toHub \in {chan[k].toHub, << >>}
    <3>1. CASE current \in {None, h}
      BY <1>3, <1>5, <3>1
    <3>2. CASE current \notin {None, h}
      <4>1. /\ prev = Destroyed(ReadFrom(h), current) /\ current \in Hubs \ {h}
            /\ ReadFrom(h)[current] = chan[current]
        BY <1>1, <1>5, <3>2
      <4>2. prev \in [Hubs -> Channels] /\ \A k \in Hubs \ {current} : prev[k] = ReadFrom(h)[k]
        BY <1>3, <4>1, DestroyedChannel
      <4>3. prev[current].toHub \in {chan[current].toHub, << >>}
        <5>1. ReadFrom(h)[current].link \in {"none", "open", "hubGone", "workerGone"}
          BY <1>3, <4>1 DEF Channels, Links
        <5>2. QED BY <1>3, <4>1, <5>1, DestroyedChannel, ClosedTyped
      <4> HIDE DEF prev
      <4>4. QED BY <1>5, <4>1, <4>2, <4>3
    <3>3. QED BY <3>1, <3>2
  <2>3. Frames(pend) \in Seq(ToHubMsgs)
    BY <1>1, LaneTyped
  <2>4. <<Welcome(gen)>> \in Seq(ToHubMsgs) /\ ms \in Seq(ToHubMsgs)
    BY <1>1, <2>3, MessagesTyped, OneElement, ConcatProperties
  <2>5. /\ LaneShape(Flushed(pend)) /\ (Unbounded(Flushed(pend)) => AskOn(Frames(pend)))
        /\ WireShape(Frames(pend))
    BY <1>1, ShapeKept
  <2>6. WireShape(<<Welcome(gen)>>) /\ Welcomed(<<Welcome(gen)>>)
    BY DEF WireShape, Welcomed, Welcome
  <2>7. /\ WireShape(ms) /\ Welcomed(ms) /\ (AskOn(Frames(pend)) => AskOn(ms))
    BY <2>3, <2>4, <2>5, <2>6, FramesBehind
  <2> HIDE DEF prev, ms
  <2>8. /\ \A k \in Hubs \ {h} : chan'[k] = prev[k]
        /\ chan'[h].link = chan[h].link
        /\ chan'[h].toHub = IF chan[h].link = "open" THEN ms ELSE << >>
    <3>1. \A k \in Hubs \ {h} : chan'[k] = prev[k]
      BY <2>1, <2>2 DEF ToHub
    <3>2. /\ chan'[h].link = prev[h].link
          /\ chan'[h].toHub = IF prev[h].link = "open" THEN prev[h].toHub \o ms ELSE prev[h].toHub
      BY <2>1, <2>2, <2>4, ToHubSends
    <3>3. << >> \o ms = ms
      BY <2>4, ConcatEmptySeq
    <3>4. QED BY <1>3, <1>4, <2>2, <3>1, <3>2, <3>3
  <2>9. ASSUME NEW k \in Hubs
        PROVE  /\ WireShape(chan'[k].toHub) /\ Waits(hub'[k])
               /\ HandOK(k, chan'[k], hub'[k], pend', current')
    <3>1. CASE k # h
      BY <1>2, <1>6, <2>1, <2>2, <2>8, <3>1 DEF WireShape, HandOK
    <3>2. CASE k = h
      BY <1>2, <1>6, <2>1, <2>5, <2>7, <2>8, <3>2 DEF WireShape, HandOK, Held
    <3>3. QED BY <3>1, <3>2
  <2>10. QED BY <1>4, <2>1, <2>5, <2>9 DEF Holding, HubsHold
<1>9. QED BY <1>7, <1>8

\* A frame of a hub is read: what it held for that stays, unless it was an answer.
LEMMA ReadHolding ==
  ASSUME TypeOK, Sockets, Holding, NEW h \in Hubs, NEW t, FromHub(h, t), NEW k \in Hubs,
         t = "reply" /\ Head(chan[h].toWorker).id = 0 => ~Unbounded(pend')
  PROVE  /\ WireShape(ReadFrom(h)[k].toHub)
         /\ (Unbounded(pend') => Unbounded(pend)) =>
              HandOK(k, ReadFrom(h)[k], hub[k], pend', current)
<1>1. /\ chan \in [Hubs -> Channels] /\ chan[h].toWorker \in Seq(ToWorkerMsgs)
      /\ chan[h].toWorker # << >>
      /\ WireShape(chan[k].toHub) /\ HandOK(k, chan[k], hub[k], pend, current)
  BY SocketFacts DEF Holding, HubsHold, FromHub
<1>2. /\ ReadFrom(h)[k].link = chan[k].link /\ ReadFrom(h)[k].toHub = chan[k].toHub
      /\ k # h => ReadFrom(h)[k].toWorker = chan[k].toWorker
      /\ ReadFrom(h)[h].toWorker = Tail(chan[h].toWorker)
      /\ Head(chan[h].toWorker).t = t
  BY <1>1, ReadFromChannel
<1>3. AnswerOn(chan[k].toWorker) => AnswerOn(ReadFrom(h)[k].toWorker) \/ ~Unbounded(pend')
  BY <1>1, <1>2, HeadRead
<1>4. QED BY <1>1, <1>2, <1>3 DEF HandOK, Held

\* The other frames of a hub, and the end of its socket.
LEMMA WorkerReadHolding ==
  ASSUME TypeOK, Sockets, Holding, NEW h \in Hubs,
         RecvDraining(h) \/ RecvReply(h) \/ WorkerNotices(h)
  PROVE  Holding'
<1>1. /\ SocketOK(h, chan[h], hub[h], current, gen) /\ chan \in [Hubs -> Channels]
      /\ chan[h].toHub \in Seq(ToHubMsgs)
      /\ pend \in Seq(Relays) /\ current \in Hubs \cup {None} /\ LaneShape(pend)
      /\ Unbounded(pend) => current # None
  BY SocketFacts DEF Holding
<1>2. UNCHANGED hub /\ \A k \in Hubs : WireShape(chan[k].toHub) /\ Waits(hub[k])
  BY DEF RecvDraining, RecvReply, WorkerNotices, Holding, HubsHold
<1>3. LaneShape(Detached(pend)) /\ ~Unbounded(Detached(pend))
  BY <1>1, ShapeKept
<1>4. CASE RecvDraining(h)
  <2> DEFINE on == Head(chan[h].toWorker).on
  <2>1. FromHub(h, "draining") /\ UNCHANGED current
    BY <1>4 DEF RecvDraining
  <2>2. CASE current \in {None, h} /\ ~(on \/ current = None)
    <3>1. /\ chan' = ToHub(ReadFrom(h), h, Frames(pend)) /\ pend' = Flushed(pend) /\ current = h
      BY <1>4, <2>2 DEF RecvDraining
    <3>2. /\ LaneShape(pend') /\ (Unbounded(pend') => AskOn(Frames(pend))) /\ WireShape(Frames(pend))
          /\ Frames(pend) \in Seq(ToHubMsgs)
      BY <1>1, <3>1, ShapeKept, LaneTyped
    <3>3. /\ ReadFrom(h) \in [Hubs -> Channels]
          /\ ReadFrom(h)[h].link = chan[h].link /\ ReadFrom(h)[h].toHub = chan[h].toHub
          /\ \A k \in Hubs \ {h} : ReadFrom(h)[k] = chan[k]
      BY <1>1, <2>1, ReadFromChannel DEF ReadFrom
    <3>4. /\ \A k \in Hubs \ {h} : chan'[k] = chan[k]
          /\ chan'[h].link = chan[h].link
          /\ chan'[h].toHub = IF chan[h].link = "open" THEN chan[h].toHub \o Frames(pend)
                              ELSE chan[h].toHub
      BY <3>1, <3>2, <3>3, ToHubSends DEF ToHub
    <3>5. ASSUME NEW k \in Hubs
          PROVE  /\ WireShape(chan'[k].toHub) /\ Waits(hub'[k])
                 /\ HandOK(k, chan'[k], hub'[k], pend', current')
      <4>1. CASE k # h
        BY <1>2, <2>1, <3>1, <3>4, <4>1 DEF HandOK
      <4>2. CASE k = h /\ chan[h].link # "open"
        BY <1>2, <3>4, <4>2 DEF HandOK
      <4>3. CASE k = h /\ chan[h].link = "open"
        BY <1>1, <1>2, <3>1, <3>2, <3>4, <4>3, FramesBehind DEF Holding, HubsHold, HandOK, Held
      <4>4. QED BY <4>1, <4>2, <4>3
    <3>6. current' # None
      BY <2>1, <2>2
    <3>7. QED BY <3>2, <3>5, <3>6 DEF Holding, HubsHold
  <2>3. CASE ~(current \in {None, h} /\ ~(on \/ current = None))
    <3>1. chan' = ReadFrom(h) /\ pend' \in {pend, Detached(pend)}
      BY <1>4, <2>3 DEF RecvDraining
    <3>2. LaneShape(pend') /\ (Unbounded(pend') => Unbounded(pend))
      BY <1>1, <1>3, <3>1
    <3>3. \A k \in Hubs : /\ WireShape(ReadFrom(h)[k].toHub)
                          /\ HandOK(k, ReadFrom(h)[k], hub[k], pend', current)
      BY <2>1, <3>2, ReadHolding
    <3>4. QED BY <1>1, <1>2, <2>1, <3>1, <3>2, <3>3 DEF Holding, HubsHold
  <2>4. QED BY <2>2, <2>3
<1>5. CASE RecvReply(h)
  <2> DEFINE m    == Head(chan[h].toWorker)
             hits == {i \in DOMAIN pend : pend[i].req.id = m.id}
  <2>1. FromHub(h, "reply") /\ chan' = ReadFrom(h) /\ UNCHANGED current
    BY <1>5 DEF RecvReply
  <2>2. /\ LaneShape(pend') /\ (Unbounded(pend') => Unbounded(pend))
        /\ m.id = 0 => ~Unbounded(pend')
    <3>1. CASE hits = {}
      BY <1>1, <1>5, <3>1 DEF RecvReply, Unbounded, LaneShape
    <3>2. CASE hits # {}
      BY <1>1, <1>5, <3>2, ShapeWithout DEF RecvReply
    <3>3. QED BY <3>1, <3>2
  <2>3. \A k \in Hubs : /\ WireShape(ReadFrom(h)[k].toHub)
                        /\ HandOK(k, ReadFrom(h)[k], hub[k], pend', current)
    BY <2>1, <2>2, ReadHolding
  <2>4. QED BY <1>1, <1>2, <2>1, <2>2, <2>3 DEF Holding, HubsHold
<1>6. CASE WorkerNotices(h)
  <2>1. /\ \A k \in Hubs \ {h} : chan'[k] = chan[k]
        /\ chan'[h] = Closed /\ Closed.link = "none" /\ Closed.toHub = << >>
        /\ \/ current = h /\ current' = None /\ pend' = Detached(pend)
           \/ current # h /\ UNCHANGED <<current, pend>>
    BY <1>1, <1>6, ClosedTyped DEF WorkerNotices
  <2>2. LaneShape(pend') /\ (Unbounded(pend') => current' # None)
    BY <1>1, <1>3, <2>1
  <2>3. ASSUME NEW k \in Hubs
        PROVE  /\ WireShape(chan'[k].toHub) /\ Waits(hub'[k])
               /\ HandOK(k, chan'[k], hub'[k], pend', current')
    <3>1. HandOK(k, chan[k], hub[k], pend, current)
      BY DEF Holding, HubsHold
    <3>2. CASE k = h
      BY <1>2, <2>1, <3>2 DEF WireShape, HandOK
    <3>3. CASE k # h /\ current = h
      BY <1>2, <2>1, <3>3, HubNumbers DEF HandOK
    <3>4. CASE k # h /\ current # h
      BY <1>2, <2>1, <3>1, <3>4
    <3>5. QED BY <3>2, <3>3, <3>4
  <2>4. QED BY <2>2, <2>3 DEF Holding, HubsHold
<1>7. QED BY <1>4, <1>5, <1>6

\* The lane dies with its process.
LEMMA WorkerDeathHolding ==
  ASSUME TypeOK, Sockets, Holding, WorkerDeath
  PROVE  Holding'
<1>1. pend' = << >> /\ current' = None /\ UNCHANGED hub
  BY DEF WorkerDeath
<1>2. LaneShape(pend') /\ ~Unbounded(pend')
  BY <1>1 DEF LaneShape, Unbounded
<1>3. ASSUME NEW h \in Hubs
      PROVE  /\ WireShape(chan'[h].toHub) /\ Waits(hub'[h])
             /\ HandOK(h, chan'[h], hub'[h], pend', current')
  <2>1. WireShape(chan[h].toHub) /\ Waits(hub[h]) /\ chan \in [Hubs -> Channels] /\ h # None
    BY SocketFacts, HubNumbers DEF Holding, HubsHold
  <2>2. chan'[h].toHub \in {chan[h].toHub, << >>}
    <3>1. chan'[h] = Destroyed(chan, h)[h]
      BY DEF WorkerDeath
    <3>2. chan[h].link \in {"none", "open", "hubGone", "workerGone"}
      BY <2>1 DEF Channels, Links
    <3>3. QED BY <2>1, <3>1, <3>2, DestroyedChannel, ClosedTyped
  <2>3. WireShape(chan'[h].toHub)
    BY <2>1, <2>2 DEF WireShape
  <2>4. QED BY <1>1, <2>1, <2>3 DEF HandOK
<1>4. QED BY <1>2, <1>3 DEF Holding, HubsHold

\* What a hub finds at the head, and what is behind it.
LEMMA RelayRead ==
  ASSUME TypeOK, Sockets, Holding, NEW h \in Hubs, FromWorker(h, "relay")
  PROVE  /\ Proper(Request(h)) /\ WireShape(Tail(chan[h].toHub)) /\ Waits(hub[h])
         /\ ~Welcomed(chan[h].toHub)
         /\ current = h /\ chan[h].link = "open" => hub[h].att
         /\ Request(h).id # 0 /\ AskOn(chan[h].toHub) => AskOn(Tail(chan[h].toHub))
         /\ HandOK(h, chan[h], hub[h], pend, current)
BY SocketFacts, ReadByHub, HeadRead DEF FromWorker, Holding, HubsHold, WireShape, Request, HandOK

\* A hub reads a relay and answers it, at once or not.
LEMMA AnsweringHolding ==
  ASSUME TypeOK, Sockets, Holding, NEW h \in Hubs, FromWorker(h, "relay"),
         NEW ms \in Seq(ToWorkerMsgs), chan' = ToWorker(ReadBy(h), h, ms),
         UNCHANGED <<pend, current>>, \A k \in Hubs \ {h} : hub'[k] = hub[k],
         hub'[h].att = hub[h].att, Waits(hub'[h]),
         hub[h].asked # 0 => hub'[h].asked # 0,
         Request(h).id = 0 => hub'[h].asked # 0 \/ AnswerOn(ms)
  PROVE  Holding'
<1>1. /\ chan \in [Hubs -> Channels] /\ chan[h].toWorker \in Seq(ToWorkerMsgs)
  BY SocketFacts
<1>2. /\ ReadBy(h) \in [Hubs -> Channels]
      /\ ReadBy(h)[h].link = chan[h].link /\ ReadBy(h)[h].toWorker = chan[h].toWorker
      /\ ReadBy(h)[h].toHub = Tail(chan[h].toHub)
      /\ \A k \in Hubs \ {h} : ReadBy(h)[k] = chan[k]
  BY <1>1, ReadByHub DEF ReadBy
<1>3. /\ \A k \in Hubs \ {h} : chan'[k] = chan[k]
      /\ chan'[h].link = chan[h].link /\ chan'[h].toHub = Tail(chan[h].toHub)
      /\ chan'[h].toWorker = IF hub[h].att /\ chan[h].link = "open" THEN chan[h].toWorker \o ms
                             ELSE chan[h].toWorker
  BY <1>2, ToWorkerSends DEF ToWorker
<1>4. /\ WireShape(Tail(chan[h].toHub)) /\ HandOK(h, chan[h], hub[h], pend, current)
      /\ current = h /\ chan[h].link = "open" => hub[h].att
      /\ Request(h).id # 0 /\ AskOn(chan[h].toHub) => AskOn(Tail(chan[h].toHub))
  BY RelayRead
<1>5. HandOK(h, chan'[h], hub'[h], pend, current)
  BY <1>1, <1>3, <1>4, AnswersBehind DEF HandOK, Held
<1>6. QED BY <1>3, <1>4, <1>5, HubHolding

\* A hub sends what it is not asked for, or answers later.
LEMMA SendingHolding ==
  ASSUME TypeOK, Sockets, Holding, NEW h \in Hubs,
         NEW ms \in Seq(ToWorkerMsgs), chan' = ToWorker(chan, h, ms),
         UNCHANGED <<pend, current>>, \A k \in Hubs \ {h} : hub'[k] = hub[k],
         hub'[h].att = hub[h].att, Waits(hub'[h]),
         hub[h].asked # 0 => hub'[h].asked # 0 \/ AnswerOn(ms)
  PROVE  Holding'
<1>1. /\ chan \in [Hubs -> Channels] /\ chan[h].toWorker \in Seq(ToWorkerMsgs)
      /\ WireShape(chan[h].toHub) /\ HandOK(h, chan[h], hub[h], pend, current)
  BY SocketFacts DEF Holding, HubsHold
<1>2. /\ \A k \in Hubs \ {h} : chan'[k] = chan[k]
      /\ chan'[h].link = chan[h].link /\ chan'[h].toHub = chan[h].toHub
      /\ chan'[h].toWorker = IF hub[h].att /\ chan[h].link = "open" THEN chan[h].toWorker \o ms
                             ELSE chan[h].toWorker
  BY <1>1, ToWorkerSends DEF ToWorker
<1>3. HandOK(h, chan'[h], hub'[h], pend, current)
  <2>1. CASE ~hub[h].att
    BY <1>1, <1>2, <2>1 DEF HandOK, Held
  <2>2. CASE hub[h].att /\ chan[h].link = "open"
    BY <1>1, <1>2, <2>2, AnswersBehind DEF HandOK, Held
  <2>3. CASE chan[h].link # "open"
    BY <1>2, <2>3 DEF HandOK
  <2>4. QED BY <2>1, <2>2, <2>3
<1>4. QED BY <1>1, <1>2, <1>3, HubHolding

LEMMA RpcHolding ==
  ASSUME TypeOK, Sockets, Holding, NEW h \in Hubs, ServeWrite(h) \/ StartAction(h) \/ FinishAction(h)
  PROVE  Holding'
<1>1. /\ hub \in [Hubs -> HubStates] /\ hub[h] \in HubStates /\ h \in Nat
      /\ chan \in [Hubs -> Channels] /\ UNCHANGED <<pend, current>>
      /\ Waits(hub[h])
  BY HubNumbers DEF TypeOK, ServeWrite, StartAction, FinishAction, worker, Holding, HubsHold
<1>2. CASE ServeWrite(h)
  <2> DEFINE r    == Request(h)
             hits == {s \in hub[h].served : s.id = r.id}
  <2>1. FromWorker(h, "relay") /\ r \in Requests /\ r.id \in Nat /\ r.of \in Nat /\ r.kind = "write"
    BY <1>2, RequestTyped DEF ServeWrite
  <2>2. r.id # 0
    BY <2>1, RelayRead DEF Proper
  <2>3. PICK of \in Nat : chan' = ToWorker(ReadBy(h), h, <<Reply(r, of, h, "hub")>>)
    <3>1. CASE hits # {}
      BY <1>1, <1>2, <3>1 DEF ServeWrite, HubStates
    <3>2. CASE hits = {}
      BY <1>2, <2>1, <3>2 DEF ServeWrite
    <3>3. QED BY <3>1, <3>2
  <2>4. /\ \A k \in Hubs \ {h} : hub'[k] = hub[k]
        /\ hub'[h].att = hub[h].att /\ hub'[h].asked = hub[h].asked /\ hub'[h].waiting = hub[h].waiting
    BY <1>1, <1>2 DEF ServeWrite, HubStates
  <2> HIDE DEF r
  <2>5. <<Reply(r, of, h, "hub")>> \in Seq(ToWorkerMsgs)
    BY <1>1, <2>1, ReplyTyped, OneElement
  <2>6. Waits(hub'[h]) /\ (hub[h].asked # 0 => hub'[h].asked # 0)
    BY <1>1, <2>4 DEF Waits
  <2>7. QED BY <1>1, <2>1, <2>2, <2>3, <2>4, <2>5, <2>6, AnsweringHolding DEF r
<1>3. CASE StartAction(h)
  <2>1. FromWorker(h, "relay") /\ Request(h).kind = "action" /\ chan' = ReadBy(h)
    BY <1>3 DEF StartAction
  <2>2. /\ WireShape(Tail(chan[h].toHub)) /\ Request(h).id # 0 /\ ~Welcomed(chan[h].toHub)
        /\ Request(h).id # 0 /\ AskOn(chan[h].toHub) => AskOn(Tail(chan[h].toHub))
        /\ HandOK(h, chan[h], hub[h], pend, current)
    BY <2>1, RelayRead DEF Proper
  <2>3. /\ \A k \in Hubs \ {h} : chan'[k] = chan[k] /\ hub'[k] = hub[k]
        /\ chan'[h].link = chan[h].link /\ chan'[h].toHub = Tail(chan[h].toHub)
        /\ chan'[h].toWorker = chan[h].toWorker
        /\ hub'[h].att = hub[h].att /\ hub'[h].asked = hub[h].asked /\ hub'[h].waiting = hub[h].waiting
    BY <1>1, <1>3, <2>1, ReadByHub DEF StartAction, HubStates, ReadBy
  <2>4. HandOK(h, chan'[h], hub'[h], pend, current)
    BY <2>2, <2>3 DEF HandOK, Held
  <2>5. Waits(hub'[h])
    BY <1>1, <2>3 DEF Waits
  <2>6. QED BY <1>1, <2>2, <2>3, <2>4, <2>5, HubHolding
<1>4. CASE FinishAction(h)
  <2>1. PICK i \in DOMAIN hub[h].running :
          /\ hub' = [hub EXCEPT ![h].running = Without(@, i)]
          /\ chan' = ToWorker(chan, h, <<Reply(hub[h].running[i], hub[h].running[i].of, h, "hub")>>)
    BY <1>4 DEF FinishAction
  <2>2. hub[h].running[i].id \in Nat /\ hub[h].running[i].of \in Nat
    <3>1. hub[h].running \in Seq(Requests)
      BY <1>1 DEF HubStates
    <3>2. hub[h].running[i] \in Requests
      BY <3>1
    <3>3. QED BY <3>2 DEF Requests
  <2>3. <<Reply(hub[h].running[i], hub[h].running[i].of, h, "hub")>> \in Seq(ToWorkerMsgs)
    BY <1>1, <2>2, ReplyTyped, OneElement
  <2>4. /\ \A k \in Hubs \ {h} : hub'[k] = hub[k]
        /\ hub'[h].att = hub[h].att /\ hub'[h].asked = hub[h].asked /\ hub'[h].waiting = hub[h].waiting
    BY <1>1, <2>1 DEF HubStates
  <2>5. Waits(hub'[h]) /\ (hub[h].asked # 0 => hub'[h].asked # 0)
    BY <1>1, <2>4 DEF Waits
  <2>6. QED BY <1>1, <2>1, <2>3, <2>4, <2>5, SendingHolding
<1>5. QED BY <1>2, <1>3, <1>4

\* A request that arrives is asked, or joins one that is.
LEMMA AskedHolding ==
  ASSUME TypeOK, Sockets, Holding, NEW h \in Hubs, JoinAsk(h) \/ AskOperator(h)
  PROVE  Holding'
<1>1. /\ hub \in [Hubs -> HubStates] /\ hub[h] \in HubStates
      /\ chan \in [Hubs -> Channels] /\ UNCHANGED <<pend, current>>
  BY DEF TypeOK, JoinAsk, AskOperator, worker
<1>2. FromWorker(h, "relay") /\ Request(h).kind = "approval" /\ chan' = ReadBy(h)
  BY DEF JoinAsk, AskOperator, AskArrives
<1>3. /\ WireShape(Tail(chan[h].toHub)) /\ Request(h).of # 0 /\ Waits(hub[h])
      /\ current = h /\ chan[h].link = "open" => hub[h].att
  BY <1>2, RelayRead DEF Proper
<1>4. /\ chan'[h].link = chan[h].link /\ chan'[h].toHub = Tail(chan[h].toHub)
      /\ \A k \in Hubs \ {h} : chan'[k] = chan[k]
  BY <1>1, <1>2, ReadByHub DEF ReadBy
<1>5. /\ \A k \in Hubs \ {h} : hub'[k] = hub[k]
      /\ hub'[h].att = hub[h].att /\ hub'[h].asked = Request(h).of /\ hub'[h].waiting >= 1
  <2>1. CASE JoinAsk(h)
    BY <1>1, <1>3, <2>1 DEF JoinAsk, Waits, HubStates
  <2>2. CASE AskOperator(h)
    BY <1>1, <2>2 DEF AskOperator, HubStates
  <2>3. QED BY <2>1, <2>2
<1>6. Waits(hub'[h]) /\ HandOK(h, chan'[h], hub'[h], pend, current)
  BY <1>3, <1>4, <1>5 DEF Waits, HandOK, Held
<1>7. QED BY <1>1, <1>3, <1>4, <1>5, <1>6, HubHolding

\* A decision on record, or a policy, answers a request at once.
LEMMA AtOnceHolding ==
  ASSUME TypeOK, Sockets, Holding, NEW h \in Hubs, RecoverDecision(h) \/ AutoApprove(h)
  PROVE  Holding'
<1>1. /\ hub \in [Hubs -> HubStates] /\ hub[h] \in HubStates /\ h \in Nat
      /\ UNCHANGED <<pend, current>>
      /\ resolved.of \in Nat /\ resolved.by \in Nat /\ resolved.who \in Deciders
      /\ "system" \in Deciders /\ "policy" \in Deciders
  BY HubNumbers DEF TypeOK, DurableOK, Deciders, RecoverDecision, AutoApprove, worker
<1>2. FromWorker(h, "relay") /\ Request(h).kind = "approval"
  BY DEF RecoverDecision, AutoApprove, AskArrives
<1>3. Request(h).id \in Nat /\ Request(h).of \in Nat /\ Request(h).id = 0 /\ Waits(hub[h])
  BY <1>2, RequestTyped, RelayRead DEF Proper
<1>4. PICK of \in Nat, by \in Nat, who \in Deciders :
        chan' = ToWorker(ReadBy(h), h, <<Reply(Request(h), of, by, who)>>)
  BY <1>1, <1>3 DEF RecoverDecision, Recorded, AutoApprove
<1> DEFINE m  == Reply(Request(h), of, by, who)
           ms == <<m>>
<1>5. m \in ToWorkerMsgs /\ m.t = "reply" /\ m.id = 0
  BY <1>3, ReplyTyped DEF Reply
<1> HIDE DEF m
<1>6. ms \in Seq(ToWorkerMsgs) /\ AnswerOn(ms)
  BY <1>5 DEF AnswerOn
<1>7. /\ \A k \in Hubs \ {h} : hub'[k] = hub[k]
      /\ hub'[h].att = hub[h].att /\ hub'[h].asked = hub[h].asked /\ hub'[h].waiting = hub[h].waiting
  BY <1>1 DEF RecoverDecision, AutoApprove, HubStates
<1>8. Waits(hub'[h]) /\ (hub[h].asked # 0 => hub'[h].asked # 0)
  BY <1>3, <1>7 DEF Waits
<1>9. chan' = ToWorker(ReadBy(h), h, ms)
  BY <1>4 DEF m
<1> HIDE DEF ms
<1>10. QED BY <1>1, <1>2, <1>6, <1>7, <1>8, <1>9, AnsweringHolding

\* finish(): everyone who waits is answered, and somebody does.
LEMMA FinishHolding ==
  ASSUME TypeOK, Sockets, Holding, NEW h \in Hubs, NEW who \in Deciders, Finish(h, who),
         UNCHANGED <<pend, current>>
  PROVE  Holding'
<1>1. /\ hub \in [Hubs -> HubStates] /\ hub[h] \in HubStates /\ h \in Nat
      /\ hub[h].asked \in Nat /\ hub[h].waiting \in Nat /\ Waits(hub[h])
  BY HubNumbers DEF TypeOK, HubStates, Holding, HubsHold
<1> DEFINE m  == Reply([id |-> 0], hub[h].asked, h, who)
           ms == [i \in 1 .. hub[h].waiting |-> m]
<1>2. /\ hub[h].asked # 0
      /\ chan' = ToWorker(chan, h, ms)
      /\ hub' = [hub EXCEPT ![h].asked = 0, ![h].waiting = 0, ![h].recovers = FALSE]
  BY DEF Finish
<1>3. m \in ToWorkerMsgs /\ m.t = "reply" /\ m.id = 0
  BY <1>1, ReplyTyped DEF Reply
<1> HIDE DEF m
<1>4. ms \in Seq(ToWorkerMsgs)
  BY <1>1, <1>3
<1>5. AnswerOn(ms)
  BY <1>1, <1>2, <1>3 DEF Waits, AnswerOn
<1> HIDE DEF ms
<1>6. /\ \A k \in Hubs \ {h} : hub'[k] = hub[k]
      /\ hub'[h].att = hub[h].att /\ hub'[h].asked = 0
  BY <1>1, <1>2 DEF HubStates
<1>7. Waits(hub'[h])
  BY <1>6 DEF Waits
<1>8. QED BY <1>2, <1>4, <1>5, <1>6, <1>7, SendingHolding

LEMMA ApprovalHolding ==
  ASSUME TypeOK, Sockets, Holding, NEW h \in Hubs,
         \/ JoinAsk(h) \/ RecoverDecision(h) \/ AutoApprove(h) \/ AskOperator(h)
         \/ Decide(h) \/ Expire(h) \/ CloseWindow(h)
  PROVE  Holding'
<1>1. CASE JoinAsk(h) \/ AskOperator(h)
  BY <1>1, AskedHolding
<1>2. CASE RecoverDecision(h) \/ AutoApprove(h)
  BY <1>2, AtOnceHolding
<1>3. CASE Decide(h) \/ Expire(h)
  BY <1>3, FinishHolding DEF Decide, Expire, worker, Deciders
<1>4. CASE CloseWindow(h)
  BY <1>4 DEF CloseWindow, TypeOK, worker, HubStates, Holding, HubsHold, Waits, HandOK, Held
<1>5. QED BY <1>1, <1>2, <1>3, <1>4

LEMMA SocketHolding ==
  ASSUME TypeOK, Sockets, Holding, NEW h \in Hubs,
         Connect(h) \/ HubNotices(h) \/ RecvWelcome(h) \/ Flap(h)
  PROVE  Holding'
<1>1. /\ hub \in [Hubs -> HubStates] /\ hub[h] \in HubStates
      /\ chan \in [Hubs -> Channels] /\ chan[h] \in Channels /\ chan[h].toHub \in Seq(ToHubMsgs)
      /\ SocketOK(h, chan[h], hub[h], current, gen) /\ pend \in Seq(Relays)
      /\ current \in Hubs \cup {None}
      /\ WireShape(chan[h].toHub) /\ Waits(hub[h]) /\ HandOK(h, chan[h], hub[h], pend, current)
  BY SocketFacts DEF Holding, HubsHold
<1>2. WireShape(<< >>)
  BY DEF WireShape
<1>3. CASE Connect(h)
  BY <1>1, <1>2, <1>3, HubHolding DEF Connect, Closed, SocketOK, worker, HandOK
<1>4. CASE HubNotices(h)
  BY <1>1, <1>2, <1>4, ClosedTyped, HubHolding DEF HubNotices, HubStates, worker, HandOK, Waits
<1>5. CASE RecvWelcome(h)
  <2>1. FromWorker(h, "welcome") /\ chan' = ReadBy(h) /\ UNCHANGED <<pend, current>>
    BY <1>5 DEF RecvWelcome, worker
  <2>2. /\ hub'[h].att /\ hub'[h].asked = hub[h].asked /\ hub'[h].waiting = hub[h].waiting
        /\ \A k \in Hubs \ {h} : hub'[k] = hub[k]
    BY <1>1, <1>5 DEF RecvWelcome, HubStates
  <2>3. /\ chan'[h].link = chan[h].link /\ chan'[h].toHub = Tail(chan[h].toHub)
        /\ chan'[h].toWorker = chan[h].toWorker
        /\ Head(chan[h].toHub).t = "welcome" /\ chan[h].toHub # << >>
        /\ \A k \in Hubs \ {h} : chan'[k] = chan[k]
    BY <1>1, <2>1, ReadByHub DEF ReadBy, FromWorker
  <2>4. WireShape(chan'[h].toHub) /\ (AskOn(chan[h].toHub) => AskOn(chan'[h].toHub))
    BY <1>1, <2>3, HeadRead
  <2>5. HandOK(h, chan'[h], hub'[h], pend, current) /\ Waits(hub'[h])
    BY <1>1, <2>2, <2>3, <2>4 DEF HandOK, Held, Waits
  <2>6. QED BY <2>1, <2>2, <2>3, <2>4, <2>5, HubHolding
<1>6. CASE Flap(h)
  <2>1. /\ chan'[h].link # "open" /\ chan'[h].toHub = << >>
        /\ \A k \in Hubs \ {h} : chan'[k] = chan[k] /\ hub'[k] = hub[k]
        /\ hub'[h].asked = hub[h].asked /\ hub'[h].waiting = hub[h].waiting
        /\ \/ UNCHANGED <<pend, current>>
           \/ current = h /\ current' = None /\ pend' = Detached(pend)
    BY <1>1, <1>6, SMTT(60) DEF Flap, Closed, HubStates
  <2>2. HandOK(h, chan'[h], hub'[h], pend', current') /\ WireShape(chan'[h].toHub) /\ Waits(hub'[h])
    BY <1>1, <1>2, <2>1 DEF HandOK, Waits
  <2>3. CASE UNCHANGED <<pend, current>>
    BY <2>1, <2>2, <2>3, HubHolding
  <2>4. CASE current = h /\ current' = None /\ pend' = Detached(pend)
    <3>1. LaneShape(pend') /\ ~Unbounded(pend')
      BY <1>1, <2>4, ShapeKept DEF Holding
    <3>2. ASSUME NEW k \in Hubs
          PROVE  /\ WireShape(chan'[k].toHub) /\ Waits(hub'[k])
                 /\ HandOK(k, chan'[k], hub'[k], pend', current')
      BY <2>1, <2>2, <2>4, HubNumbers DEF Holding, HubsHold, HandOK
    <3>3. QED BY <3>1, <3>2 DEF Holding, HubsHold
  <2>5. QED BY <2>1, <2>3, <2>4
<1>7. QED BY <1>3, <1>4, <1>5, <1>6

LEMMA SupervisorHolding ==
  ASSUME TypeOK, Sockets, Holding, NEW h \in Hubs,
         Supervision(h) \/ BootGreen(h) \/ GreenDies(h) \/ HubCrash(h)
  PROVE  Holding'
<1>1. /\ hub \in [Hubs -> HubStates] /\ hub[h] \in HubStates
      /\ chan \in [Hubs -> Channels] /\ chan[h] \in Channels
      /\ chan[h].link \in {"none", "open", "hubGone", "workerGone"}
      /\ SocketOK(h, chan[h], hub[h], current, gen)
      /\ WireShape(chan[h].toHub) /\ Waits(hub[h]) /\ HandOK(h, chan[h], hub[h], pend, current)
  BY SocketFacts DEF Holding, HubsHold
<1>2. UNCHANGED <<pend, current>>
  BY DEF Supervision, Drain, Promote, Retire, Rollback, Revive, BootGreen, GreenDies, HubCrash, worker
<1>3. CASE Retire(h) \/ GreenDies(h) \/ HubCrash(h)
  <2>1. Die(h)
    BY <1>3 DEF Retire, GreenDies, HubCrash
  <2>2. /\ \A k \in Hubs \ {h} : chan'[k] = chan[k] /\ hub'[k] = hub[k]
        /\ hub'[h].asked = 0
    BY <1>1, <2>1 DEF Die, NoHub
  <2>3. chan'[h].link # "open" /\ WireShape(chan'[h].toHub)
    <3>1. CASE chan[h].link = "open"
      BY <1>1, <2>1, <3>1 DEF Die, Channels, WireShape
    <3>2. CASE chan[h].link = "hubGone"
      BY <1>1, <2>1, <3>2 DEF Die
    <3>3. CASE chan[h].link \in {"none", "workerGone"}
      BY <1>1, <2>1, <3>3, ClosedTyped DEF Die, WireShape
    <3>4. QED BY <1>1, <3>1, <3>2, <3>3
  <2>4. Waits(hub'[h]) /\ HandOK(h, chan'[h], hub'[h], pend, current)
    BY <2>2, <2>3 DEF Waits, HandOK
  <2>5. QED BY <1>2, <2>2, <2>3, <2>4, HubHolding
<1>4. CASE Revive(h) \/ BootGreen(h)
  <2>1. /\ hub[h].role = "off" /\ UNCHANGED chan
        /\ \A k \in Hubs \ {h} : hub'[k] = hub[k]
        /\ hub'[h].asked = 0
    BY <1>1, <1>4 DEF Revive, BootGreen, Startable, Start, NewHub, NoHub
  <2>2. chan[h].link # "open"
    BY <1>1, <2>1 DEF SocketOK, AliveRoles
  <2>3. Waits(hub'[h]) /\ HandOK(h, chan'[h], hub'[h], pend, current)
    BY <2>1, <2>2 DEF Waits, HandOK
  <2>4. QED BY <1>1, <1>2, <2>1, <2>3, HubHolding
<1>5. CASE Drain(h) \/ Promote(h) \/ Rollback(h)
  <2>1. /\ \A k \in Hubs \ {h} : hub'[k] = hub[k]
        /\ hub'[h].att = hub[h].att /\ hub'[h].asked = hub[h].asked /\ hub'[h].waiting = hub[h].waiting
        /\ \/ UNCHANGED chan
           \/ \E on \in BOOLEAN : chan' = ToWorker(chan, h, <<Draining(on)>>)
    <3>1. CASE Drain(h)
      BY <1>1, <3>1 DEF Drain, HubStates
    <3>2. CASE Promote(h)
      BY <1>1, <3>2 DEF Promote, HubStates
    <3>3. CASE Rollback(h) /\ hub[h].att
      BY <1>1, <3>3 DEF Rollback, HubStates
    <3>4. CASE Rollback(h) /\ ~hub[h].att
      BY <1>1, <3>4 DEF Rollback, HubStates
    <3>5. QED BY <1>5, <3>1, <3>2, <3>3, <3>4
  <2>2. Waits(hub'[h]) /\ (hub[h].asked # 0 => hub'[h].asked # 0)
    BY <1>1, <2>1 DEF Waits
  <2>3. CASE UNCHANGED chan
    BY <1>1, <1>2, <2>1, <2>2, <2>3, HubHolding DEF HandOK, Held
  <2>4. CASE \E on \in BOOLEAN : chan' = ToWorker(chan, h, <<Draining(on)>>)
    BY <1>2, <2>1, <2>2, <2>4, MessagesTyped, OneElement, SendingHolding
  <2>5. QED BY <2>1, <2>3, <2>4
<1>6. QED BY <1>3, <1>4, <1>5 DEF Supervision

LEMMA HoldingStep == HInv /\ [Next]_vars => HInv'
<1> SUFFICES ASSUME HInv, [Next]_vars PROVE HInv'
  OBVIOUS
<1>1. TypeOK /\ Sockets /\ Holding /\ IInv'
  BY InvStep DEF HInv, IInv
<1>2. CASE UNCHANGED vars
  BY <1>1, <1>2 DEF vars, worker, HInv, Holding, HubsHold
<1>3. CASE Next
  <2>1. CASE Call \/ Ask \/ RelayTimeout
    BY <1>1, <2>1, AgentHolding DEF HInv
  <2>2. CASE WorkerDeath
    BY <1>1, <2>2, WorkerDeathHolding DEF HInv
  <2>3. ASSUME NEW h \in Hubs,
               \/ WorkerSteps(h) \/ HubSteps(h) \/ Supervision(h)
               \/ FinishAction(h) \/ Decide(h) \/ Expire(h) \/ CloseWindow(h)
               \/ BootGreen(h) \/ GreenDies(h) \/ HubCrash(h) \/ Flap(h)
        PROVE  Holding'
    BY <1>1, <2>3, AttachHolding, WorkerReadHolding, RpcHolding, ApprovalHolding, SocketHolding,
       SupervisorHolding DEF WorkerSteps, HubSteps
  <2>4. QED BY <1>1, <1>3, <2>1, <2>2, <2>3 DEF Next, HInv
<1>4. QED BY <1>2, <1>3

\* However sockets drop, hubs are replaced and the lane is sent again: a relay that no
\* timer bounds is in the hands of the current hub, or that hub's end is closed.
THEOREM NoOrphanCorrect == Spec => []NoOrphanedRelay
<1>1. Init => HInv
  BY SocketsInit, HoldingInit DEF HInv
<1>2. HInv => NoOrphanedRelay
  <2>1. SUFFICES ASSUME HInv, NEW i \in DOMAIN pend, pend[i].timer = "none"
                 PROVE  /\ current # None
                        /\ chan[current].link = "hubGone" \/ InHand(pend[i].req)
    BY DEF NoOrphanedRelay
  <2>2. pend[i].req.id = 0 /\ Unbounded(pend) /\ current # None
    BY <2>1 DEF HInv, Holding, LaneShape, Unbounded
  <2>3. current \in Hubs
    BY <2>1, <2>2 DEF HInv, IInv, TypeOK, WorkerOK
  <2>4. chan[current].link \in {"open", "hubGone"}
    BY <2>1, <2>3 DEF HInv, IInv, Sockets, SocketOK
  <2>5. chan[current].link = "open" => Held(chan[current], hub[current])
    BY <2>1, <2>2, <2>3 DEF HInv, Holding, HubsHold, HandOK
  <2>6. QED BY <2>2, <2>4, <2>5 DEF Held, AskOn, AnswerOn, InHand
<1>3. QED BY <1>1, <1>2, HoldingStep, PTL DEF Spec

-----------------------------------------------------------------------------
(* The inductive invariants of AnswersFit.                                 *)
(*                                                                         *)
(* A callId names one call of one worker process.  An answer carries only  *)
(* the callId, so what matters is that every answer on its way to the      *)
(* worker is one for the process that runs: a channel closes with its      *)
(* process, a hub that answers on a new one has read the new welcome and   *)
(* dropped the old cache, and what it started for the old process it does  *)
(* not answer (without "staleReply").                                      *)

\* The request is pending, on its way to a hub, or was executed.
Known(r) ==
  \/ \E i \in DOMAIN pend : pend[i].req = r
  \/ \E h \in Hubs :
       \/ \E i \in DOMAIN chan[h].toHub : chan[h].toHub[i].t = "relay" /\ chan[h].toHub[i].req = r
       \/ \E i \in DOMAIN effects[h] : effects[h][i] = r

\* A callId and a generation name one rpc, and those to come are new.
Numbered ==
  /\ gen >= 1
  /\ \A r \in Requests :
       Known(r) /\ r.id # 0 => 1 <= r.of /\ r.of <= gen /\ (r.of = gen => r.id <= seq)
  /\ \A r, q \in Requests :
       Known(r) /\ Known(q) /\ r.id # 0 /\ r.id = q.id /\ r.of = q.of => r = q

Did(es, id, of) == \E j \in DOMAIN es : es[j].id = id /\ es[j].of = of

\* What is on its way to the worker answers an rpc of its process that the hub executed.
RepliesOK(q, es, top) ==
  \A i \in DOMAIN q : q[i].t = "reply" /\ q[i].id # 0 => q[i].of = top /\ Did(es, q[i].id, q[i].of)

\* What hub state s has cached and runs, it executed, es, and the cache is of its generation.
CallsOK(s, es) ==
  /\ s.gen = 0 => s.served = {}
  /\ \A e \in s.served : e.of = s.gen /\ Did(es, e.id, e.of)
  /\ \A i \in DOMAIN s.running : s.running[i].id # 0 /\ Did(es, s.running[i].id, s.running[i].of)

\* Hub state s, with socket c, after the executions es, for a worker of generation top.
RpcOK(c, s, es, top) ==
  /\ s.att => c.link \in {"open", "workerGone"}
  /\ c.link = "open" /\ (s.att \/ Welcomed(c.toHub)) => GenOf(c.toHub, s.gen) = top
  /\ c.link = "workerGone" => c.toWorker = << >>
  /\ RepliesOK(c.toWorker, es, top)
  /\ CallsOK(s, es)

RpcsOK == \A h \in Hubs : RpcOK(chan[h], hub[h], effects[h], gen)

RInv == HInv /\ Numbered /\ RpcsOK /\ AnsweredByItself

(* Approvals share an id, so an answer fits whatever is pending when it    *)
(* arrives.  Without "quickRepeat" one invocation at a time is about: what *)
(* a hub decides or approves itself is for the pending one.  Only a        *)
(* decision on record can be for another, and a hub process applies one    *)
(* only, of another process.                                               *)

\* An approval pending in p is the invocation `of`.
Fits(p, of) == \A i \in DOMAIN p : p[i].req.id = 0 => p[i].req.of = of

IsAnswer(m) == m.t = "reply" /\ m.id = 0

AsksFit(p, q)    == \A i \in DOMAIN q : q[i].t = "relay" /\ q[i].req.id = 0 => Fits(p, q[i].req.of)
OwnFit(h, p, q)  == \A i \in DOMAIN q : IsAnswer(q[i]) /\ q[i].by = h => Fits(p, q[i].of)
Foreign(h, q)    == {i \in DOMAIN q : IsAnswer(q[i]) /\ q[i].by # h}
Mismatched(h, S) == {a \in S : a.req.kind = "approval" /\ a.reply.of # a.req.of /\ a.at = h}

\* Hub h in state s, with socket c, the lane p, answers S, when hub d took the last decision.
GrantOK(h, c, s, p, S, d) ==
  /\ \A i \in DOMAIN s.running : s.running[i].id # 0
  /\ AsksFit(p, c.toHub) /\ OwnFit(h, p, c.toWorker)
  /\ \A i, j \in Foreign(h, c.toWorker) : i = j
  /\ Foreign(h, c.toWorker) # {} => ~s.recovers /\ Mismatched(h, S) = {}
  /\ \A a, b \in Mismatched(h, S) : a = b
  /\ \A a \in Mismatched(h, S) : ~s.recovers /\ a.reply.by # h
  /\ d = h => ~s.recovers
  /\ s.role = "off" => c = Closed /\ Mismatched(h, S) = {} /\ d # h

Grants == \A h \in Hubs : GrantOK(h, chan[h], hub[h], pend, answers, resolved.by)

GInv == HInv /\ Grants

-----------------------------------------------------------------------------
(* Answers to rpcs.                                                        *)

LEMMA RepliesBehind ==
  ASSUME NEW q \in Seq(ToWorkerMsgs), NEW ms \in Seq(ToWorkerMsgs), NEW es, NEW top,
         RepliesOK(q, es, top), RepliesOK(ms, es, top)
  PROVE  RepliesOK(q \o ms, es, top)
BY Joined DEF RepliesOK

LEMMA RepliesRead ==
  ASSUME NEW q \in Seq(ToWorkerMsgs), q # << >>, NEW es, NEW top, RepliesOK(q, es, top)
  PROVE  RepliesOK(Tail(q), es, top)
BY Behind DEF RepliesOK

\* The welcome is read, and then no other comes.
LEMMA WelcomeFirst ==
  ASSUME NEW q \in Seq(ToHubMsgs), q # << >>, NEW g \in Nat, NEW top \in Nat, QueueOK(q, g, top)
  PROVE  ~Welcomed(Tail(q))
BY HeadTailProperties, LenProperties DEF Welcomed, QueueOK

\* Requests that were known keep their numbers.
LEMMA NumbersKept ==
  ASSUME Numbered, UNCHANGED <<gen, seq>>, \A r \in Requests : Known(r)' => Known(r)
  PROVE  Numbered'
BY DEF Numbered

\* Where a request is known.
LEMMA KnownAt ==
  /\ \A i \in DOMAIN pend : Known(pend[i].req)
  /\ \A h \in Hubs : \A i \in DOMAIN chan[h].toHub :
       chan[h].toHub[i].t = "relay" => Known(chan[h].toHub[i].req)
  /\ \A h \in Hubs : \A i \in DOMAIN effects[h] : Known(effects[h][i])
BY DEF Known

LEMMA FromKnown ==
  ASSUME Numbered, UNCHANGED <<gen, seq>>,
         \A i \in DOMAIN pend' : Known(pend'[i].req),
         \A h \in Hubs : \A i \in DOMAIN chan'[h].toHub :
           chan'[h].toHub[i].t = "relay" => Known(chan'[h].toHub[i].req),
         \A h \in Hubs : \A i \in DOMAIN effects'[h] : Known(effects'[h][i])
  PROVE  Numbered'
<1>1. ASSUME NEW r \in Requests, Known(r)'
      PROVE  Known(r)
  BY <1>1 DEF Known
<1>2. QED BY <1>1, NumbersKept

\* A hub's queue gets shorter, and nothing else becomes known.
LEMMA QueueKnown ==
  ASSUME TypeOK, Numbered, UNCHANGED <<gen, seq, pend>>, NEW h \in Hubs,
         \A k \in Hubs \ {h} : chan'[k] = chan[k] /\ effects'[k] = effects[k],
         \/ chan'[h].toHub \in {chan[h].toHub, << >>}
         \/ chan[h].toHub # << >> /\ chan'[h].toHub = Tail(chan[h].toHub),
         \A i \in DOMAIN effects'[h] : Known(effects'[h][i])
  PROVE  Numbered'
<1>1. chan[h].toHub \in Seq(ToHubMsgs)
  BY DEF TypeOK, Channels
<1>2. \A i \in DOMAIN chan'[h].toHub : \E j \in DOMAIN chan[h].toHub : chan'[h].toHub[i] = chan[h].toHub[j]
  <2>1. CASE chan'[h].toHub \in {chan[h].toHub, << >>}
    BY <2>1
  <2>2. CASE chan[h].toHub # << >> /\ chan'[h].toHub = Tail(chan[h].toHub)
    BY <1>1, <2>2, Behind
  <2>3. QED BY <2>1, <2>2
<1>3. \A i \in DOMAIN chan'[h].toHub :
        chan'[h].toHub[i].t = "relay" => Known(chan'[h].toHub[i].req)
  BY <1>2, KnownAt
<1>4. \A k \in Hubs : \A i \in DOMAIN chan'[k].toHub :
        chan'[k].toHub[i].t = "relay" => Known(chan'[k].toHub[i].req)
  BY <1>3, KnownAt
<1>5. \A k \in Hubs : \A i \in DOMAIN effects'[k] : Known(effects'[k][i])
  BY KnownAt
<1>6. \A i \in DOMAIN pend' : Known(pend'[i].req)
  BY KnownAt
<1>7. QED BY <1>4, <1>5, <1>6, FromKnown

\* The facts the steps below use.
LEMMA RpcFacts ==
  ASSUME TypeOK, Sockets, Holding, RpcsOK, NEW h \in Hubs
  PROVE  /\ chan \in [Hubs -> Channels] /\ hub \in [Hubs -> HubStates] /\ hub[h] \in HubStates
         /\ chan[h].toHub \in Seq(ToHubMsgs) /\ chan[h].toWorker \in Seq(ToWorkerMsgs)
         /\ effects[h] \in Seq(Requests) /\ h \in Nat
         /\ hub[h].gen \in Nat /\ gen \in Nat /\ seq \in Nat /\ pend \in Seq(Relays)
         /\ current \in Hubs \cup {None}
         /\ SocketOK(h, chan[h], hub[h], current, gen) /\ QueueOK(chan[h].toHub, hub[h].gen, gen)
         /\ RpcOK(chan[h], hub[h], effects[h], gen)
         /\ hub[h].gen <= gen
         /\ chan[h].link \in {"none", "open", "hubGone", "workerGone"}
BY SocketFacts, HubNumbers DEF TypeOK, GhostsOK, WorkerOK, SocketOK, RpcsOK

\* A step of hub h alone.
LEMMA HubRpcs ==
  ASSUME RpcsOK, NEW h \in Hubs, UNCHANGED gen,
         \A k \in Hubs \ {h} : chan'[k] = chan[k] /\ hub'[k] = hub[k] /\ effects'[k] = effects[k],
         RpcOK(chan'[h], hub'[h], effects'[h], gen)
  PROVE  RpcsOK'
BY DEF RpcsOK

\* A socket that closed, without frames to the worker.
LEMMA RpcClosed ==
  ASSUME NEW c, NEW d, NEW s, NEW z, NEW es, NEW top, NEW now,
         RpcOK(c, s, es, top), d.link # "open", d.toWorker = << >>,
         z.att => s.att /\ d.link = "workerGone",
         z.gen = s.gen, z.served = s.served, z.running = s.running
  PROVE  RpcOK(d, z, es, now)
BY DEF RpcOK, RepliesOK, CallsOK

\* What was done stays done.
LEMMA DidMore ==
  ASSUME NEW es \in Seq(Requests), NEW fs, fs = es \/ \E r \in Requests : fs = Append(es, r)
  PROVE  /\ \A i \in DOMAIN es : i \in DOMAIN fs /\ fs[i] = es[i]
         /\ \A id, of : Did(es, id, of) => Did(fs, id, of)
         /\ \A q, top : RepliesOK(q, es, top) => RepliesOK(q, fs, top)
<1>1. \A i \in DOMAIN es : i \in DOMAIN fs /\ fs[i] = es[i]
  <2>1. CASE fs = es
    BY <2>1
  <2>2. CASE \E r \in Requests : fs = Append(es, r)
    BY <2>2, AppendProperties, LenProperties
  <2>3. QED BY <2>1, <2>2
<1>2. \A id, of : Did(es, id, of) => Did(fs, id, of)
  BY <1>1 DEF Did
<1>3. \A q, top : RepliesOK(q, es, top) => RepliesOK(q, fs, top)
  BY <1>2 DEF RepliesOK
<1>4. QED BY <1>1, <1>2, <1>3

\* The last execution.
LEMMA DidLast ==
  ASSUME NEW es \in Seq(Requests), NEW r \in Requests
  PROVE  /\ Did(Append(es, r), r.id, r.of)
         /\ \A i \in DOMAIN Append(es, r) : Append(es, r)[i] = r \/ (i \in DOMAIN es /\ Append(es, r)[i] = es[i])
BY AppendProperties, LenProperties DEF Did

\* Answers given stay answers to what was done.
LEMMA AnswersKept ==
  ASSUME TypeOK, AnsweredByItself, UNCHANGED answers,
         \A h \in Hubs : effects'[h] = effects[h] \/ \E r \in Requests : effects'[h] = Append(effects[h], r)
  PROVE  AnsweredByItself'
<1>1. ASSUME NEW a \in answers, a.req.kind # "approval"
      PROVE  a.reply.of = a.req.of /\ \E h \in Hubs : Executions(h, a.req)' # {}
  <2>1. a.reply.of = a.req.of
    BY <1>1 DEF AnsweredByItself
  <2>2. PICK h \in Hubs : Executions(h, a.req) # {}
    BY <1>1 DEF AnsweredByItself
  <2>3. PICK i \in DOMAIN effects[h] : effects[h][i] = a.req
    BY <2>2 DEF Executions
  <2>4. effects[h] \in Seq(Requests)
    BY DEF TypeOK, GhostsOK
  <2>5. i \in DOMAIN effects'[h] /\ effects'[h][i] = a.req
    BY <2>3, <2>4, DidMore
  <2>6. Executions(h, a.req)' # {}
    BY <2>5 DEF Executions
  <2>7. QED BY <2>1, <2>6
<1>2. QED BY <1>1 DEF AnsweredByItself, Executions

-----------------------------------------------------------------------------
(* What each step does to the answers to rpcs.                             *)

LEMMA RpcInit == Init => Numbered /\ RpcsOK /\ AnsweredByItself
<1> SUFFICES ASSUME Init PROVE Numbered /\ RpcsOK /\ AnsweredByItself
  OBVIOUS
<1>1. /\ gen = 1 /\ pend = << >> /\ answers = {}
      /\ \A h \in Hubs : chan[h] = Closed /\ effects[h] = << >>
      /\ \A h \in Hubs : /\ ~hub[h].att /\ hub[h].gen = 0 /\ hub[h].served = {}
                         /\ hub[h].running = << >>
  BY DEF Init, NewHub, NoHub
<1>2. Numbered
  BY <1>1 DEF Known, Closed, Numbered
<1>3. RpcsOK
  BY <1>1 DEF RpcsOK, RpcOK, CallsOK, RepliesOK, Closed
<1>4. QED BY <1>1, <1>2, <1>3 DEF AnsweredByItself

\* A relay that is sent behind others.
LEMMA RelaySent ==
  ASSUME NEW q \in Seq(ToHubMsgs), NEW r \in Requests, NEW g \in Nat, NEW top \in Nat,
         QueueOK(q, g, top), GenOf(q, g) = top, r.kind # "approval" => r.of = top
  PROVE  /\ GenOf(q \o <<Relayed(r)>>, g) = top
         /\ \A i \in DOMAIN (q \o <<Relayed(r)>>) :
              \/ \E j \in DOMAIN q : (q \o <<Relayed(r)>>)[i] = q[j]
              \/ (q \o <<Relayed(r)>>)[i].t = "relay" /\ (q \o <<Relayed(r)>>)[i].req = r
<1> DEFINE ms == <<Relayed(r)>>
<1>1. /\ ms \in Seq(ToHubMsgs) /\ DOMAIN ms = {1} /\ ms[1].t = "relay" /\ ms[1].req = r
  BY MessagesTyped, OneElement DEF Relayed
<1> HIDE DEF ms
<1>2. FramesOf(ms, top)
  BY <1>1 DEF FramesOf, OfGeneration
<1>3. GenOf(q \o ms, g) = top
  BY <1>1, <1>2, QueueGrows
<1>4. \A j \in DOMAIN (q \o ms) :
        \/ j \in DOMAIN q /\ (q \o ms)[j] = q[j]
        \/ \E i \in DOMAIN ms : (q \o ms)[j] = ms[i]
  BY <1>1, Joined
<1>5. \A j \in DOMAIN (q \o ms) :
        \/ \E i \in DOMAIN q : (q \o ms)[j] = q[i]
        \/ (q \o ms)[j].t = "relay" /\ (q \o ms)[j].req = r
  BY <1>1, <1>4
<1>6. QED BY <1>3, <1>5 DEF ms

\* relay(): what is issued is on the lane, or on the current socket.
LEMMA IssueRpcs ==
  ASSUME TypeOK, Sockets, Holding, RpcsOK, NEW r \in Requests, Relay(r),
         r.kind # "approval" => r.of = gen, UNCHANGED <<hub, gen, effects>>
  PROVE  /\ RpcsOK'
         /\ \A q \in Requests : Known(q)' => Known(q) \/ q = r
<1>1. pend \in Seq(Relays) /\ chan \in [Hubs -> Channels] /\ current \in Hubs \cup {None} /\ gen \in Nat
  BY DEF TypeOK, WorkerOK, Relays
<1>2. CASE Len(pend) >= QueueMax
  BY <1>2 DEF Relay, RpcsOK, Known
<1>3. CASE ~(Len(pend) >= QueueMax)
  <2> DEFINE e == [req |-> r, timer |-> IF Ready THEN DeliveredTimer(r) ELSE "reach"]
  <2>1. e.req = r /\ e \in Relays /\ pend' = Append(pend, e)
    BY <1>3 DEF Relay, Relays, Timers, DeliveredTimer
  <2> HIDE DEF e
  <2>2. \A i \in DOMAIN pend' : pend'[i].req = r \/ \E j \in DOMAIN pend : pend'[i] = pend[j]
    <3>1. /\ DOMAIN Append(pend, e) = 1 .. Len(pend) + 1 /\ DOMAIN pend = 1 .. Len(pend)
          /\ Len(pend) \in Nat /\ Append(pend, e)[Len(pend) + 1] = e
          /\ \A i \in 1 .. Len(pend) : Append(pend, e)[i] = pend[i]
      <4> HIDE DEF Relays
      <4>1. QED BY <1>1, <2>1, AppendProperties, LenProperties
    <3>2. \A i \in DOMAIN pend' : i = Len(pend) + 1 \/ i \in 1 .. Len(pend)
      BY <2>1, <3>1
    <3>3. QED BY <2>1, <3>1, <3>2
  <2>3. CASE ~Ready
    BY <1>3, <2>2, <2>3 DEF Relay, RpcsOK, Known
  <2>4. CASE Ready
    <3>1. chan' = ToHub(chan, current, <<Relayed(r)>>) /\ current \in Hubs
      BY <1>1, <1>3, <2>4 DEF Relay, Ready
    <3>2. /\ chan[current].toHub \in Seq(ToHubMsgs) /\ hub[current].gen \in Nat
          /\ SocketOK(current, chan[current], hub[current], current, gen)
          /\ QueueOK(chan[current].toHub, hub[current].gen, gen)
          /\ RpcOK(chan[current], hub[current], effects[current], gen)
      BY <3>1, RpcFacts
    <3>3. <<Relayed(r)>> \in Seq(ToHubMsgs)
      BY MessagesTyped, OneElement
    <3>4. /\ \A k \in Hubs \ {current} : chan'[k] = chan[k]
          /\ chan'[current].link = chan[current].link /\ chan'[current].toWorker = chan[current].toWorker
          /\ chan'[current].toHub = IF chan[current].link = "open"
                                    THEN chan[current].toHub \o <<Relayed(r)>> ELSE chan[current].toHub
      BY <1>1, <3>1, <3>3, ToHubSends DEF ToHub
    <3>5. /\ chan[current].link = "open" => GenOf(chan'[current].toHub, hub[current].gen) = gen
          /\ \A i \in DOMAIN chan'[current].toHub :
               \/ \E j \in DOMAIN chan[current].toHub : chan'[current].toHub[i] = chan[current].toHub[j]
               \/ chan'[current].toHub[i].t = "relay" /\ chan'[current].toHub[i].req = r
      <4>1. CASE chan[current].link = "open"
        <5>1. GenOf(chan[current].toHub, hub[current].gen) = gen
          BY <3>2, <4>1 DEF SocketOK
        <5>2. chan'[current].toHub = chan[current].toHub \o <<Relayed(r)>>
          BY <3>4, <4>1
        <5>3. \E q \in Seq(ToHubMsgs), g \in Nat :
                /\ q = chan[current].toHub /\ g = hub[current].gen
                /\ QueueOK(q, g, gen) /\ GenOf(q, g) = gen
          BY <3>2, <5>1
        <5>4. PICK q \in Seq(ToHubMsgs), g \in Nat :
                /\ q = chan[current].toHub /\ g = hub[current].gen
                /\ QueueOK(q, g, gen) /\ GenOf(q, g) = gen
          BY <5>3
        <5>5. /\ GenOf(q \o <<Relayed(r)>>, g) = gen
              /\ \A i \in DOMAIN (q \o <<Relayed(r)>>) :
                   \/ \E j \in DOMAIN q : (q \o <<Relayed(r)>>)[i] = q[j]
                   \/ (q \o <<Relayed(r)>>)[i].t = "relay" /\ (q \o <<Relayed(r)>>)[i].req = r
          BY <1>1, <5>4, RelaySent
        <5>6. QED BY <5>2, <5>4, <5>5
      <4>2. CASE chan[current].link # "open"
        BY <3>4, <4>2
      <4>3. QED BY <4>1, <4>2
    <3>6. RpcOK(chan'[current], hub'[current], effects'[current], gen)
      BY <3>2, <3>4, <3>5 DEF RpcOK
    <3>7. RpcsOK'
      BY <3>1, <3>4, <3>6, HubRpcs
    <3>8. ASSUME NEW q \in Requests, Known(q)', q # r
          PROVE  Known(q)
      <4>1. CASE \E i \in DOMAIN pend' : pend'[i].req = q
        BY <2>2, <3>8, <4>1, KnownAt
      <4>2. CASE \E h \in Hubs : \E i \in DOMAIN chan'[h].toHub :
                   chan'[h].toHub[i].t = "relay" /\ chan'[h].toHub[i].req = q
        <5>0. PICK h \in Hubs : \E i \in DOMAIN chan'[h].toHub :
                chan'[h].toHub[i].t = "relay" /\ chan'[h].toHub[i].req = q
          BY <4>2
        <5>1. PICK i \in DOMAIN chan'[h].toHub :
                chan'[h].toHub[i].t = "relay" /\ chan'[h].toHub[i].req = q
          BY <5>0
        <5>2. \E j \in DOMAIN chan[h].toHub : chan'[h].toHub[i] = chan[h].toHub[j]
          BY <3>4, <3>5, <3>8, <5>1
        <5>3. QED BY <5>1, <5>2, KnownAt
      <4>3. CASE \E h \in Hubs : \E i \in DOMAIN effects'[h] : effects'[h][i] = q
        BY <4>3, KnownAt
      <4>4. QED BY <3>8, <4>1, <4>2, <4>3 DEF Known
    <3>9. QED BY <3>7, <3>8
  <2>5. QED BY <2>3, <2>4
<1>4. QED BY <1>2, <1>3

LEMMA AgentRpcs ==
  ASSUME TypeOK, Sockets, LaneOK(pend, gen), Holding, Numbered, RpcsOK, AnsweredByItself,
         Call \/ Ask \/ RelayTimeout
  PROVE  Numbered' /\ RpcsOK' /\ AnsweredByItself'
<1>0. seq \in Nat /\ gen \in Nat /\ issued \in Nat /\ pend \in Seq(Relays)
  BY DEF TypeOK, WorkerOK, GhostsOK, Relays
<1>1. UNCHANGED <<hub, gen, effects, answers>>
  BY DEF Call, Ask, RelayTimeout, ghosts
<1>2. AnsweredByItself'
  BY <1>1, AnswersKept
<1>3. CASE Call
  <2>1. PICK k \in Kinds \ {"approval"} : Relay([kind |-> k, id |-> seq', of |-> gen])
    BY <1>3 DEF Call
  <2> DEFINE r == [kind |-> k, id |-> seq', of |-> gen]
  <2>2. /\ r \in Requests /\ r.id = seq + 1 /\ r.of = gen /\ seq' = seq + 1
    BY <1>0, <1>3, KindsAssumption DEF Call, Requests
  <2> HIDE DEF r
  <2>3. RpcsOK' /\ \A q \in Requests : Known(q)' => Known(q) \/ q = r
    BY <1>1, <2>1, <2>2, IssueRpcs DEF r
  <2>4. gen >= 1 /\ gen' = gen
    BY <1>1 DEF Numbered
  <2>5. ASSUME NEW q \in Requests, Known(q)', q.id # 0
        PROVE  1 <= q.of /\ q.of <= gen' /\ (q.of = gen' => q.id <= seq')
    <3>1. CASE Known(q)
      BY <1>0, <2>2, <2>4, <2>5, <3>1 DEF Numbered, Requests
    <3>2. CASE q = r
      BY <1>0, <2>2, <2>4, <3>2
    <3>3. QED BY <2>3, <2>5, <3>1, <3>2
  <2>6. ASSUME NEW p \in Requests, NEW q \in Requests, Known(p)', Known(q)', p.id # 0,
               p.id = q.id, p.of = q.of
        PROVE  p = q
    <3>1. \A z \in Requests : Known(z) => ~(z.id = r.id /\ z.of = r.of)
      BY <1>0, <2>2 DEF Numbered
    <3>2. (Known(p) \/ p = r) /\ (Known(q) \/ q = r)
      BY <2>3, <2>6
    <3>3. Known(p) /\ Known(q) => p = q
      BY <2>6 DEF Numbered
    <3>4. QED BY <2>6, <3>1, <3>2, <3>3
  <2>7. Numbered'
    BY <2>4, <2>5, <2>6 DEF Numbered
  <2>8. QED BY <1>2, <2>3, <2>7
<1>4. CASE Ask
  <2> DEFINE r == [kind |-> "approval", id |-> 0, of |-> issued']
  <2>1. /\ r \in Requests /\ r.id = 0 /\ r.kind = "approval" /\ Relay(r) /\ UNCHANGED seq
    BY <1>0, <1>4 DEF Ask, Requests, AllKinds
  <2> HIDE DEF r
  <2>2. RpcsOK' /\ \A q \in Requests : Known(q)' => Known(q) \/ q = r
    BY <1>1, <2>1, IssueRpcs
  <2>3. \A q \in Requests : Known(q)' /\ q.id # 0 => Known(q)
    BY <2>1, <2>2
  <2>4. Numbered'
    BY <1>1, <2>1, <2>3 DEF Numbered
  <2>5. QED BY <1>2, <2>2, <2>4
<1>5. CASE RelayTimeout
  <2>1. PICK i \in DOMAIN pend : pend' = Without(pend, i)
    BY <1>5 DEF RelayTimeout
  <2>2. UNCHANGED <<hub, chan, gen, seq, effects>>
    BY <1>5 DEF RelayTimeout, ghosts
  <2>3. \A k \in DOMAIN pend' : \E j \in DOMAIN pend : pend'[k] = pend[j]
    <3> HIDE DEF Relays
    <3>1. QED BY <1>0, <2>1, WithoutTyped
  <2>4. \A r \in Requests : Known(r)' => Known(r)
    BY <2>2, <2>3 DEF Known
  <2>5. QED BY <1>2, <2>2, <2>4, NumbersKept DEF RpcsOK
<1>6. QED BY <1>3, <1>4, <1>5

\* What is sent from the lane is known.
LEMMA LaneFramesKnown ==
  ASSUME pend \in Seq(Relays), NEW q \in Seq(ToHubMsgs),
         \A i \in DOMAIN q : q[i].t = "relay" => Known(q[i].req)
  PROVE  \A i \in DOMAIN (q \o Frames(pend)) :
           (q \o Frames(pend))[i].t = "relay" => Known((q \o Frames(pend))[i].req)
<1>1. /\ Frames(pend) \in Seq(ToHubMsgs) /\ DOMAIN Frames(pend) = DOMAIN pend
      /\ \A i \in DOMAIN pend : Frames(pend)[i] = Relayed(pend[i].req)
  BY LaneTyped
<1>2. \A i \in DOMAIN Frames(pend) : Known(Frames(pend)[i].req)
  BY <1>1, KnownAt DEF Relayed
<1>3. \A j \in DOMAIN (q \o Frames(pend)) :
        \/ j \in DOMAIN q /\ (q \o Frames(pend))[j] = q[j]
        \/ \E i \in DOMAIN Frames(pend) : (q \o Frames(pend))[j] = Frames(pend)[i]
  BY <1>1, Joined
<1>4. QED BY <1>2, <1>3

\* The lane keeps its relays, or what is left of them.
LEMMA LaneKnown ==
  ASSUME pend \in Seq(Relays), NEW p,
         p \in {pend, Detached(pend), Flushed(pend)} \/ \E i \in DOMAIN pend : p = Without(pend, i)
  PROVE  \A k \in DOMAIN p : Known(p[k].req)
<1>1. CASE p \in {pend, Detached(pend), Flushed(pend)}
  BY <1>1, LaneTyped, KnownAt
<1>2. CASE \E i \in DOMAIN pend : p = Without(pend, i)
  <2>1. PICK i \in DOMAIN pend : p = Without(pend, i)
    BY <1>2
  <2>2. \A k \in DOMAIN p : \E j \in DOMAIN pend : p[k] = pend[j]
    <3> HIDE DEF Relays
    <3>1. QED BY <2>1, WithoutTyped
  <2>3. QED BY <2>2, KnownAt
<1>3. QED BY <1>1, <1>2

\* The worker destroys the channel to a hub.
LEMMA RpcDestroyed ==
  ASSUME NEW c, NEW d, NEW s, NEW es, NEW top, NEW now, RpcOK(c, s, es, top),
         c.link \in {"none", "open", "hubGone", "workerGone"},
         c.link = "open" => d.link = "workerGone" /\ d.toWorker = << >>,
         c.link = "workerGone" => d = c,
         c.link \in {"none", "hubGone"} => d = Closed
  PROVE  RpcOK(d, s, es, now)
BY ClosedTyped, RpcClosed DEF RpcOK, Closed

\* attach(): the welcome makes the hub's queue one of this process.
LEMMA AttachRpcs ==
  ASSUME TypeOK, Sockets, LaneOK(pend, gen), Holding, Numbered, RpcsOK, NEW h \in Hubs, RecvHello(h)
  PROVE  Numbered' /\ RpcsOK'
<1>1. /\ SocketOK(h, chan[h], hub[h], current, gen) /\ chan \in [Hubs -> Channels]
      /\ RpcOK(chan[h], hub[h], effects[h], gen) /\ hub[h].gen \in Nat /\ hub[h].gen <= gen
      /\ gen \in Nat /\ pend \in Seq(Relays) /\ current \in Hubs \cup {None}
      /\ chan[h].toWorker \in Seq(ToWorkerMsgs)
      /\ chan[h].link \in {"none", "open", "hubGone", "workerGone"}
  BY RpcFacts
<1>2. FromHub(h, "hello") /\ UNCHANGED <<hub, gen, seq, effects>>
  BY DEF RecvHello, ghosts
<1>3. /\ chan[h].toWorker[1].t = "hello" /\ 1 \in DOMAIN chan[h].toWorker
      /\ chan[h].toWorker # << >>
      /\ ReadFrom(h) \in [Hubs -> Channels]
      /\ ReadFrom(h)[h].link = chan[h].link /\ ReadFrom(h)[h].toHub = chan[h].toHub
      /\ ReadFrom(h)[h].toWorker = Tail(chan[h].toWorker)
      /\ chan[h].link \in {"open", "hubGone"}
  BY <1>1, <1>2, ReadFromChannel DEF FromHub
<1>4. chan[h].toHub = << >> /\ current # h /\ h # None
  BY <1>1, <1>3, HubNumbers DEF SocketOK, HelloOK
<1>5. \A k \in Hubs \ {h} : ReadFrom(h)[k] = chan[k]
  BY DEF ReadFrom
<1>6. \A k \in Hubs : RpcOK(chan[k], hub[k], effects[k], gen)
  BY DEF RpcsOK
<1>7. CASE Head(chan[h].toWorker).epoch < currentEpoch
  <2>1. chan' = Destroyed(ReadFrom(h), h) /\ UNCHANGED pend
    BY <1>7 DEF RecvHello
  <2>2. \A k \in Hubs \ {h} : chan'[k] = chan[k]
    BY <1>3, <1>5, <2>1, DestroyedChannel
  <2>3. /\ chan[h].link = "open" => chan'[h].link = "workerGone" /\ chan'[h].toWorker = << >>
        /\ chan[h].link = "hubGone" => chan'[h] = Closed
        /\ chan'[h].toHub = << >>
    BY <1>3, <1>4, <2>1, DestroyedChannel, ClosedTyped
  <2>4. RpcOK(chan'[h], hub[h], effects[h], gen)
    BY <1>1, <1>3, <2>3, RpcDestroyed
  <2>5. RpcsOK'
    BY <1>2, <1>6, <2>2, <2>4, HubRpcs
  <2>6. \A i \in DOMAIN effects'[h] : Known(effects'[h][i])
    BY <1>2, KnownAt
  <2>7. Numbered'
    BY <1>2, <2>1, <2>2, <2>3, <2>6, QueueKnown
  <2>8. QED BY <2>5, <2>7
<1>8. CASE ~(Head(chan[h].toWorker).epoch < currentEpoch)
  <2> DEFINE prev == IF current \in {None, h} THEN ReadFrom(h) ELSE Destroyed(ReadFrom(h), current)
             ms   == <<Welcome(gen)>> \o Frames(pend)
  <2>1. chan' = ToHub(prev, h, ms) /\ pend' = Flushed(pend)
    BY <1>8 DEF RecvHello
  <2>2. /\ prev \in [Hubs -> Channels] /\ prev[h] = ReadFrom(h)[h]
        /\ \A k \in Hubs \ {h} : /\ prev[k].toHub \in {chan[k].toHub, << >>}
                                 /\ RpcOK(prev[k], hub[k], effects[k], gen)
    <3>1. CASE current \in {None, h}
      BY <1>3, <1>5, <1>6, <3>1
    <3>2. CASE current \notin {None, h}
      <4>1. /\ prev = Destroyed(ReadFrom(h), current) /\ current \in Hubs \ {h}
            /\ ReadFrom(h)[current] = chan[current]
        BY <1>1, <1>5, <3>2
      <4>2. prev \in [Hubs -> Channels] /\ \A k \in Hubs \ {current} : prev[k] = ReadFrom(h)[k]
        BY <1>3, <4>1, DestroyedChannel
      <4>3. chan[current].link \in {"none", "open", "hubGone", "workerGone"}
        BY <4>1, RpcFacts
      <4>4. /\ chan[current].link = "open" => /\ prev[current].link = "workerGone"
                                              /\ prev[current].toWorker = << >>
                                              /\ prev[current].toHub = chan[current].toHub
            /\ chan[current].link = "workerGone" => prev[current] = chan[current]
            /\ chan[current].link \in {"none", "hubGone"} => prev[current] = Closed
        BY <1>3, <4>1, DestroyedChannel
      <4> HIDE DEF prev
      <4>5. prev[current].toHub \in {chan[current].toHub, << >>}
        BY <4>3, <4>4, ClosedTyped
      <4>6. RpcOK(chan[current], hub[current], effects[current], gen)
        BY <1>6, <4>1
      <4>7. RpcOK(prev[current], hub[current], effects[current], gen)
        BY <4>3, <4>4, <4>6, RpcDestroyed
      <4>8. QED BY <1>5, <1>6, <4>1, <4>2, <4>5, <4>7
    <3>3. QED BY <3>1, <3>2
  <2>3. /\ Frames(pend) \in Seq(ToHubMsgs) /\ FramesOf(Frames(pend), gen)
        /\ <<Welcome(gen)>> \in Seq(ToHubMsgs)
    BY <1>1, LaneTyped, LaneKept, MessagesTyped, OneElement
  <2>4. ms \in Seq(ToHubMsgs)
    BY <2>3, ConcatProperties
  <2>5. GenOf(ms, hub[h].gen) = gen
    BY <1>1, <2>3, QueueWelcomed
  <2>6. \A i \in DOMAIN ms : ms[i].t = "relay" => Known(ms[i].req)
    <3>1. \A i \in DOMAIN <<Welcome(gen)>> : <<Welcome(gen)>>[i].t # "relay"
      BY DEF Welcome
    <3>2. QED BY <1>1, <2>3, <3>1, LaneFramesKnown
  <2> HIDE DEF prev, ms
  <2>7. /\ \A k \in Hubs \ {h} : chan'[k] = prev[k]
        /\ chan'[h].link = chan[h].link /\ chan'[h].toWorker = Tail(chan[h].toWorker)
        /\ chan'[h].toHub = IF chan[h].link = "open" THEN ms ELSE << >>
    <3>1. \A k \in Hubs \ {h} : chan'[k] = prev[k]
      BY <2>1, <2>2 DEF ToHub
    <3>2. /\ chan'[h].link = prev[h].link /\ chan'[h].toWorker = prev[h].toWorker
          /\ chan'[h].toHub = IF prev[h].link = "open" THEN prev[h].toHub \o ms ELSE prev[h].toHub
      BY <2>1, <2>2, <2>4, ToHubSends
    <3>3. << >> \o ms = ms
      BY <2>4, ConcatEmptySeq
    <3>4. QED BY <1>3, <1>4, <2>2, <3>1, <3>2, <3>3
  <2>8. RpcOK(chan'[h], hub[h], effects[h], gen)
    BY <1>1, <1>3, <2>5, <2>7, RepliesRead DEF RpcOK
  <2>9. RpcsOK'
    BY <1>2, <2>2, <2>7, <2>8 DEF RpcsOK
  <2>10. \A i \in DOMAIN pend' : Known(pend'[i].req)
    BY <1>1, <2>1, LaneKnown
  <2>11. \A k \in Hubs : \A i \in DOMAIN chan'[k].toHub :
           chan'[k].toHub[i].t = "relay" => Known(chan'[k].toHub[i].req)
    BY <2>2, <2>6, <2>7, KnownAt
  <2>12. \A k \in Hubs : \A i \in DOMAIN effects'[k] : Known(effects'[k][i])
    BY <1>2, KnownAt
  <2>13. QED BY <1>2, <2>9, <2>10, <2>11, <2>12, FromKnown
<1>9. QED BY <1>7, <1>8

\* A frame is read from a hub.
LEMMA ReadRpcs ==
  ASSUME TypeOK, Sockets, Holding, RpcsOK, NEW h \in Hubs, NEW t, FromHub(h, t), NEW k \in Hubs
  PROVE  RpcOK(ReadFrom(h)[k], hub[k], effects[k], gen)
<1>1. /\ chan \in [Hubs -> Channels] /\ chan[h].toWorker \in Seq(ToWorkerMsgs)
      /\ chan[h].toWorker # << >> /\ chan[h].link \in {"open", "hubGone"}
      /\ RpcOK(chan[k], hub[k], effects[k], gen) /\ RpcOK(chan[h], hub[h], effects[h], gen)
  BY RpcFacts DEF FromHub
<1>2. /\ ReadFrom(h)[k].link = chan[k].link /\ ReadFrom(h)[k].toHub = chan[k].toHub
      /\ k # h => ReadFrom(h)[k].toWorker = chan[k].toWorker
      /\ ReadFrom(h)[h].toWorker = Tail(chan[h].toWorker)
  BY <1>1, ReadFromChannel
<1>3. RepliesOK(ReadFrom(h)[k].toWorker, effects[k], gen)
  BY <1>1, <1>2, RepliesRead DEF RpcOK
<1>4. QED BY <1>1, <1>2, <1>3 DEF RpcOK

\* resolveRelay(): the answer is one to the rpc that has the id now.
LEMMA ReplyAnswers ==
  ASSUME TypeOK, Sockets, LaneOK(pend, gen), Holding, Numbered, RpcsOK, AnsweredByItself,
         NEW h \in Hubs, RecvReply(h)
  PROVE  AnsweredByItself'
<1>1. /\ chan \in [Hubs -> Channels] /\ chan[h].toWorker \in Seq(ToWorkerMsgs)
      /\ RpcOK(chan[h], hub[h], effects[h], gen) /\ pend \in Seq(Relays) /\ LaneShape(pend)
      /\ effects[h] \in Seq(Requests)
  BY RpcFacts DEF Holding
<1> DEFINE m    == Head(chan[h].toWorker)
           hits == {i \in DOMAIN pend : pend[i].req.id = m.id}
<1>2. FromHub(h, "reply") /\ UNCHANGED effects
  BY DEF RecvReply
<1>3. m = chan[h].toWorker[1] /\ 1 \in DOMAIN chan[h].toWorker /\ m.t = "reply"
  BY <1>1, <1>2, ReadFromChannel
<1>4. CASE hits = {}
  BY <1>2, <1>4, AnswersKept DEF RecvReply
<1>5. CASE hits # {}
  <2>1. PICK i \in hits : answers' = answers \cup {[req |-> pend[i].req, reply |-> m, at |-> h]}
    BY <1>5 DEF RecvReply
  <2> DEFINE r == pend[i].req
  <2>2. i \in DOMAIN pend /\ r.id = m.id /\ r \in Requests /\ Known(r)
    BY <1>1, LaneElement, KnownAt
  <2> HIDE DEF m
  <2>3. ASSUME r.kind # "approval"
        PROVE  m.of = r.of /\ Executions(h, r) # {}
    <3>1. r.id # 0 /\ r.of = gen
      BY <1>1, <2>2, <2>3 DEF LaneShape, Proper, LaneOK
    <3>2. m.of = gen /\ Did(effects[h], m.id, m.of)
      BY <1>1, <1>3, <2>2, <3>1 DEF RpcOK, RepliesOK
    <3>3. PICK j \in DOMAIN effects[h] : effects[h][j].id = m.id /\ effects[h][j].of = m.of
      BY <3>2 DEF Did
    <3>4. effects[h][j] \in Requests /\ Known(effects[h][j])
      BY <1>1, <3>3, KnownAt
    <3>5. effects[h][j] = r
      BY <2>2, <3>1, <3>2, <3>3, <3>4 DEF Numbered
    <3>6. QED BY <3>1, <3>2, <3>5 DEF Executions
  <2>4. ASSUME NEW a \in answers', a.req.kind # "approval"
        PROVE  a.reply.of = a.req.of /\ \E k \in Hubs : Executions(k, a.req) # {}
    BY <2>1, <2>3, <2>4 DEF AnsweredByItself
  <2>5. QED BY <1>2, <2>4 DEF AnsweredByItself, Executions
<1>6. QED BY <1>4, <1>5

\* The other frames of a hub, and the end of its socket.
LEMMA WorkerReadRpcs ==
  ASSUME TypeOK, Sockets, LaneOK(pend, gen), Holding, Numbered, RpcsOK, NEW h \in Hubs,
         RecvDraining(h) \/ RecvReply(h) \/ WorkerNotices(h)
  PROVE  Numbered' /\ RpcsOK'
<1>1. /\ SocketOK(h, chan[h], hub[h], current, gen) /\ chan \in [Hubs -> Channels]
      /\ RpcOK(chan[h], hub[h], effects[h], gen) /\ hub[h].gen \in Nat /\ gen \in Nat
      /\ QueueOK(chan[h].toHub, hub[h].gen, gen)
      /\ pend \in Seq(Relays) /\ chan[h].toHub \in Seq(ToHubMsgs)
  BY RpcFacts
<1>2. UNCHANGED <<hub, gen, seq, effects>>
  BY DEF RecvDraining, RecvReply, WorkerNotices, ghosts
<1>3. \A k \in Hubs : \A i \in DOMAIN effects'[k] : Known(effects'[k][i])
  BY <1>2, KnownAt
<1>4. \A k \in Hubs : \A i \in DOMAIN chan[k].toHub : chan[k].toHub[i].t = "relay" => Known(chan[k].toHub[i].req)
  BY KnownAt
<1>5. \A i \in DOMAIN pend' : Known(pend'[i].req)
  <2>1. pend' \in {pend, Detached(pend), Flushed(pend)} \/ \E i \in DOMAIN pend : pend' = Without(pend, i)
    <3>1. CASE RecvDraining(h)
      <4> DEFINE on == Head(chan[h].toWorker).on
      <4>1. CASE current \notin {None, h}
        BY <3>1, <4>1 DEF RecvDraining
      <4>2. CASE current \in {None, h} /\ (on \/ current = None)
        BY <3>1, <4>2 DEF RecvDraining
      <4>3. CASE current \in {None, h} /\ ~(on \/ current = None)
        BY <3>1, <4>3 DEF RecvDraining
      <4>4. QED BY <4>1, <4>2, <4>3
    <3>2. CASE RecvReply(h)
      BY <3>2 DEF RecvReply
    <3>3. CASE WorkerNotices(h)
      BY <3>3 DEF WorkerNotices
    <3>4. QED BY <3>1, <3>2, <3>3
  <2>2. QED BY <1>1, <2>1, LaneKnown
<1>6. ASSUME NEW t, FromHub(h, t), chan' = ReadFrom(h)
      PROVE  Numbered' /\ RpcsOK'
  BY <1>1, <1>2, <1>3, <1>4, <1>5, <1>6, ReadRpcs, ReadFromChannel, FromKnown DEF RpcsOK
<1>7. CASE RecvDraining(h)
  <2> DEFINE on == Head(chan[h].toWorker).on
  <2>1. FromHub(h, "draining")
    BY <1>7 DEF RecvDraining
  <2>2. CASE current \in {None, h} /\ ~(on \/ current = None)
    <3>1. chan' = ToHub(ReadFrom(h), h, Frames(pend)) /\ current = h
      BY <1>7, <2>2 DEF RecvDraining
    <3>2. Frames(pend) \in Seq(ToHubMsgs) /\ FramesOf(Frames(pend), gen)
      BY <1>1, LaneTyped, LaneKept
    <3>3. /\ ReadFrom(h) \in [Hubs -> Channels]
          /\ ReadFrom(h)[h].link = chan[h].link /\ ReadFrom(h)[h].toHub = chan[h].toHub
          /\ \A k \in Hubs \ {h} : ReadFrom(h)[k] = chan[k]
      BY <1>1, <2>1, ReadFromChannel DEF ReadFrom
    <3>4. /\ \A k \in Hubs \ {h} : chan'[k] = chan[k]
          /\ chan'[h].link = chan[h].link /\ chan'[h].toWorker = ReadFrom(h)[h].toWorker
          /\ chan'[h].toHub = IF chan[h].link = "open" THEN chan[h].toHub \o Frames(pend)
                              ELSE chan[h].toHub
      BY <3>1, <3>2, <3>3, ToHubSends DEF ToHub
    <3>5. RpcOK(ReadFrom(h)[h], hub[h], effects[h], gen)
      BY <2>1, ReadRpcs
    <3>6. chan[h].link = "open" => GenOf(chan'[h].toHub, hub[h].gen) = gen
      BY <1>1, <3>1, <3>2, <3>4, QueueGrows DEF SocketOK
    <3>7. RpcOK(chan'[h], hub[h], effects[h], gen)
      BY <3>3, <3>4, <3>5, <3>6 DEF RpcOK
    <3>8. RpcsOK'
      BY <1>2, <3>4, <3>7, HubRpcs
    <3>9. \A i \in DOMAIN chan'[h].toHub : chan'[h].toHub[i].t = "relay" => Known(chan'[h].toHub[i].req)
      BY <1>1, <1>4, <3>4, LaneFramesKnown
    <3>10. \A k \in Hubs : \A i \in DOMAIN chan'[k].toHub :
             chan'[k].toHub[i].t = "relay" => Known(chan'[k].toHub[i].req)
      BY <1>4, <3>4, <3>9
    <3>11. QED BY <1>2, <1>3, <1>5, <3>8, <3>10, FromKnown
  <2>3. CASE ~(current \in {None, h} /\ ~(on \/ current = None))
    <3>1. chan' = ReadFrom(h)
      BY <1>7, <2>3 DEF RecvDraining
    <3>2. QED BY <1>6, <2>1, <3>1
  <2>4. QED BY <2>2, <2>3
<1>8. CASE RecvReply(h)
  BY <1>6, <1>8 DEF RecvReply
<1>9. CASE WorkerNotices(h)
  <2>1. /\ chan'[h] = Closed /\ chan[h].link = "hubGone"
        /\ \A k \in Hubs \ {h} : chan'[k] = chan[k]
    BY <1>1, <1>9 DEF WorkerNotices
  <2>2. RpcOK(chan'[h], hub[h], effects[h], gen)
    BY <1>1, <2>1, RpcDestroyed
  <2>3. RpcsOK'
    BY <1>2, <2>1, <2>2, HubRpcs
  <2>4. \A k \in Hubs : \A i \in DOMAIN chan'[k].toHub :
          chan'[k].toHub[i].t = "relay" => Known(chan'[k].toHub[i].req)
    BY <1>4, <2>1, ClosedTyped
  <2>5. QED BY <1>2, <1>3, <1>5, <2>3, <2>4, FromKnown
<1>10. QED BY <1>7, <1>8, <1>9

\* The next process has a generation that nothing is of.
LEMMA WorkerDeathRpcs ==
  ASSUME TypeOK, Sockets, Holding, Numbered, RpcsOK, WorkerDeath
  PROVE  Numbered' /\ RpcsOK'
<1>1. /\ gen \in Nat /\ gen' = gen + 1 /\ pend' = << >> /\ UNCHANGED <<hub, effects>>
      /\ chan \in [Hubs -> Channels]
  BY DEF WorkerDeath, TypeOK, WorkerOK, ghosts
<1>2. ASSUME NEW h \in Hubs
      PROVE  /\ RpcOK(chan'[h], hub'[h], effects'[h], gen')
             /\ chan'[h].toHub \in {chan[h].toHub, << >>}
  BY <1>1, RpcFacts, DestroyedChannel, RpcDestroyed, ClosedTyped DEF WorkerDeath
<1>3. ASSUME NEW r \in Requests, Known(r)'
      PROVE  Known(r)
  BY <1>1, <1>2, <1>3 DEF Known
<1>4. gen' >= 1 /\ gen' # 0
  BY <1>1 DEF Numbered
<1>5. ASSUME NEW r \in Requests, Known(r)', r.id # 0
      PROVE  1 <= r.of /\ r.of <= gen' /\ r.of # gen'
  BY <1>1, <1>3, <1>5 DEF Numbered, Requests
<1>6. Numbered'
  BY <1>3, <1>4, <1>5 DEF Numbered
<1>7. QED BY <1>2, <1>6 DEF RpcsOK

-----------------------------------------------------------------------------
(* Hubs.                                                                   *)

\* What a hub writes to its socket, and what it reads.
LEMMA Sent ==
  ASSUME TypeOK, NEW h \in Hubs, NEW ms \in Seq(ToWorkerMsgs), chan' = ToWorker(chan, h, ms)
  PROVE  /\ \A k \in Hubs \ {h} : chan'[k] = chan[k]
         /\ chan'[h].link = chan[h].link /\ chan'[h].toHub = chan[h].toHub
         /\ chan'[h].toWorker = IF hub[h].att /\ chan[h].link = "open" THEN chan[h].toWorker \o ms
                                ELSE chan[h].toWorker
BY ToWorkerSends DEF TypeOK, ToWorker

LEMMA ReadAndSent ==
  ASSUME TypeOK, NEW h \in Hubs, NEW t, FromWorker(h, t), NEW ms \in Seq(ToWorkerMsgs),
         chan' = ToWorker(ReadBy(h), h, ms)
  PROVE  /\ \A k \in Hubs \ {h} : chan'[k] = chan[k]
         /\ chan'[h].link = chan[h].link /\ chan'[h].toHub = Tail(chan[h].toHub)
         /\ chan'[h].toWorker = IF hub[h].att /\ chan[h].link = "open" THEN chan[h].toWorker \o ms
                                ELSE chan[h].toWorker
BY ReadByHub, ToWorkerSends DEF TypeOK, ReadBy, ToWorker

\* The relay that a hub reads is of the generation it knows, and what it answers goes to that.
LEMMA RelayHead ==
  ASSUME TypeOK, Sockets, Holding, Numbered, RpcsOK, NEW h \in Hubs, FromWorker(h, "relay")
  PROVE  /\ Request(h) \in Requests /\ Known(Request(h)) /\ Proper(Request(h))
         /\ GenOf(chan[h].toHub, hub[h].gen) = hub[h].gen
         /\ GenOf(Tail(chan[h].toHub), hub[h].gen) = hub[h].gen
         /\ ~Welcomed(Tail(chan[h].toHub))
         /\ Request(h).kind # "approval" => Request(h).of = hub[h].gen /\ hub[h].gen >= 1
         /\ hub[h].att /\ chan[h].link = "open" => hub[h].gen = gen
<1>1. /\ chan \in [Hubs -> Channels] /\ chan[h].toHub \in Seq(ToHubMsgs) /\ chan[h].toHub # << >>
      /\ hub[h].gen \in Nat /\ gen \in Nat /\ QueueOK(chan[h].toHub, hub[h].gen, gen)
      /\ RpcOK(chan[h], hub[h], effects[h], gen)
  BY RpcFacts DEF FromWorker
<1>2. /\ Head(chan[h].toHub).t = "relay" /\ Head(chan[h].toHub) = chan[h].toHub[1]
      /\ 1 \in DOMAIN chan[h].toHub
  BY <1>1, ReadByHub
<1>3. Request(h) \in Requests /\ Proper(Request(h))
  BY RequestTyped, RelayRead
<1>4. Known(Request(h))
  BY <1>2, KnownAt DEF Request
<1>5. /\ GenOf(chan[h].toHub, hub[h].gen) = hub[h].gen
      /\ GenOf(Tail(chan[h].toHub), GenOf(chan[h].toHub, hub[h].gen)) = GenOf(chan[h].toHub, hub[h].gen)
      /\ Head(chan[h].toHub).req.kind # "approval" => Head(chan[h].toHub).req.of = hub[h].gen
  BY <1>1, <1>2, QueueRead
<1>6. ~Welcomed(Tail(chan[h].toHub))
  BY <1>1, WelcomeFirst
<1>7. Request(h).kind # "approval" => Request(h).of = hub[h].gen /\ hub[h].gen >= 1
  BY <1>3, <1>4, <1>5 DEF Proper, Request, Numbered, Requests
<1>8. hub[h].att /\ chan[h].link = "open" => hub[h].gen = gen
  BY <1>1, <1>5 DEF RpcOK
<1>9. QED BY <1>3, <1>4, <1>5, <1>6, <1>7, <1>8

\* A hub reads a relay, and answers and executes what it likes to.
LEMMA RelayRpcs ==
  ASSUME TypeOK, Sockets, Holding, Numbered, RpcsOK, NEW h \in Hubs, FromWorker(h, "relay"),
         UNCHANGED <<gen, seq, pend>>,
         \A k \in Hubs \ {h} : chan'[k] = chan[k] /\ hub'[k] = hub[k] /\ effects'[k] = effects[k],
         chan'[h].link = chan[h].link, chan'[h].toHub = Tail(chan[h].toHub),
         chan'[h].link = "workerGone" => chan'[h].toWorker = chan[h].toWorker,
         RepliesOK(chan'[h].toWorker, effects'[h], gen),
         hub'[h].att = hub[h].att, hub'[h].gen = hub[h].gen,
         effects'[h] = effects[h] \/ effects'[h] = Append(effects[h], Request(h)),
         CallsOK(hub'[h], effects'[h])
  PROVE  Numbered' /\ RpcsOK'
<1>1. /\ RpcOK(chan[h], hub[h], effects[h], gen) /\ effects[h] \in Seq(Requests)
      /\ chan[h].toHub # << >>
  BY RpcFacts DEF FromWorker
<1>2. RpcOK(chan'[h], hub'[h], effects'[h], gen)
  BY <1>1, RelayHead DEF RpcOK
<1>3. \A i \in DOMAIN effects'[h] : Known(effects'[h][i])
  <2>1. Request(h) \in Requests /\ Known(Request(h))
    BY RelayHead
  <2>2. \A i \in DOMAIN effects'[h] :
          effects'[h][i] = Request(h) \/ (i \in DOMAIN effects[h] /\ effects'[h][i] = effects[h][i])
    BY <1>1, <2>1, DidLast
  <2>3. QED BY <2>1, <2>2, KnownAt
<1>4. Numbered'
  BY <1>1, <1>3, QueueKnown
<1>5. QED BY <1>2, <1>4, HubRpcs

\* What a hub sends.
LEMMA RepliesSent ==
  ASSUME TypeOK, Sockets, Holding, RpcsOK, NEW h \in Hubs, NEW ms \in Seq(ToWorkerMsgs),
         effects'[h] = effects[h] \/ \E r \in Requests : effects'[h] = Append(effects[h], r),
         chan'[h].link = chan[h].link,
         chan'[h].toWorker = IF hub[h].att /\ chan[h].link = "open" THEN chan[h].toWorker \o ms
                             ELSE chan[h].toWorker,
         hub[h].att /\ chan[h].link = "open" => RepliesOK(ms, effects'[h], gen)
  PROVE  /\ RepliesOK(chan'[h].toWorker, effects'[h], gen)
         /\ chan'[h].link = "workerGone" => chan'[h].toWorker = chan[h].toWorker
<1>1. /\ RpcOK(chan[h], hub[h], effects[h], gen) /\ effects[h] \in Seq(Requests)
      /\ chan[h].toWorker \in Seq(ToWorkerMsgs)
  BY RpcFacts
<1>2. RepliesOK(chan[h].toWorker, effects'[h], gen)
  BY <1>1, DidMore DEF RpcOK
<1>3. QED BY <1>1, <1>2, RepliesBehind

LEMMA OneReply ==
  ASSUME NEW r, NEW of, NEW by, NEW who, NEW es, NEW top,
         r.id # 0 => of = top /\ Did(es, r.id, of)
  PROVE  RepliesOK(<<Reply(r, of, by, who)>>, es, top)
BY DEF RepliesOK, Reply

LEMMA ServeRpcs ==
  ASSUME TypeOK, Sockets, Holding, Numbered, RpcsOK, NEW h \in Hubs, ServeWrite(h) \/ StartAction(h)
  PROVE  Numbered' /\ RpcsOK'
<1>1. /\ hub \in [Hubs -> HubStates] /\ hub[h] \in HubStates /\ h \in Nat
      /\ effects[h] \in Seq(Requests) /\ effects \in [Hubs -> Seq(Requests)]
      /\ chan \in [Hubs -> Channels]
      /\ RpcOK(chan[h], hub[h], effects[h], gen) /\ hub[h].running \in Seq(Requests)
  BY RpcFacts DEF HubStates, TypeOK, GhostsOK
<1> DEFINE r == Request(h)
<1>2. /\ FromWorker(h, "relay") /\ r \in Requests /\ r.id \in Nat /\ r.of \in Nat
      /\ r.kind # "approval" /\ r.id # 0 /\ r.of = hub[h].gen /\ hub[h].gen >= 1
      /\ hub[h].att /\ chan[h].link = "open" => hub[h].gen = gen
  BY RelayHead, RequestTyped DEF ServeWrite, StartAction, Proper
<1> HIDE DEF r
<1>3. UNCHANGED <<gen, seq, pend>>
  BY DEF ServeWrite, StartAction, worker
<1>4. CallsOK(hub[h], effects[h])
  BY <1>1 DEF RpcOK
<1>5. CASE ServeWrite(h)
  <2> DEFINE hits == {s \in hub[h].served : s.id = r.id}
  <2>1. CASE hits # {}
    <3>1. PICK s \in hits : chan' = ToWorker(ReadBy(h), h, <<Reply(r, s.of, h, "hub")>>)
      BY <1>5, <2>1 DEF ServeWrite, r
    <3>2. UNCHANGED <<hub, effects>>
      BY <1>5, <2>1 DEF ServeWrite, r
    <3>3. s.of = hub[h].gen /\ Did(effects[h], r.id, s.of) /\ s.of \in Nat
      BY <1>1, <1>2, <1>4 DEF CallsOK
    <3>4. <<Reply(r, s.of, h, "hub")>> \in Seq(ToWorkerMsgs)
      BY <1>1, <1>2, <3>3, ReplyTyped, OneElement
    <3>5. hub[h].att /\ chan[h].link = "open" => RepliesOK(<<Reply(r, s.of, h, "hub")>>, effects'[h], gen)
      BY <1>2, <3>2, <3>3, OneReply
    <3>6. /\ \A k \in Hubs \ {h} : chan'[k] = chan[k]
          /\ chan'[h].link = chan[h].link /\ chan'[h].toHub = Tail(chan[h].toHub)
          /\ chan'[h].toWorker = IF hub[h].att /\ chan[h].link = "open"
                                 THEN chan[h].toWorker \o <<Reply(r, s.of, h, "hub")>> ELSE chan[h].toWorker
      BY <1>2, <3>1, <3>4, ReadAndSent
    <3>7. /\ RepliesOK(chan'[h].toWorker, effects'[h], gen)
          /\ chan'[h].link = "workerGone" => chan'[h].toWorker = chan[h].toWorker
      BY <3>2, <3>4, <3>5, <3>6, RepliesSent
    <3>8. QED BY <1>2, <1>3, <1>4, <3>2, <3>6, <3>7, RelayRpcs
  <2>2. CASE hits = {}
    <3>1. /\ chan' = ToWorker(ReadBy(h), h, <<Reply(r, r.of, h, "hub")>>)
          /\ hub' = [hub EXCEPT ![h].served = @ \cup {[id |-> r.id, of |-> r.of]}]
          /\ effects' = [effects EXCEPT ![h] = Append(@, r)]
      BY <1>5, <2>2 DEF ServeWrite, Executed, r
    <3>2. /\ effects'[h] = Append(effects[h], r)
          /\ \A k \in Hubs \ {h} : hub'[k] = hub[k] /\ effects'[k] = effects[k]
      BY <1>1, <3>1
    <3>3. /\ hub'[h].att = hub[h].att /\ hub'[h].gen = hub[h].gen /\ hub'[h].running = hub[h].running
          /\ hub'[h].served = hub[h].served \cup {[id |-> r.id, of |-> r.of]}
      BY <1>1, <3>1 DEF HubStates
    <3>4. /\ Did(effects'[h], r.id, r.of)
          /\ \A id, of : Did(effects[h], id, of) => Did(effects'[h], id, of)
      <4>1. Did(Append(effects[h], r), r.id, r.of)
        BY <1>1, <1>2, DidLast
      <4>2. \E q \in Requests : effects'[h] = Append(effects[h], q)
        BY <1>2, <3>2
      <4>3. \A id, of : Did(effects[h], id, of) => Did(effects'[h], id, of)
        BY <1>1, <4>2, DidMore
      <4>4. QED BY <3>2, <4>1, <4>3
    <3>5. CallsOK(hub'[h], effects'[h])
      BY <1>1, <1>2, <1>4, <3>3, <3>4 DEF CallsOK
    <3>6. <<Reply(r, r.of, h, "hub")>> \in Seq(ToWorkerMsgs)
      BY <1>1, <1>2, ReplyTyped, OneElement
    <3>7. hub[h].att /\ chan[h].link = "open" => RepliesOK(<<Reply(r, r.of, h, "hub")>>, effects'[h], gen)
      BY <1>2, <3>4, OneReply
    <3>8. /\ \A k \in Hubs \ {h} : chan'[k] = chan[k]
          /\ chan'[h].link = chan[h].link /\ chan'[h].toHub = Tail(chan[h].toHub)
          /\ chan'[h].toWorker = IF hub[h].att /\ chan[h].link = "open"
                                 THEN chan[h].toWorker \o <<Reply(r, r.of, h, "hub")>> ELSE chan[h].toWorker
      BY <1>2, <3>1, <3>6, ReadAndSent
    <3>9. /\ RepliesOK(chan'[h].toWorker, effects'[h], gen)
          /\ chan'[h].link = "workerGone" => chan'[h].toWorker = chan[h].toWorker
      BY <1>2, <3>2, <3>6, <3>7, <3>8, RepliesSent
    <3>10. QED BY <1>2, <1>3, <3>2, <3>3, <3>5, <3>8, <3>9, RelayRpcs DEF r
  <2>3. QED BY <2>1, <2>2
<1>6. CASE StartAction(h)
  <2>1. /\ chan' = ReadBy(h)
        /\ hub' = [hub EXCEPT ![h].running = Append(@, r)]
        /\ effects' = [effects EXCEPT ![h] = Append(@, r)]
    BY <1>6 DEF StartAction, Executed, r
  <2>2. /\ effects'[h] = Append(effects[h], r)
        /\ \A k \in Hubs \ {h} : hub'[k] = hub[k] /\ effects'[k] = effects[k]
    BY <1>1, <2>1
  <2>3. /\ hub'[h].att = hub[h].att /\ hub'[h].gen = hub[h].gen /\ hub'[h].served = hub[h].served
        /\ hub'[h].running = Append(hub[h].running, r)
    BY <1>1, <2>1 DEF HubStates
  <2>4. /\ Did(effects'[h], r.id, r.of)
        /\ \A id, of : Did(effects[h], id, of) => Did(effects'[h], id, of)
        /\ \A q, top : RepliesOK(q, effects[h], top) => RepliesOK(q, effects'[h], top)
    <3>1. Did(Append(effects[h], r), r.id, r.of)
      BY <1>1, <1>2, DidLast
    <3>2. \E q \in Requests : effects'[h] = Append(effects[h], q)
      BY <1>2, <2>2
    <3>3. /\ \A id, of : Did(effects[h], id, of) => Did(effects'[h], id, of)
          /\ \A q, top : RepliesOK(q, effects[h], top) => RepliesOK(q, effects'[h], top)
      BY <1>1, <3>2, DidMore
    <3>4. QED BY <2>2, <3>1, <3>3
  <2>5. \A i \in DOMAIN hub'[h].running :
          \/ hub'[h].running[i] = r
          \/ i \in DOMAIN hub[h].running /\ hub'[h].running[i] = hub[h].running[i]
    BY <1>1, <1>2, <2>3, DidLast
  <2>6. CallsOK(hub'[h], effects'[h])
    BY <1>2, <1>4, <2>3, <2>4, <2>5 DEF CallsOK
  <2>7. /\ chan'[h].link = chan[h].link /\ chan'[h].toHub = Tail(chan[h].toHub)
        /\ chan'[h].toWorker = chan[h].toWorker
        /\ \A k \in Hubs \ {h} : chan'[k] = chan[k]
    BY <1>1, <1>2, <2>1, ReadByHub DEF ReadBy
  <2>8. RepliesOK(chan'[h].toWorker, effects'[h], gen)
    BY <1>1, <2>4, <2>7 DEF RpcOK
  <2>9. QED BY <1>2, <1>3, <2>2, <2>3, <2>6, <2>7, <2>8, RelayRpcs DEF r
<1>7. QED BY <1>5, <1>6

\* A hub sends what nobody asked for, or answers later.
LEMMA SendingRpcs ==
  ASSUME TypeOK, Sockets, Holding, Numbered, RpcsOK, NEW h \in Hubs,
         NEW ms \in Seq(ToWorkerMsgs), chan' = ToWorker(chan, h, ms),
         UNCHANGED <<gen, seq, pend, effects>>, \A k \in Hubs \ {h} : hub'[k] = hub[k],
         hub'[h].att = hub[h].att, hub'[h].gen = hub[h].gen,
         CallsOK(hub'[h], effects[h]), RepliesOK(ms, effects[h], gen)
  PROVE  Numbered' /\ RpcsOK'
<1>1. RpcOK(chan[h], hub[h], effects[h], gen)
  BY RpcFacts
<1>2. /\ \A k \in Hubs \ {h} : chan'[k] = chan[k]
      /\ chan'[h].link = chan[h].link /\ chan'[h].toHub = chan[h].toHub
      /\ chan'[h].toWorker = IF hub[h].att /\ chan[h].link = "open" THEN chan[h].toWorker \o ms
                             ELSE chan[h].toWorker
  BY Sent
<1>3. /\ RepliesOK(chan'[h].toWorker, effects[h], gen)
      /\ chan'[h].link = "workerGone" => chan'[h].toWorker = chan[h].toWorker
  BY <1>2, RepliesSent
<1>4. RpcOK(chan'[h], hub'[h], effects[h], gen)
  BY <1>1, <1>2, <1>3 DEF RpcOK
<1>5. RpcsOK'
  BY <1>2, <1>4, HubRpcs
<1>6. Numbered'
  BY <1>2, KnownAt, QueueKnown
<1>7. QED BY <1>5, <1>6

\* An rpc that was started for an earlier process is not answered.
LEMMA FinishRpcs ==
  ASSUME TypeOK, Sockets, Holding, Numbered, RpcsOK, NEW h \in Hubs, FinishAction(h),
         "staleReply" \notin Env
  PROVE  Numbered' /\ RpcsOK'
<1>1. /\ hub \in [Hubs -> HubStates] /\ hub[h] \in HubStates /\ h \in Nat
      /\ RpcOK(chan[h], hub[h], effects[h], gen) /\ hub[h].running \in Seq(Requests)
      /\ UNCHANGED <<gen, seq, pend, effects>>
  BY RpcFacts DEF HubStates, FinishAction, worker, ghosts
<1>2. PICK i \in DOMAIN hub[h].running :
        /\ hub[h].running[i].of = gen
        /\ hub' = [hub EXCEPT ![h].running = Without(@, i)]
        /\ chan' = ToWorker(chan, h, <<Reply(hub[h].running[i], hub[h].running[i].of, h, "hub")>>)
  BY DEF FinishAction
<1> DEFINE r == hub[h].running[i]
<1>3. r \in Requests /\ r.id \in Nat /\ r.of \in Nat
  <2>1. r \in Requests
    BY <1>1, <1>2
  <2>2. QED BY <2>1 DEF Requests
<1>4. r.of = gen /\ Did(effects[h], r.id, r.of)
  BY <1>1, <1>2 DEF RpcOK, CallsOK
<1>5. /\ \A k \in Hubs \ {h} : hub'[k] = hub[k]
      /\ hub'[h].att = hub[h].att /\ hub'[h].gen = hub[h].gen /\ hub'[h].served = hub[h].served
      /\ hub'[h].running = Without(hub[h].running, i)
  BY <1>1, <1>2 DEF HubStates
<1>6. \A k \in DOMAIN hub'[h].running : \E j \in DOMAIN hub[h].running : hub'[h].running[k] = hub[h].running[j]
  BY <1>1, <1>5, WithoutTyped
<1>7. CallsOK(hub'[h], effects[h])
  BY <1>1, <1>5, <1>6 DEF CallsOK, RpcOK
<1>8. chan' = ToWorker(chan, h, <<Reply(r, r.of, h, "hub")>>)
  BY <1>2
<1> HIDE DEF r
<1>9. /\ <<Reply(r, r.of, h, "hub")>> \in Seq(ToWorkerMsgs)
      /\ RepliesOK(<<Reply(r, r.of, h, "hub")>>, effects[h], gen)
  BY <1>1, <1>3, <1>4, ReplyTyped, OneElement, OneReply
<1>10. QED BY <1>1, <1>5, <1>7, <1>8, <1>9, SendingRpcs

\* Requests for approval are answered by none of the replies to rpcs.
LEMMA ApprovalRpcs ==
  ASSUME TypeOK, Sockets, Holding, Numbered, RpcsOK, NEW h \in Hubs,
         \/ JoinAsk(h) \/ RecoverDecision(h) \/ AutoApprove(h) \/ AskOperator(h)
         \/ Decide(h) \/ Expire(h) \/ CloseWindow(h)
  PROVE  Numbered' /\ RpcsOK'
<1>1. /\ hub \in [Hubs -> HubStates] /\ hub[h] \in HubStates /\ h \in Nat
      /\ chan \in [Hubs -> Channels]
      /\ RpcOK(chan[h], hub[h], effects[h], gen) /\ CallsOK(hub[h], effects[h])
  BY RpcFacts DEF RpcOK
<1>2. UNCHANGED <<gen, seq, pend, effects>>
  BY DEF JoinAsk, RecoverDecision, AutoApprove, AskOperator, Decide, Expire, CloseWindow, worker, ghosts
<1>3. /\ \A k \in Hubs \ {h} : hub'[k] = hub[k]
      /\ hub'[h].att = hub[h].att /\ hub'[h].gen = hub[h].gen /\ hub'[h].served = hub[h].served
      /\ hub'[h].running = hub[h].running
  BY <1>1 DEF JoinAsk, AskOperator, HubStates, RecoverDecision, AutoApprove, CloseWindow, Decide, Expire,
     Finish
<1>4. CallsOK(hub'[h], effects[h])
  BY <1>1, <1>3 DEF CallsOK
<1>5. CASE JoinAsk(h) \/ AskOperator(h)
  <2>1. FromWorker(h, "relay") /\ chan' = ReadBy(h)
    BY <1>5 DEF JoinAsk, AskOperator, AskArrives
  <2>2. /\ chan'[h].link = chan[h].link /\ chan'[h].toHub = Tail(chan[h].toHub)
        /\ chan'[h].toWorker = chan[h].toWorker
        /\ \A k \in Hubs \ {h} : chan'[k] = chan[k]
    BY <1>1, <2>1, ReadByHub DEF ReadBy
  <2>3. RepliesOK(chan'[h].toWorker, effects'[h], gen)
    BY <1>1, <1>2, <2>2 DEF RpcOK
  <2>4. QED BY <1>2, <1>3, <1>4, <2>1, <2>2, <2>3, RelayRpcs
<1>6. CASE RecoverDecision(h) \/ AutoApprove(h)
  <2>1. FromWorker(h, "relay") /\ Request(h).kind = "approval"
    BY <1>6 DEF RecoverDecision, AutoApprove, AskArrives
  <2>2. Request(h).id \in Nat /\ Request(h).of \in Nat /\ Request(h).id = 0
    BY <2>1, RequestTyped, RelayRead DEF Proper
  <2>3. PICK of \in Nat, by \in Nat, who \in Deciders :
          chan' = ToWorker(ReadBy(h), h, <<Reply(Request(h), of, by, who)>>)
    BY <1>1, <1>6, <2>2 DEF TypeOK, DurableOK, Deciders, RecoverDecision, Recorded, AutoApprove
  <2> DEFINE ms == <<Reply(Request(h), of, by, who)>>
  <2>4. ms \in Seq(ToWorkerMsgs) /\ RepliesOK(ms, effects'[h], gen)
    BY <2>2, ReplyTyped, OneElement, OneReply
  <2>5. chan' = ToWorker(ReadBy(h), h, ms)
    BY <2>3
  <2> HIDE DEF ms
  <2>6. /\ \A k \in Hubs \ {h} : chan'[k] = chan[k]
        /\ chan'[h].link = chan[h].link /\ chan'[h].toHub = Tail(chan[h].toHub)
        /\ chan'[h].toWorker = IF hub[h].att /\ chan[h].link = "open" THEN chan[h].toWorker \o ms
                               ELSE chan[h].toWorker
    BY <2>1, <2>4, <2>5, ReadAndSent
  <2>7. /\ RepliesOK(chan'[h].toWorker, effects'[h], gen)
        /\ chan'[h].link = "workerGone" => chan'[h].toWorker = chan[h].toWorker
    BY <1>2, <2>4, <2>6, RepliesSent
  <2>8. QED BY <1>2, <1>3, <1>4, <2>1, <2>6, <2>7, RelayRpcs
<1>7. CASE Decide(h) \/ Expire(h)
  <2>1. PICK who \in Deciders : Finish(h, who)
    BY <1>7 DEF Decide, Expire, Deciders
  <2> DEFINE m  == Reply([id |-> 0], hub[h].asked, h, who)
             ms == [i \in 1 .. hub[h].waiting |-> m]
  <2>2. m \in ToWorkerMsgs /\ m.id = 0 /\ hub[h].waiting \in Nat
    BY <1>1, ReplyTyped DEF HubStates, Reply
  <2>3. chan' = ToWorker(chan, h, ms)
    BY <2>1 DEF Finish
  <2> HIDE DEF m
  <2>4. ms \in Seq(ToWorkerMsgs) /\ RepliesOK(ms, effects[h], gen)
    BY <2>2 DEF RepliesOK
  <2> HIDE DEF ms
  <2>5. QED BY <1>2, <1>3, <1>4, <2>3, <2>4, SendingRpcs
<1>8. CASE CloseWindow(h)
  <2>1. UNCHANGED chan
    BY <1>8 DEF CloseWindow
  <2>2. RpcOK(chan'[h], hub'[h], effects[h], gen)
    BY <1>1, <1>3, <1>4, <2>1 DEF RpcOK
  <2>3. RpcsOK'
    BY <1>2, <1>3, <2>1, <2>2, HubRpcs
  <2>4. Numbered'
    BY <1>2, <2>1, NumbersKept DEF Known
  <2>5. QED BY <2>3, <2>4
<1>9. QED BY <1>5, <1>6, <1>7, <1>8

\* A socket opens, is welcomed, and closes.
LEMMA SocketRpcs ==
  ASSUME TypeOK, Sockets, Holding, Numbered, RpcsOK, NEW h \in Hubs,
         Connect(h) \/ HubNotices(h) \/ RecvWelcome(h) \/ Flap(h)
  PROVE  Numbered' /\ RpcsOK'
<1>1. /\ hub \in [Hubs -> HubStates] /\ hub[h] \in HubStates
      /\ chan \in [Hubs -> Channels] /\ chan[h].toHub \in Seq(ToHubMsgs)
      /\ RpcOK(chan[h], hub[h], effects[h], gen) /\ CallsOK(hub[h], effects[h])
      /\ QueueOK(chan[h].toHub, hub[h].gen, gen)
      /\ hub[h].gen \in Nat /\ gen \in Nat /\ pend \in Seq(Relays)
  BY RpcFacts DEF RpcOK
<1>2. UNCHANGED <<gen, seq, effects>>
  BY DEF Connect, HubNotices, RecvWelcome, Flap, worker, ghosts
<1>3. \A i \in DOMAIN effects'[h] : Known(effects'[h][i])
  BY <1>2, KnownAt
<1>4. CASE Connect(h)
  <2>1. /\ chan'[h] = [link |-> "open", toHub |-> << >>, toWorker |-> <<Hello(hub[h].epoch)>>]
        /\ chan[h].link = "none" /\ UNCHANGED <<hub, pend>>
        /\ \A k \in Hubs \ {h} : chan'[k] = chan[k]
    BY <1>1, <1>4 DEF Connect, Closed, worker
  <2>2. RepliesOK(chan'[h].toWorker, effects[h], gen)
    BY <2>1 DEF RepliesOK, Hello
  <2>3. RpcOK(chan'[h], hub'[h], effects[h], gen)
    BY <1>1, <2>1, <2>2 DEF RpcOK, Welcomed
  <2>4. RpcsOK'
    BY <1>2, <2>1, <2>3, HubRpcs
  <2>5. Numbered'
    BY <1>2, <1>3, <2>1, QueueKnown
  <2>6. QED BY <2>4, <2>5
<1>5. CASE HubNotices(h)
  <2>1. /\ chan'[h] = Closed /\ ~hub'[h].att /\ UNCHANGED pend
        /\ hub'[h].gen = hub[h].gen /\ hub'[h].served = hub[h].served /\ hub'[h].running = hub[h].running
        /\ \A k \in Hubs \ {h} : chan'[k] = chan[k] /\ hub'[k] = hub[k]
    BY <1>1, <1>5 DEF HubNotices, HubStates, worker
  <2>2. chan'[h].link # "open" /\ chan'[h].toHub = << >> /\ chan'[h].toWorker = << >>
    BY <2>1 DEF Closed
  <2>3. RpcOK(chan'[h], hub'[h], effects[h], gen)
    BY <1>1, <2>1, <2>2, RpcClosed
  <2>4. RpcsOK'
    BY <1>2, <2>1, <2>3, HubRpcs
  <2>5. Numbered'
    BY <1>2, <1>3, <2>1, <2>2, QueueKnown
  <2>6. QED BY <2>4, <2>5
<1>6. CASE RecvWelcome(h)
  <2> DEFINE g == Head(chan[h].toHub).gen
  <2>1. /\ FromWorker(h, "welcome") /\ chan' = ReadBy(h) /\ UNCHANGED pend
        /\ chan[h].toHub # << >> /\ chan[h].link \in {"open", "workerGone"}
    BY <1>6 DEF RecvWelcome, FromWorker, worker
  <2>2. hub' = [hub EXCEPT ![h].att = TRUE, ![h].gen = g,
                           ![h].served = IF hub[h].gen \in {0, g} THEN @ ELSE {}]
    BY <1>6 DEF RecvWelcome
  <2>3. /\ chan'[h].link = chan[h].link /\ chan'[h].toHub = Tail(chan[h].toHub)
        /\ chan'[h].toWorker = chan[h].toWorker
        /\ Head(chan[h].toHub).t = "welcome" /\ Head(chan[h].toHub) = chan[h].toHub[1]
        /\ \A k \in Hubs \ {h} : chan'[k] = chan[k]
    BY <1>1, <2>1, ReadByHub DEF ReadBy
  <2>4. /\ GenOf(chan[h].toHub, hub[h].gen) = g
        /\ GenOf(Tail(chan[h].toHub), GenOf(chan[h].toHub, hub[h].gen)) = GenOf(chan[h].toHub, hub[h].gen)
    BY <1>1, <2>1, <2>3, QueueRead
  <2>5. Welcomed(chan[h].toHub)
    BY <2>1, <2>3 DEF Welcomed
  <2> HIDE DEF g
  <2>6. /\ hub'[h].att /\ hub'[h].gen = g /\ hub'[h].running = hub[h].running
        /\ hub'[h].served = IF hub[h].gen \in {0, g} THEN hub[h].served ELSE {}
        /\ \A k \in Hubs \ {h} : hub'[k] = hub[k]
    BY <1>1, <2>2 DEF HubStates
  <2>7. CallsOK(hub'[h], effects[h])
    BY <1>1, <2>6 DEF CallsOK
  <2>8. RpcOK(chan'[h], hub'[h], effects[h], gen)
    BY <1>1, <2>1, <2>3, <2>4, <2>5, <2>6, <2>7 DEF RpcOK
  <2>9. RpcsOK'
    BY <1>2, <2>3, <2>6, <2>8, HubRpcs
  <2>10. Numbered'
    BY <1>2, <1>3, <2>1, <2>3, QueueKnown
  <2>11. QED BY <2>9, <2>10
<1>7. CASE Flap(h)
  <2>1. /\ chan'[h].link # "open" /\ chan'[h].toHub = << >> /\ chan'[h].toWorker = << >>
        /\ hub'[h].att => hub[h].att /\ chan'[h].link = "workerGone"
        /\ \A k \in Hubs \ {h} : chan'[k] = chan[k] /\ hub'[k] = hub[k]
    BY <1>1, <1>7 DEF Closed, HubStates, Flap
  <2>2. /\ hub'[h].gen = hub[h].gen /\ hub'[h].served = hub[h].served /\ hub'[h].running = hub[h].running
        /\ pend' \in {pend, Detached(pend)}
    BY <1>1, <1>7, SMTT(60) DEF Flap, HubStates
  <2>3. RpcOK(chan'[h], hub'[h], effects[h], gen)
    BY <1>1, <2>1, <2>2, RpcClosed
  <2>4. RpcsOK'
    BY <1>2, <2>1, <2>3, HubRpcs
  <2>5. \A i \in DOMAIN pend' : Known(pend'[i].req)
    BY <1>1, <2>2, LaneKnown
  <2>6. \A k \in Hubs : \A i \in DOMAIN chan'[k].toHub :
          chan'[k].toHub[i].t = "relay" => Known(chan'[k].toHub[i].req)
    BY <2>1, KnownAt
  <2>7. \A k \in Hubs : \A i \in DOMAIN effects'[k] : Known(effects'[k][i])
    BY <1>2, KnownAt
  <2>8. QED BY <1>2, <2>4, <2>5, <2>6, <2>7, FromKnown
<1>8. QED BY <1>4, <1>5, <1>6, <1>7

LEMMA SupervisorRpcs ==
  ASSUME TypeOK, Sockets, Holding, Numbered, RpcsOK, NEW h \in Hubs,
         Supervision(h) \/ BootGreen(h) \/ GreenDies(h) \/ HubCrash(h)
  PROVE  Numbered' /\ RpcsOK'
<1>1. /\ hub \in [Hubs -> HubStates] /\ hub[h] \in HubStates
      /\ chan \in [Hubs -> Channels] /\ chan[h] \in Channels
      /\ chan[h].link \in {"none", "open", "hubGone", "workerGone"}
      /\ SocketOK(h, chan[h], hub[h], current, gen)
      /\ RpcOK(chan[h], hub[h], effects[h], gen) /\ CallsOK(hub[h], effects[h])
  BY RpcFacts DEF TypeOK, RpcOK
<1>2. UNCHANGED <<gen, seq, pend, effects>>
  BY DEF Supervision, Drain, Promote, Retire, Rollback, Revive, BootGreen, GreenDies, HubCrash, worker, ghosts
<1>3. \A i \in DOMAIN effects'[h] : Known(effects'[h][i])
  BY <1>2, KnownAt
<1>4. CASE Retire(h) \/ GreenDies(h) \/ HubCrash(h)
  <2>1. Die(h)
    BY <1>4 DEF Retire, GreenDies, HubCrash
  <2>2. /\ \A k \in Hubs \ {h} : chan'[k] = chan[k] /\ hub'[k] = hub[k]
        /\ ~hub'[h].att /\ hub'[h].served = {} /\ hub'[h].running = << >>
    BY <1>1, <2>1 DEF Die, NoHub
  <2>3. /\ chan'[h].link \notin {"open", "workerGone"} /\ chan'[h].toHub \in {chan[h].toHub, << >>}
        /\ chan'[h].toWorker \in {chan[h].toWorker, << >>}
    <3>1. CASE chan[h].link = "open"
      BY <1>1, <2>1, <3>1 DEF Die, Channels
    <3>2. CASE chan[h].link = "hubGone"
      BY <1>1, <2>1, <3>2 DEF Die
    <3>3. CASE chan[h].link \in {"none", "workerGone"}
      BY <1>1, <2>1, <3>3 DEF Die, Closed
    <3>4. QED BY <1>1, <3>1, <3>2, <3>3
  <2>4. RpcOK(chan'[h], hub'[h], effects[h], gen)
    BY <1>1, <2>2, <2>3 DEF RpcOK, RepliesOK, CallsOK
  <2>5. RpcsOK'
    BY <1>2, <2>2, <2>4, HubRpcs
  <2>6. QED BY <1>2, <1>3, <2>2, <2>3, <2>5, QueueKnown
<1>5. CASE Revive(h) \/ BootGreen(h)
  <2>1. /\ hub[h].role = "off" /\ UNCHANGED chan
        /\ \A k \in Hubs \ {h} : hub'[k] = hub[k]
        /\ ~hub'[h].att /\ hub'[h].served = {} /\ hub'[h].running = << >>
    BY <1>1, <1>5 DEF Revive, BootGreen, Startable, Start, NewHub, NoHub
  <2>2. chan[h].link \notin {"open", "workerGone"}
    BY <1>1, <2>1 DEF SocketOK, AliveRoles
  <2>3. CallsOK(hub'[h], effects[h])
    BY <2>1 DEF CallsOK
  <2>4. RpcOK(chan'[h], hub'[h], effects[h], gen)
    BY <1>1, <2>1, <2>2, <2>3 DEF RpcOK
  <2>5. RpcsOK'
    BY <1>2, <2>1, <2>4, HubRpcs
  <2>6. QED BY <1>2, <1>3, <2>1, <2>5, QueueKnown
<1>6. CASE Drain(h) \/ Promote(h) \/ Rollback(h)
  <2>1. /\ \A k \in Hubs \ {h} : hub'[k] = hub[k]
        /\ hub'[h].att = hub[h].att /\ hub'[h].gen = hub[h].gen /\ hub'[h].served = hub[h].served
        /\ hub'[h].running = hub[h].running
        /\ \/ UNCHANGED chan
           \/ \E on \in BOOLEAN : chan' = ToWorker(chan, h, <<Draining(on)>>)
    <3>1. CASE Drain(h)
      BY <1>1, <3>1 DEF Drain, HubStates
    <3>2. CASE Promote(h)
      BY <1>1, <3>2 DEF Promote, HubStates
    <3>3. CASE Rollback(h) /\ hub[h].att
      BY <1>1, <3>3 DEF Rollback, HubStates
    <3>4. CASE Rollback(h) /\ ~hub[h].att
      BY <1>1, <3>4 DEF Rollback, HubStates
    <3>5. QED BY <1>6, <3>1, <3>2, <3>3, <3>4
  <2>2. CallsOK(hub'[h], effects[h])
    BY <1>1, <2>1 DEF CallsOK
  <2>3. CASE UNCHANGED chan
    BY <1>1, <1>2, <1>3, <2>1, <2>2, <2>3, HubRpcs, QueueKnown DEF RpcOK
  <2>4. CASE \E on \in BOOLEAN : chan' = ToWorker(chan, h, <<Draining(on)>>)
    <3>1. PICK on \in BOOLEAN : chan' = ToWorker(chan, h, <<Draining(on)>>)
      BY <2>4
    <3>2. /\ <<Draining(on)>> \in Seq(ToWorkerMsgs) /\ RepliesOK(<<Draining(on)>>, effects[h], gen)
      BY MessagesTyped, OneElement DEF RepliesOK, Draining
    <3>3. QED BY <1>2, <2>1, <2>2, <3>1, <3>2, SendingRpcs
  <2>5. QED BY <2>1, <2>3, <2>4
<1>7. QED BY <1>4, <1>5, <1>6 DEF Supervision

LEMMA RpcsStep ==
  "staleReply" \notin Env => (RInv /\ [Next]_vars => RInv')
<1> SUFFICES ASSUME "staleReply" \notin Env, RInv, [Next]_vars PROVE RInv'
  OBVIOUS
<1>1. /\ TypeOK /\ Sockets /\ LaneOK(pend, gen) /\ Holding /\ Numbered /\ RpcsOK /\ AnsweredByItself
      /\ HInv'
  BY HoldingStep DEF RInv, HInv, IInv
<1>2. SUFFICES Numbered' /\ RpcsOK' /\ AnsweredByItself'
  BY <1>1 DEF RInv
<1>3. CASE UNCHANGED vars
  BY <1>1, <1>3, NumbersKept, AnswersKept DEF vars, worker, ghosts, Known, RpcsOK
<1>4. CASE Next
  <2>1. CASE Call \/ Ask \/ RelayTimeout
    BY <1>1, <2>1, AgentRpcs
  <2>2. CASE WorkerDeath
    BY <1>1, <2>2, WorkerDeathRpcs, AnswersKept DEF WorkerDeath, ghosts
  <2>3. ASSUME NEW h \in Hubs,
               \/ WorkerSteps(h) \/ HubSteps(h) \/ Supervision(h)
               \/ FinishAction(h) \/ Decide(h) \/ Expire(h) \/ CloseWindow(h)
               \/ BootGreen(h) \/ GreenDies(h) \/ HubCrash(h) \/ Flap(h)
        PROVE  Numbered' /\ RpcsOK' /\ AnsweredByItself'
    <3>1. CASE RecvReply(h)
      BY <1>1, <3>1, WorkerReadRpcs, ReplyAnswers
    <3>2. CASE ~RecvReply(h)
      <4>1. Numbered' /\ RpcsOK'
        <5>1. CASE RecvHello(h)
          BY <1>1, <5>1, AttachRpcs
        <5>2. CASE RecvDraining(h) \/ WorkerNotices(h)
          BY <1>1, <5>2, WorkerReadRpcs
        <5>3. CASE ServeWrite(h) \/ StartAction(h)
          BY <1>1, <5>3, ServeRpcs
        <5>4. CASE FinishAction(h)
          BY <1>1, <5>4, FinishRpcs
        <5>5. CASE \/ JoinAsk(h) \/ RecoverDecision(h) \/ AutoApprove(h) \/ AskOperator(h)
                   \/ Decide(h) \/ Expire(h) \/ CloseWindow(h)
          BY <1>1, <5>5, ApprovalRpcs
        <5>6. CASE Connect(h) \/ HubNotices(h) \/ RecvWelcome(h) \/ Flap(h)
          BY <1>1, <5>6, SocketRpcs
        <5>7. CASE Supervision(h) \/ BootGreen(h) \/ GreenDies(h) \/ HubCrash(h)
          BY <1>1, <5>7, SupervisorRpcs
        <5>8. QED BY <2>3, <3>2, <5>1, <5>2, <5>3, <5>4, <5>5, <5>6, <5>7 DEF WorkerSteps, HubSteps
      <4>2. UNCHANGED answers
        <5>1. CASE WorkerSteps(h)
          BY <3>2, <5>1 DEF WorkerSteps, RecvHello, RecvDraining, WorkerNotices, ghosts
        <5>2. CASE HubSteps(h)
          BY <5>2 DEF HubSteps, Connect, HubNotices, RecvWelcome, ServeWrite, StartAction,
                      JoinAsk, RecoverDecision, AutoApprove, AskOperator, ghosts
        <5>3. CASE Supervision(h)
          BY <5>3 DEF Supervision, Drain, Promote, Retire, Rollback, Revive, ghosts
        <5>4. CASE \/ FinishAction(h) \/ Decide(h) \/ Expire(h) \/ CloseWindow(h)
                   \/ BootGreen(h) \/ GreenDies(h) \/ HubCrash(h) \/ Flap(h)
          BY <5>4 DEF FinishAction, Decide, Expire, CloseWindow, BootGreen, GreenDies, HubCrash, Flap, ghosts
        <5>5. QED BY <2>3, <5>1, <5>2, <5>3, <5>4
      <4>3. \A k \in Hubs : effects'[k] = effects[k] \/ \E r \in Requests : effects'[k] = Append(effects[k], r)
        <5>1. effects \in [Hubs -> Seq(Requests)]
          BY <1>1 DEF TypeOK, GhostsOK
        <5>2. CASE ServeWrite(h) \/ StartAction(h)
          BY <1>1, <5>1, <5>2, RequestTyped DEF ServeWrite, StartAction, Executed
        <5>3. CASE ~(ServeWrite(h) \/ StartAction(h))
          <6>1. CASE WorkerSteps(h)
            BY <6>1 DEF WorkerSteps, RecvHello, RecvDraining, RecvReply, WorkerNotices, ghosts
          <6>2. CASE HubSteps(h)
            BY <5>3, <6>2 DEF HubSteps, Connect, HubNotices, RecvWelcome,
                        JoinAsk, RecoverDecision, AutoApprove, AskOperator, ghosts
          <6>3. CASE Supervision(h)
            BY <6>3 DEF Supervision, Drain, Promote, Retire, Rollback, Revive, ghosts
          <6>4. CASE \/ FinishAction(h) \/ Decide(h) \/ Expire(h) \/ CloseWindow(h)
                     \/ BootGreen(h) \/ GreenDies(h) \/ HubCrash(h) \/ Flap(h)
            BY <6>4 DEF FinishAction, Decide, Expire, CloseWindow, BootGreen, GreenDies, HubCrash, Flap, ghosts
          <6>5. QED BY <2>3, <6>1, <6>2, <6>3, <6>4
        <5>4. QED BY <5>2, <5>3
      <4>4. QED BY <1>1, <4>1, <4>2, <4>3, AnswersKept
    <3>3. QED BY <3>1, <3>2
  <2>4. QED BY <1>4, <2>1, <2>2, <2>3 DEF Next
<1>5. QED BY <1>3, <1>4

-----------------------------------------------------------------------------
(* Answers to approvals.                                                   *)

\* What fits the lane fits what is left of it.
LEMMA FitsKept ==
  ASSUME NEW p \in Seq(Relays), NEW v,
         v \in {p, Detached(p), Flushed(p), << >>} \/ \E i \in DOMAIN p : v = Without(p, i)
  PROVE  \A of : Fits(p, of) => Fits(v, of)
<1>1. \A k \in DOMAIN v : \E j \in DOMAIN p : v[k].req = p[j].req
  <2>1. CASE v \in {p, Detached(p), Flushed(p), << >>}
    BY <2>1, LaneTyped
  <2>2. CASE \E i \in DOMAIN p : v = Without(p, i)
    <3>1. PICK i \in DOMAIN p : v = Without(p, i)
      BY <2>2
    <3>2. \A k \in DOMAIN v : \E j \in DOMAIN p : v[k] = p[j]
      <4> HIDE DEF Relays
      <4>1. QED BY <3>1, WithoutTyped
    <3>3. QED BY <3>2
  <2>3. QED BY <2>1, <2>2
<1>2. QED BY <1>1 DEF Fits

\* Frames behind others, and behind the first.
LEMMA AsksBehind ==
  ASSUME NEW p, NEW q \in Seq(ToHubMsgs), NEW ms \in Seq(ToHubMsgs), AsksFit(p, q), AsksFit(p, ms)
  PROVE  AsksFit(p, q \o ms)
BY Joined DEF AsksFit

LEMMA AsksRead ==
  ASSUME NEW p, NEW q \in Seq(ToHubMsgs), q # << >>, AsksFit(p, q)
  PROVE  AsksFit(p, Tail(q))
BY Behind DEF AsksFit

\* The lane fits itself: it holds one approval at most.
LEMMA FramesFit ==
  ASSUME NEW p \in Seq(Relays), LaneShape(p)
  PROVE  AsksFit(p, Frames(p))
<1>1. DOMAIN Frames(p) = DOMAIN p /\ \A i \in DOMAIN p : Frames(p)[i] = Relayed(p[i].req)
  BY LaneTyped
<1>2. \A i \in DOMAIN p : Frames(p)[i].req = p[i].req
  BY <1>1 DEF Relayed
<1>3. ASSUME NEW i \in DOMAIN p, p[i].req.id = 0
      PROVE  Fits(p, p[i].req.of)
  BY <1>3 DEF Fits, LaneShape
<1>4. QED BY <1>1, <1>2, <1>3 DEF AsksFit

LEMMA OwnBehind ==
  ASSUME NEW h, NEW p, NEW q \in Seq(ToWorkerMsgs), NEW ms \in Seq(ToWorkerMsgs),
         OwnFit(h, p, q), OwnFit(h, p, ms)
  PROVE  OwnFit(h, p, q \o ms)
BY Joined DEF OwnFit

\* Decisions of other hubs behind others: those that were there, and those that are new.
LEMMA ForeignBehind ==
  ASSUME NEW h, NEW q \in Seq(ToWorkerMsgs), NEW ms \in Seq(ToWorkerMsgs), Foreign(h, ms) = {}
  PROVE  Foreign(h, q \o ms) \subseteq Foreign(h, q)
BY Joined DEF Foreign

LEMMA ForeignFirst ==
  ASSUME NEW h, NEW q \in Seq(ToWorkerMsgs), NEW m \in ToWorkerMsgs, Foreign(h, q) = {}
  PROVE  \A i, j \in Foreign(h, q \o <<m>>) : i = j
BY AppendProperties, LenProperties DEF Foreign

\* Behind the first frame there is no decision of another hub if the first is one.
LEMMA ForeignRead ==
  ASSUME NEW h, NEW q \in Seq(ToWorkerMsgs), q # << >>, \A i, j \in Foreign(h, q) : i = j
  PROVE  /\ \A i, j \in Foreign(h, Tail(q)) : i = j
         /\ Foreign(h, q) = {} => Foreign(h, Tail(q)) = {}
         /\ IsAnswer(Head(q)) /\ Head(q).by # h => Foreign(h, Tail(q)) = {}
         /\ \A p : OwnFit(h, p, q) => OwnFit(h, p, Tail(q))
<1>1. /\ Len(q) \in Nat /\ DOMAIN q = 1 .. Len(q) /\ DOMAIN Tail(q) = 1 .. Len(q) - 1
      /\ Head(q) = q[1] /\ 1 \in DOMAIN q
      /\ \A i \in 1 .. Len(q) - 1 : Tail(q)[i] = q[i + 1]
  BY HeadTailProperties, LenProperties
<1>2. \A i \in DOMAIN Tail(q) : /\ i \in Nat /\ i + 1 \in DOMAIN q /\ i + 1 # 1
                                /\ Tail(q)[i] = q[i + 1]
  BY <1>1
<1>3. \A i \in Foreign(h, Tail(q)) : i \in Nat /\ i + 1 # 1 /\ i + 1 \in Foreign(h, q)
  BY <1>2 DEF Foreign
<1>4. ASSUME NEW i \in Foreign(h, Tail(q)), NEW j \in Foreign(h, Tail(q))
      PROVE  i = j
  BY <1>3
<1>5. IsAnswer(Head(q)) /\ Head(q).by # h => 1 \in Foreign(h, q)
  BY <1>1 DEF Foreign
<1>6. \A p : OwnFit(h, p, q) => OwnFit(h, p, Tail(q))
  BY <1>2 DEF OwnFit
<1>7. QED BY <1>3, <1>4, <1>5, <1>6

\* Nothing new for hub h.
LEMMA GrantKept ==
  ASSUME NEW h, NEW c, NEW e, NEW s, NEW z, NEW p, NEW v, NEW S, NEW T, NEW d, NEW y,
         GrantOK(h, c, s, p, S, d),
         \A i \in DOMAIN z.running : z.running[i].id # 0,
         AsksFit(v, e.toHub), OwnFit(h, v, e.toWorker),
         Foreign(h, e.toWorker) \subseteq Foreign(h, c.toWorker),
         Mismatched(h, T) = Mismatched(h, S),
         z.recovers => s.recovers,
         z.role = "off" => s.role = "off" /\ (c = Closed => e = Closed),
         y = h => d = h
  PROVE  GrantOK(h, e, z, v, T, y)
<1>1. \A i, j \in Foreign(h, e.toWorker) : i = j
  BY DEF GrantOK
<1>2. Foreign(h, e.toWorker) # {} => ~z.recovers /\ Mismatched(h, T) = {}
  BY DEF GrantOK
<1>3. /\ \A a, b \in Mismatched(h, T) : a = b
      /\ \A a \in Mismatched(h, T) : ~z.recovers /\ a.reply.by # h
  BY DEF GrantOK
<1>4. z.role = "off" => e = Closed /\ Mismatched(h, T) = {} /\ y # h
  BY DEF GrantOK
<1>5. y = h => ~z.recovers
  BY DEF GrantOK
<1>6. QED BY <1>1, <1>2, <1>3, <1>4, <1>5 DEF GrantOK

\* The facts the steps below use.
LEMMA GrantFacts ==
  ASSUME TypeOK, Sockets, Holding, Grants, NEW h \in Hubs
  PROVE  /\ chan \in [Hubs -> Channels] /\ hub \in [Hubs -> HubStates] /\ hub[h] \in HubStates
         /\ chan[h].toHub \in Seq(ToHubMsgs) /\ chan[h].toWorker \in Seq(ToWorkerMsgs)
         /\ chan[h].link \in {"none", "open", "hubGone", "workerGone"}
         /\ h \in Nat /\ pend \in Seq(Relays) /\ current \in Hubs \cup {None} /\ LaneShape(pend)
         /\ gen \in Nat
         /\ SocketOK(h, chan[h], hub[h], current, gen)
         /\ GrantOK(h, chan[h], hub[h], pend, answers, resolved.by)
         /\ AsksFit(pend, chan[h].toHub) /\ OwnFit(h, pend, chan[h].toWorker)
         /\ hub[h].role = "off" => chan[h] = Closed /\ chan[h].link = "none"
<1>1. GrantOK(h, chan[h], hub[h], pend, answers, resolved.by)
  BY DEF Grants
<1>2. AsksFit(pend, chan[h].toHub) /\ OwnFit(h, pend, chan[h].toWorker)
  BY <1>1 DEF GrantOK
<1>3. hub[h].role = "off" => chan[h] = Closed /\ chan[h].link = "none"
  BY <1>1 DEF GrantOK, Closed
<1>4. QED BY <1>1, <1>2, <1>3, SocketFacts, HubNumbers DEF Holding

\* A step of hub h alone.
LEMMA HubGrants ==
  ASSUME Grants, NEW h \in Hubs, UNCHANGED <<pend, answers, resolved>>,
         \A k \in Hubs \ {h} : chan'[k] = chan[k] /\ hub'[k] = hub[k],
         GrantOK(h, chan'[h], hub'[h], pend, answers, resolved.by)
  PROVE  Grants'
BY DEF Grants

LEMMA GrantsInit == Init => Grants
<1> SUFFICES ASSUME Init, NEW h \in Hubs PROVE GrantOK(h, chan[h], hub[h], pend, answers, resolved.by)
  BY DEF Grants
<1>1. /\ chan[h] = Closed /\ answers = {} /\ resolved.by = None /\ h # None
      /\ hub[h].running = << >>
  BY HubNumbers DEF Init, NewHub, NoHub, NoDecision
<1>2. AsksFit(pend, chan[h].toHub) /\ OwnFit(h, pend, chan[h].toWorker) /\ Foreign(h, chan[h].toWorker) = {}
  BY <1>1 DEF Closed, AsksFit, OwnFit, Foreign
<1>3. Mismatched(h, answers) = {}
  BY <1>1 DEF Mismatched
<1>4. QED BY <1>1, <1>2, <1>3 DEF GrantOK

\* relay(): a request for approval meets no other, and fits itself.
LEMMA IssueGrants ==
  ASSUME TypeOK, Sockets, Holding, Grants, NEW r \in Requests, Relay(r),
         r.id = 0 => ~Travelling(0) /\ \A i \in DOMAIN pend : pend[i].req.id # 0,
         UNCHANGED <<hub, answers, resolved>>
  PROVE  Grants'
<1>1. /\ pend \in Seq(Relays) /\ chan \in [Hubs -> Channels] /\ current \in Hubs \cup {None}
  BY DEF TypeOK, WorkerOK, Relays
<1>2. CASE Len(pend) >= QueueMax
  BY <1>2 DEF Relay, Grants
<1>3. CASE ~(Len(pend) >= QueueMax)
  <2> DEFINE e == [req |-> r, timer |-> IF Ready THEN DeliveredTimer(r) ELSE "reach"]
  <2>1. e.req = r /\ e \in Relays /\ pend' = Append(pend, e)
    BY <1>3 DEF Relay, Relays, Timers, DeliveredTimer
  <2> HIDE DEF e
  <2>2. \A i \in DOMAIN pend' : pend'[i].req = r \/ \E j \in DOMAIN pend : pend'[i] = pend[j]
    <3>1. /\ DOMAIN Append(pend, e) = 1 .. Len(pend) + 1 /\ DOMAIN pend = 1 .. Len(pend)
          /\ Len(pend) \in Nat /\ Append(pend, e)[Len(pend) + 1] = e
          /\ \A i \in 1 .. Len(pend) : Append(pend, e)[i] = pend[i]
      <4> HIDE DEF Relays
      <4>1. QED BY <1>1, <2>1, AppendProperties, LenProperties
    <3>2. \A i \in DOMAIN pend' : i = Len(pend) + 1 \/ i \in 1 .. Len(pend)
      BY <2>1, <3>1
    <3>3. QED BY <2>1, <3>1, <3>2
  <2>3. /\ r.id # 0 => \A of : Fits(pend, of) => Fits(pend', of)
        /\ r.id = 0 => Fits(pend', r.of)
    BY <1>3, <2>2 DEF Fits
  <2>4. ASSUME NEW k \in Hubs
        PROVE  AsksFit(pend', chan[k].toHub) /\ OwnFit(k, pend', chan[k].toWorker)
    BY <2>3, GrantFacts DEF AsksFit, OwnFit, Travelling, IsAnswer
  <2>5. CASE ~Ready
    <3>1. UNCHANGED chan
      BY <1>3, <2>5 DEF Relay
    <3>2. ASSUME NEW k \in Hubs
          PROVE  GrantOK(k, chan'[k], hub'[k], pend', answers', resolved'.by)
      <4>1. GrantOK(k, chan[k], hub[k], pend, answers, resolved.by)
        BY GrantFacts
      <4>2. AsksFit(pend', chan'[k].toHub) /\ OwnFit(k, pend', chan'[k].toWorker)
        BY <2>4, <3>1
      <4>3. QED BY <3>1, <4>1, <4>2 DEF GrantOK
    <3>3. QED BY <3>2 DEF Grants
  <2>6. CASE Ready
    <3> DEFINE ms == <<Relayed(r)>>
    <3>1. /\ ms \in Seq(ToHubMsgs) /\ ms[1].t = "relay" /\ ms[1].req = r /\ DOMAIN ms = {1}
      BY MessagesTyped, OneElement DEF Relayed
    <3>2. chan' = ToHub(chan, current, ms) /\ current \in Hubs
      BY <1>1, <1>3, <2>6 DEF Relay, Ready
    <3> HIDE DEF ms
    <3>3. AsksFit(pend', ms)
      BY <2>3, <3>1 DEF AsksFit
    <3>4. /\ chan'[current].link = chan[current].link
          /\ chan'[current].toWorker = chan[current].toWorker
          /\ chan'[current].toHub = IF chan[current].link = "open" THEN chan[current].toHub \o ms
                                    ELSE chan[current].toHub
          /\ \A k \in Hubs \ {current} : chan'[k] = chan[k]
      BY <1>1, <3>1, <3>2, ToHubSends DEF ToHub
    <3>5. ASSUME NEW k \in Hubs
          PROVE  GrantOK(k, chan'[k], hub'[k], pend', answers', resolved'.by)
      <4>1. /\ GrantOK(k, chan[k], hub[k], pend, answers, resolved.by)
            /\ chan[k].toHub \in Seq(ToHubMsgs) /\ SocketOK(k, chan[k], hub[k], current, gen)
            /\ hub[k].role = "off" => chan[k].link = "none"
        BY GrantFacts
      <4>2. AsksFit(pend', chan[k].toHub) /\ OwnFit(k, pend', chan[k].toWorker)
        BY <2>4
      <4>3. CASE k # current
        BY <3>4, <4>1, <4>2, <4>3 DEF GrantOK
      <4>4. CASE k = current
        BY <3>1, <3>3, <3>4, <4>1, <4>2, <4>4, AsksBehind DEF SocketOK, GrantOK
      <4>5. QED BY <4>3, <4>4
    <3>6. QED BY <3>5 DEF Grants
  <2>7. QED BY <2>5, <2>6
<1>4. QED BY <1>2, <1>3

LEMMA AgentGrants ==
  ASSUME TypeOK, Sockets, Holding, Grants, Call \/ Ask \/ RelayTimeout, "quickRepeat" \notin Env
  PROVE  Grants'
<1>0. seq \in Nat /\ gen \in Nat /\ issued \in Nat /\ pend \in Seq(Relays)
  BY DEF TypeOK, WorkerOK, GhostsOK, Relays
<1>1. UNCHANGED <<hub, answers, resolved>>
  BY DEF Call, Ask, RelayTimeout, ghosts, durable
<1>2. CASE Call
  <2>1. PICK k \in Kinds \ {"approval"} : Relay([kind |-> k, id |-> seq', of |-> gen])
    BY <1>2 DEF Call
  <2> DEFINE r == [kind |-> k, id |-> seq', of |-> gen]
  <2>2. r \in Requests /\ r.id # 0
    BY <1>0, <1>2, KindsAssumption DEF Call, Requests
  <2> HIDE DEF r
  <2>3. Relay(r)
    BY <2>1 DEF r
  <2>4. QED BY <1>1, <2>2, <2>3, IssueGrants
<1>3. CASE Ask
  <2> DEFINE r == [kind |-> "approval", id |-> 0, of |-> issued']
  <2>1. /\ r \in Requests /\ r.id = 0 /\ Relay(r) /\ ~Travelling(0)
        /\ \A i \in DOMAIN pend : pend[i].req.id # 0
    BY <1>0, <1>3 DEF Ask, Requests, AllKinds
  <2> HIDE DEF r
  <2>2. QED BY <1>1, <2>1, IssueGrants
<1>4. CASE RelayTimeout
  <2>1. PICK i \in DOMAIN pend : pend' = Without(pend, i)
    BY <1>4 DEF RelayTimeout
  <2>2. \A of : Fits(pend, of) => Fits(pend', of)
    BY <1>0, <2>1, FitsKept
  <2>3. UNCHANGED chan
    BY <1>4 DEF RelayTimeout
  <2>4. ASSUME NEW k \in Hubs
        PROVE  GrantOK(k, chan'[k], hub'[k], pend', answers', resolved'.by)
    <3>1. /\ GrantOK(k, chan[k], hub[k], pend, answers, resolved.by)
          /\ AsksFit(pend, chan[k].toHub) /\ OwnFit(k, pend, chan[k].toWorker)
      BY GrantFacts
    <3>2. AsksFit(pend', chan'[k].toHub) /\ OwnFit(k, pend', chan'[k].toWorker)
      BY <2>2, <2>3, <3>1 DEF AsksFit, OwnFit
    <3>3. QED BY <1>1, <2>3, <3>1, <3>2 DEF GrantOK
  <2>5. QED BY <2>4 DEF Grants
<1>5. QED BY <1>2, <1>3, <1>4

\* The worker destroys a channel, or finds it closed.
LEMMA GrantDestroyed ==
  ASSUME NEW h, NEW c \in Channels, NEW d \in Channels, NEW s, NEW p \in Seq(Relays), NEW v,
         NEW S, NEW y, GrantOK(h, c, s, p, S, y),
         \A of : Fits(p, of) => Fits(v, of),
         c.link = "open" => d.link = "workerGone" /\ d.toHub = c.toHub /\ d.toWorker = << >>,
         c.link = "workerGone" => d = c,
         c.link \in {"none", "hubGone"} => d = Closed
  PROVE  GrantOK(h, d, s, v, S, y)
<1>1. AsksFit(p, c.toHub) /\ OwnFit(h, p, c.toWorker)
  BY DEF GrantOK
<1>2. c.link \in {"none", "open", "hubGone", "workerGone"}
  BY DEF Channels, Links
<1>3. AsksFit(v, d.toHub) /\ OwnFit(h, v, d.toWorker)
  BY <1>1, <1>2 DEF Closed, AsksFit, OwnFit
<1>4. Foreign(h, d.toWorker) \subseteq Foreign(h, c.toWorker)
  BY <1>2 DEF Closed, Foreign
<1>5. c = Closed => d = Closed
  BY DEF Closed
<1>6. \A i \in DOMAIN s.running : s.running[i].id # 0
  BY DEF GrantOK
<1>7. QED BY <1>3, <1>4, <1>5, <1>6, GrantKept

\* attach(): the lane fits itself.
LEMMA AttachGrants ==
  ASSUME TypeOK, Sockets, Holding, Grants, NEW h \in Hubs, RecvHello(h)
  PROVE  Grants'
<1>1. /\ SocketOK(h, chan[h], hub[h], current, gen) /\ chan \in [Hubs -> Channels]
      /\ GrantOK(h, chan[h], hub[h], pend, answers, resolved.by)
      /\ pend \in Seq(Relays) /\ current \in Hubs \cup {None} /\ LaneShape(pend)
      /\ chan[h].toWorker \in Seq(ToWorkerMsgs) /\ gen \in Nat
      /\ hub[h].role = "off" => chan[h].link = "none"
  BY GrantFacts
<1>2. FromHub(h, "hello") /\ UNCHANGED <<hub, answers, resolved>>
  BY DEF RecvHello, ghosts, durable
<1>3. /\ chan[h].toWorker[1].t = "hello" /\ 1 \in DOMAIN chan[h].toWorker
      /\ chan[h].toWorker # << >>
      /\ ReadFrom(h) \in [Hubs -> Channels]
      /\ ReadFrom(h)[h].link = chan[h].link /\ ReadFrom(h)[h].toHub = chan[h].toHub
      /\ ReadFrom(h)[h].toWorker = Tail(chan[h].toWorker)
      /\ chan[h].link \in {"open", "hubGone"}
  BY <1>1, <1>2, ReadFromChannel DEF FromHub
<1>4. chan[h].toHub = << >> /\ current # h /\ h # None
  BY <1>1, <1>3, HubNumbers DEF SocketOK, HelloOK
<1>5. \A k \in Hubs \ {h} : ReadFrom(h)[k] = chan[k]
  BY DEF ReadFrom
<1>6. \A k \in Hubs : GrantOK(k, chan[k], hub[k], pend, answers, resolved.by)
  BY DEF Grants
<1>7. CASE Head(chan[h].toWorker).epoch < currentEpoch
  <2>1. chan' = Destroyed(ReadFrom(h), h) /\ UNCHANGED pend
    BY <1>7 DEF RecvHello
  <2>2. \A k \in Hubs \ {h} : chan'[k] = chan[k]
    BY <1>3, <1>5, <2>1, DestroyedChannel
  <2>3. chan'[h].toHub = << >> /\ chan'[h].toWorker = << >>
    BY <1>3, <1>4, <2>1, DestroyedChannel, ClosedTyped DEF Closed
  <2>4. GrantOK(h, chan'[h], hub[h], pend, answers, resolved.by)
    BY <1>1, <1>3, <2>3 DEF AsksFit, OwnFit, Foreign, GrantOK
  <2>5. QED BY <1>2, <2>1, <2>2, <2>4, HubGrants
<1>8. CASE ~(Head(chan[h].toWorker).epoch < currentEpoch)
  <2> DEFINE prev == IF current \in {None, h} THEN ReadFrom(h) ELSE Destroyed(ReadFrom(h), current)
             ms   == <<Welcome(gen)>> \o Frames(pend)
  <2>1. chan' = ToHub(prev, h, ms) /\ pend' = Flushed(pend)
    BY <1>8 DEF RecvHello
  <2>2. \A of : Fits(pend, of) => Fits(pend', of)
    BY <1>1, <2>1, FitsKept
  <2>3. /\ prev \in [Hubs -> Channels] /\ prev[h] = ReadFrom(h)[h]
        /\ \A k \in Hubs \ {h} : GrantOK(k, prev[k], hub[k], pend', answers, resolved.by)
    <3>1. ASSUME NEW k \in Hubs
          PROVE  GrantOK(k, chan[k], hub[k], pend', answers, resolved.by)
      <4>1. /\ GrantOK(k, chan[k], hub[k], pend, answers, resolved.by)
            /\ AsksFit(pend, chan[k].toHub) /\ OwnFit(k, pend, chan[k].toWorker)
        BY GrantFacts
      <4>2. AsksFit(pend', chan[k].toHub) /\ OwnFit(k, pend', chan[k].toWorker)
        BY <2>2, <4>1 DEF AsksFit, OwnFit
      <4>3. QED BY <4>1, <4>2 DEF GrantOK
    <3>2. CASE current \in {None, h}
      BY <1>3, <1>5, <3>1, <3>2
    <3>3. CASE current \notin {None, h}
      <4>1. /\ prev = Destroyed(ReadFrom(h), current) /\ current \in Hubs \ {h}
            /\ ReadFrom(h)[current] = chan[current]
        BY <1>1, <1>5, <3>3
      <4>2. prev \in [Hubs -> Channels] /\ \A k \in Hubs \ {current} : prev[k] = ReadFrom(h)[k]
        BY <1>3, <4>1, DestroyedChannel
      <4>3. /\ chan[current].link = "open" => /\ prev[current].link = "workerGone"
                                              /\ prev[current].toHub = chan[current].toHub
                                              /\ prev[current].toWorker = << >>
            /\ chan[current].link = "workerGone" => prev[current] = chan[current]
            /\ chan[current].link \in {"none", "hubGone"} => prev[current] = Closed
        BY <1>3, <4>1, DestroyedChannel
      <4> HIDE DEF prev
      <4>4. /\ chan[current] \in Channels /\ prev[current] \in Channels
            /\ GrantOK(current, chan[current], hub[current], pend, answers, resolved.by)
        BY <1>1, <1>6, <4>1, <4>2
      <4>5. GrantOK(current, prev[current], hub[current], pend', answers, resolved.by)
        BY <1>1, <2>2, <4>3, <4>4, GrantDestroyed
      <4>6. QED BY <1>5, <3>1, <4>1, <4>2, <4>5
    <3>4. QED BY <3>2, <3>3
  <2>4. Frames(pend) \in Seq(ToHubMsgs) /\ <<Welcome(gen)>> \in Seq(ToHubMsgs)
    BY <1>1, LaneTyped, MessagesTyped, OneElement
  <2>5. ms \in Seq(ToHubMsgs)
    BY <2>4, ConcatProperties
  <2>6. AsksFit(pend', ms)
    BY <1>1, <2>2, <2>4, FramesFit, AsksBehind DEF AsksFit, Welcome
  <2> HIDE DEF prev, ms
  <2>7. /\ \A k \in Hubs \ {h} : chan'[k] = prev[k]
        /\ chan'[h].toWorker = Tail(chan[h].toWorker)
        /\ chan'[h].toHub = IF chan[h].link = "open" THEN ms ELSE << >>
    <3>1. \A k \in Hubs \ {h} : chan'[k] = prev[k]
      BY <2>1, <2>3 DEF ToHub
    <3>2. /\ chan'[h].toWorker = prev[h].toWorker
          /\ chan'[h].toHub = IF prev[h].link = "open" THEN prev[h].toHub \o ms ELSE prev[h].toHub
      BY <2>1, <2>3, <2>5, ToHubSends
    <3>3. << >> \o ms = ms
      BY <2>5, ConcatEmptySeq
    <3>4. QED BY <1>3, <1>4, <2>3, <3>1, <3>2, <3>3
  <2>8. GrantOK(h, chan'[h], hub[h], pend', answers, resolved.by)
    <3>1. AsksFit(pend', chan'[h].toHub)
      BY <2>6, <2>7 DEF AsksFit
    <3>2. /\ OwnFit(h, pend, Tail(chan[h].toWorker))
          /\ \A i, j \in Foreign(h, Tail(chan[h].toWorker)) : i = j
          /\ Foreign(h, chan[h].toWorker) = {} => Foreign(h, Tail(chan[h].toWorker)) = {}
      BY <1>1, <1>3, ForeignRead DEF GrantOK
    <3>3. OwnFit(h, pend', chan'[h].toWorker)
      BY <2>2, <2>7, <3>2 DEF OwnFit
    <3>4. hub[h].role # "off"
      BY <1>1, <1>3
    <3>5. QED BY <1>1, <2>7, <3>1, <3>2, <3>3, <3>4 DEF GrantOK
  <2>9. QED BY <1>2, <2>3, <2>7, <2>8 DEF Grants
<1>9. QED BY <1>7, <1>8

\* Hub h alone, and the lane holds no approval it did not hold.
LEMMA QuietGrants ==
  ASSUME TypeOK, Sockets, Holding, Grants, NEW h \in Hubs, UNCHANGED <<answers, resolved>>,
         \A of : Fits(pend, of) => Fits(pend', of),
         \A k \in Hubs \ {h} : chan'[k] = chan[k] /\ hub'[k] = hub[k],
         GrantOK(h, chan'[h], hub'[h], pend', answers, resolved.by)
  PROVE  Grants'
<1>1. ASSUME NEW k \in Hubs \ {h}
      PROVE  GrantOK(k, chan'[k], hub'[k], pend', answers, resolved.by)
  <2>1. /\ GrantOK(k, chan[k], hub[k], pend, answers, resolved.by)
        /\ AsksFit(pend, chan[k].toHub) /\ OwnFit(k, pend, chan[k].toWorker)
    BY GrantFacts
  <2>2. AsksFit(pend', chan[k].toHub) /\ OwnFit(k, pend', chan[k].toWorker)
    BY <2>1 DEF AsksFit, OwnFit
  <2>3. QED BY <2>1, <2>2 DEF GrantOK
<1>2. QED BY <1>1 DEF Grants

\* setDraining(), release() and onChannelClosed().
LEMMA WorkerReadGrants ==
  ASSUME TypeOK, Sockets, Holding, Grants, NEW h \in Hubs, RecvDraining(h) \/ WorkerNotices(h)
  PROVE  Grants'
<1>1. /\ SocketOK(h, chan[h], hub[h], current, gen) /\ chan \in [Hubs -> Channels]
      /\ GrantOK(h, chan[h], hub[h], pend, answers, resolved.by)
      /\ pend \in Seq(Relays) /\ LaneShape(pend)
      /\ chan[h].toHub \in Seq(ToHubMsgs) /\ chan[h].toWorker \in Seq(ToWorkerMsgs)
      /\ AsksFit(pend, chan[h].toHub) /\ OwnFit(h, pend, chan[h].toWorker)
      /\ hub[h].role = "off" => chan[h].link = "none"
  BY GrantFacts
<1>2. UNCHANGED <<hub, answers, resolved>>
  BY DEF RecvDraining, WorkerNotices, ghosts, durable
<1>3. CASE RecvDraining(h)
  <2> DEFINE on == Head(chan[h].toWorker).on
  <2>1. /\ FromHub(h, "draining") /\ chan[h].toWorker # << >> /\ chan[h].link \in {"open", "hubGone"}
    BY <1>3 DEF RecvDraining, FromHub
  <2>2. pend' \in {pend, Detached(pend), Flushed(pend)} /\
        (chan' = ReadFrom(h) \/ chan' = ToHub(ReadFrom(h), h, Frames(pend)))
    BY <1>3 DEF RecvDraining
  <2>3. \A of : Fits(pend, of) => Fits(pend', of)
    BY <1>1, <2>2, FitsKept
  <2>4. /\ ReadFrom(h) \in [Hubs -> Channels]
        /\ ReadFrom(h)[h].link = chan[h].link /\ ReadFrom(h)[h].toHub = chan[h].toHub
        /\ ReadFrom(h)[h].toWorker = Tail(chan[h].toWorker)
        /\ \A k \in Hubs \ {h} : ReadFrom(h)[k] = chan[k]
    BY <1>1, <2>1, ReadFromChannel DEF ReadFrom
  <2>5. Frames(pend) \in Seq(ToHubMsgs) /\ AsksFit(pend, Frames(pend))
    BY <1>1, LaneTyped, FramesFit
  <2>6. /\ \A k \in Hubs \ {h} : chan'[k] = chan[k]
        /\ chan'[h].link = chan[h].link /\ chan'[h].toWorker = Tail(chan[h].toWorker)
        /\ chan'[h].toHub \in {chan[h].toHub, chan[h].toHub \o Frames(pend)}
    <3>1. CASE chan' = ReadFrom(h)
      BY <2>4, <3>1
    <3>2. CASE chan' = ToHub(ReadFrom(h), h, Frames(pend))
      BY <2>4, <2>5, <3>2, ToHubSends DEF ToHub
    <3>3. QED BY <2>2, <3>1, <3>2
  <2>7. AsksFit(pend', chan'[h].toHub)
    <3>1. AsksFit(pend, chan[h].toHub \o Frames(pend))
      BY <1>1, <2>5, AsksBehind
    <3>2. AsksFit(pend, chan'[h].toHub)
      BY <1>1, <2>6, <3>1
    <3>3. QED BY <2>3, <3>2 DEF AsksFit
  <2>8. /\ OwnFit(h, pend, Tail(chan[h].toWorker))
        /\ \A i, j \in Foreign(h, Tail(chan[h].toWorker)) : i = j
        /\ Foreign(h, chan[h].toWorker) = {} => Foreign(h, Tail(chan[h].toWorker)) = {}
    BY <1>1, <2>1, ForeignRead DEF GrantOK
  <2>9. OwnFit(h, pend', chan'[h].toWorker)
    BY <2>3, <2>6, <2>8 DEF OwnFit
  <2>10. hub[h].role # "off"
    BY <1>1, <2>1
  <2>11. GrantOK(h, chan'[h], hub[h], pend', answers, resolved.by)
    BY <1>1, <2>6, <2>7, <2>8, <2>9, <2>10 DEF GrantOK
  <2>12. QED BY <1>2, <2>3, <2>6, <2>11, QuietGrants
<1>4. CASE WorkerNotices(h)
  <2>1. /\ chan'[h] = Closed /\ chan[h].link = "hubGone"
        /\ \A k \in Hubs \ {h} : chan'[k] = chan[k]
        /\ pend' \in {pend, Detached(pend)}
    BY <1>1, <1>4 DEF WorkerNotices
  <2>2. \A of : Fits(pend, of) => Fits(pend', of)
    BY <1>1, <2>1, FitsKept
  <2>3. chan[h] \in Channels /\ Closed \in Channels
    BY <1>1, ClosedTyped
  <2>4. GrantOK(h, chan'[h], hub[h], pend', answers, resolved.by)
    BY <1>1, <2>1, <2>2, <2>3, GrantDestroyed
  <2>5. QED BY <1>2, <2>1, <2>2, <2>4, QuietGrants
<1>5. QED BY <1>3, <1>4

\* The lane of the next process is empty.
LEMMA WorkerDeathGrants ==
  ASSUME TypeOK, Sockets, Holding, Grants, WorkerDeath
  PROVE  Grants'
<1>1. /\ pend' = << >> /\ UNCHANGED <<hub, answers, resolved>> /\ chan \in [Hubs -> Channels]
      /\ pend \in Seq(Relays)
  BY DEF WorkerDeath, TypeOK, WorkerOK, Relays, ghosts, durable
<1>2. \A of : Fits(pend, of) => Fits(pend', of)
  BY <1>1, FitsKept
<1>3. ASSUME NEW h \in Hubs
      PROVE  GrantOK(h, chan'[h], hub[h], pend', answers, resolved.by)
  <2>1. chan'[h] = Destroyed(chan, h)[h]
    BY DEF WorkerDeath
  <2>2. /\ GrantOK(h, chan[h], hub[h], pend, answers, resolved.by)
        /\ chan[h] \in Channels
    BY <1>1, GrantFacts
  <2>3. Destroyed(chan, h)[h] \in Channels
    BY <1>1, DestroyedChannel
  <2>4. /\ chan[h].link = "open" => /\ chan'[h].link = "workerGone" /\ chan'[h].toWorker = << >>
                                    /\ chan'[h].toHub = chan[h].toHub
        /\ chan[h].link = "workerGone" => chan'[h] = chan[h]
        /\ chan[h].link \in {"none", "hubGone"} => chan'[h] = Closed
    BY <1>1, <2>1, DestroyedChannel
  <2>5. chan'[h] \in Channels
    BY <2>1, <2>3
  <2>6. QED BY <1>1, <1>2, <2>2, <2>4, <2>5, GrantDestroyed
<1>4. QED BY <1>1, <1>3 DEF Grants

\* resolveRelay(): an answer of hub h fits what it finds.  A decision of another hub may
\* not, and then no other such decision is on the socket, was delivered by h, or will be.
LEMMA ReplyGrants ==
  ASSUME TypeOK, Sockets, Holding, Grants, NEW h \in Hubs, RecvReply(h)
  PROVE  Grants'
<1>1. /\ SocketOK(h, chan[h], hub[h], current, gen) /\ chan \in [Hubs -> Channels]
      /\ GrantOK(h, chan[h], hub[h], pend, answers, resolved.by)
      /\ pend \in Seq(Relays) /\ LaneShape(pend)
      /\ chan[h].toHub \in Seq(ToHubMsgs) /\ chan[h].toWorker \in Seq(ToWorkerMsgs)
      /\ AsksFit(pend, chan[h].toHub) /\ OwnFit(h, pend, chan[h].toWorker)
      /\ hub[h].role = "off" => chan[h].link = "none"
  BY GrantFacts
<1> DEFINE m    == Head(chan[h].toWorker)
           hits == {i \in DOMAIN pend : pend[i].req.id = m.id}
<1>2. /\ FromHub(h, "reply") /\ chan' = ReadFrom(h) /\ UNCHANGED <<hub, resolved>>
      /\ chan[h].toWorker # << >> /\ chan[h].link \in {"open", "hubGone"}
  BY DEF RecvReply, FromHub, durable
<1>3. /\ m = chan[h].toWorker[1] /\ 1 \in DOMAIN chan[h].toWorker /\ m.t = "reply"
      /\ chan'[h].link = chan[h].link /\ chan'[h].toHub = chan[h].toHub
      /\ chan'[h].toWorker = Tail(chan[h].toWorker)
      /\ \A k \in Hubs \ {h} : chan'[k] = chan[k]
  BY <1>1, <1>2, ReadFromChannel DEF ReadFrom
<1>4. /\ \/ hits = {} /\ UNCHANGED <<pend, answers>>
         \/ \E i \in hits : /\ pend' = Without(pend, i)
                            /\ answers' = answers \cup {[req |-> pend[i].req, reply |-> m, at |-> h]}
  BY DEF RecvReply
<1>5. \A of : Fits(pend, of) => Fits(pend', of)
  BY <1>1, <1>4, FitsKept
<1>6. /\ OwnFit(h, pend, Tail(chan[h].toWorker))
      /\ \A i, j \in Foreign(h, Tail(chan[h].toWorker)) : i = j
      /\ Foreign(h, chan[h].toWorker) = {} => Foreign(h, Tail(chan[h].toWorker)) = {}
      /\ IsAnswer(m) /\ m.by # h => Foreign(h, Tail(chan[h].toWorker)) = {}
  BY <1>1, <1>2, ForeignRead DEF GrantOK
<1>7. hub[h].role # "off"
  BY <1>1, <1>2
<1>8. AsksFit(pend', chan'[h].toHub) /\ OwnFit(h, pend', chan'[h].toWorker)
  BY <1>1, <1>3, <1>5, <1>6 DEF AsksFit, OwnFit
<1> HIDE DEF m, hits
<1>9. CASE Mismatched(h, answers') = Mismatched(h, answers)
  <2>1. GrantOK(h, chan'[h], hub[h], pend', answers', resolved.by)
    BY <1>1, <1>3, <1>6, <1>7, <1>8, <1>9 DEF GrantOK
  <2>2. ASSUME NEW k \in Hubs \ {h}
        PROVE  GrantOK(k, chan'[k], hub[k], pend', answers', resolved.by)
    <3>1. /\ GrantOK(k, chan[k], hub[k], pend, answers, resolved.by)
          /\ AsksFit(pend, chan[k].toHub) /\ OwnFit(k, pend, chan[k].toWorker)
      BY GrantFacts
    <3>2. AsksFit(pend', chan[k].toHub) /\ OwnFit(k, pend', chan[k].toWorker)
      BY <1>5, <3>1 DEF AsksFit, OwnFit
    <3>3. Mismatched(k, answers') = Mismatched(k, answers)
      BY <1>4 DEF Mismatched
    <3>4. QED BY <1>3, <3>1, <3>2, <3>3 DEF GrantOK
  <2>3. QED BY <1>2, <2>1, <2>2 DEF Grants
<1>10. CASE Mismatched(h, answers') # Mismatched(h, answers)
  <2>1. PICK i \in hits : /\ pend' = Without(pend, i)
                          /\ answers' = answers \cup {[req |-> pend[i].req, reply |-> m, at |-> h]}
    BY <1>4, <1>10
  <2> DEFINE a == [req |-> pend[i].req, reply |-> m, at |-> h]
  <2>2. a.req.kind = "approval" /\ m.of # pend[i].req.of /\ Mismatched(h, answers') = Mismatched(h, answers) \cup {a}
    BY <1>10, <2>1 DEF Mismatched
  <2>3. i \in DOMAIN pend /\ pend[i].req.id = m.id
    BY DEF hits
  <2>4. m.id = 0
    BY <1>1, <2>2, <2>3 DEF LaneShape, Proper
  <2>5. m.by # h
    BY <1>1, <1>3, <2>2, <2>3, <2>4 DEF OwnFit, Fits, IsAnswer
  <2>6. Foreign(h, chan[h].toWorker) # {} /\ Foreign(h, Tail(chan[h].toWorker)) = {}
    BY <1>3, <1>6, <2>4, <2>5 DEF IsAnswer, Foreign
  <2>7. ~hub[h].recovers /\ Mismatched(h, answers) = {}
    BY <1>1, <2>6 DEF GrantOK
  <2>8. Mismatched(h, answers') = {a} /\ a.reply.by # h
    BY <2>2, <2>5, <2>7
  <2> HIDE DEF a
  <2>9. GrantOK(h, chan'[h], hub[h], pend', answers', resolved.by)
    BY <1>1, <1>3, <1>7, <1>8, <2>6, <2>7, <2>8 DEF GrantOK
  <2>10. ASSUME NEW k \in Hubs \ {h}
        PROVE  GrantOK(k, chan'[k], hub[k], pend', answers', resolved.by)
    <3>1. /\ GrantOK(k, chan[k], hub[k], pend, answers, resolved.by)
          /\ AsksFit(pend, chan[k].toHub) /\ OwnFit(k, pend, chan[k].toWorker)
      BY GrantFacts
    <3>2. AsksFit(pend', chan[k].toHub) /\ OwnFit(k, pend', chan[k].toWorker)
      BY <1>5, <3>1 DEF AsksFit, OwnFit
    <3>3. Mismatched(k, answers') = Mismatched(k, answers)
      BY <2>1 DEF Mismatched
    <3>4. QED BY <1>3, <3>1, <3>2, <3>3 DEF GrantOK
  <2>11. QED BY <1>2, <2>9, <2>10 DEF Grants
<1>11. QED BY <1>9, <1>10

\* Hub h reads a frame, or none, and answers nothing but what is pending.
LEMMA SentGrants ==
  ASSUME TypeOK, Sockets, Holding, Grants, NEW h \in Hubs, NEW ms \in Seq(ToWorkerMsgs),
         UNCHANGED <<pend, answers>>, hub[h].role # "off", hub'[h].role # "off",
         \A k \in Hubs \ {h} : chan'[k] = chan[k] /\ hub'[k] = hub[k],
         chan'[h].toHub = chan[h].toHub \/ (chan[h].toHub # << >> /\ chan'[h].toHub = Tail(chan[h].toHub)),
         chan'[h].toWorker = IF hub[h].att /\ chan[h].link = "open" THEN chan[h].toWorker \o ms
                             ELSE chan[h].toWorker,
         hub[h].att /\ chan[h].link = "open" => Foreign(h, ms) = {} /\ OwnFit(h, pend, ms),
         \A i \in DOMAIN hub'[h].running : hub'[h].running[i].id # 0,
         hub'[h].recovers => hub[h].recovers,
         resolved'.by = resolved.by \/ (resolved'.by = h /\ ~hub'[h].recovers)
  PROVE  Grants'
<1>1. /\ GrantOK(h, chan[h], hub[h], pend, answers, resolved.by)
      /\ chan[h].toHub \in Seq(ToHubMsgs) /\ chan[h].toWorker \in Seq(ToWorkerMsgs)
      /\ AsksFit(pend, chan[h].toHub) /\ OwnFit(h, pend, chan[h].toWorker)
  BY GrantFacts
<1>2. AsksFit(pend, chan'[h].toHub)
  BY <1>1, AsksRead
<1>3. OwnFit(h, pend, chan'[h].toWorker) /\ Foreign(h, chan'[h].toWorker) \subseteq Foreign(h, chan[h].toWorker)
  <2>1. CASE hub[h].att /\ chan[h].link = "open"
    <3>1. OwnFit(h, pend, chan[h].toWorker \o ms)
      BY <1>1, <2>1, OwnBehind
    <3>2. Foreign(h, chan[h].toWorker \o ms) \subseteq Foreign(h, chan[h].toWorker)
      BY <1>1, <2>1, ForeignBehind
    <3>3. QED BY <2>1, <3>1, <3>2
  <2>2. CASE ~(hub[h].att /\ chan[h].link = "open")
    BY <1>1, <2>2
  <2>3. QED BY <2>1, <2>2
<1>4. GrantOK(h, chan'[h], hub'[h], pend, answers, resolved'.by)
  BY <1>1, <1>2, <1>3, GrantKept DEF GrantOK
<1>5. ASSUME NEW k \in Hubs \ {h}
      PROVE  GrantOK(k, chan'[k], hub'[k], pend, answers, resolved'.by)
  <2>1. GrantOK(k, chan[k], hub[k], pend, answers, resolved.by)
    BY GrantFacts
  <2>2. QED BY <2>1 DEF GrantOK
<1>6. QED BY <1>4, <1>5 DEF Grants

\* A relay is read and one answer given, of the hub's own or to an rpc.
LEMMA OneFits ==
  ASSUME NEW h, NEW p, NEW r, NEW of, NEW who, r.id = 0 => Fits(p, of)
  PROVE  /\ Foreign(h, <<Reply(r, of, h, who)>>) = {}
         /\ OwnFit(h, p, <<Reply(r, of, h, who)>>)
BY DEF Foreign, IsAnswer, Reply, OwnFit

LEMMA AskFits ==
  ASSUME TypeOK, Sockets, Holding, Grants, NEW h \in Hubs, FromWorker(h, "relay")
  PROVE  /\ Request(h) \in Requests /\ Proper(Request(h))
         /\ Request(h).id = 0 => Fits(pend, Request(h).of)
         /\ chan[h].toHub # << >> /\ hub[h].role # "off"
BY RequestTyped, RelayRead, GrantFacts, ReadByHub DEF AsksFit, Request, FromWorker, Alive

\* Calls have an id of their own.
LEMMA ServeGrants ==
  ASSUME TypeOK, Sockets, Holding, Grants, NEW h \in Hubs,
         ServeWrite(h) \/ StartAction(h) \/ FinishAction(h)
  PROVE  Grants'
<1>1. /\ hub \in [Hubs -> HubStates] /\ hub[h] \in HubStates /\ h \in Nat
      /\ chan \in [Hubs -> Channels] /\ hub[h].running \in Seq(Requests)
      /\ GrantOK(h, chan[h], hub[h], pend, answers, resolved.by)
  BY GrantFacts DEF HubStates
<1>2. UNCHANGED <<pend, answers, resolved>>
  BY DEF ServeWrite, StartAction, FinishAction, worker, ghosts, durable
<1>3. \A i \in DOMAIN hub[h].running : hub[h].running[i].id # 0
  BY <1>1 DEF GrantOK
<1>4. CASE ServeWrite(h)
  <2> DEFINE r    == Request(h)
             hits == {s \in hub[h].served : s.id = r.id}
  <2>1. FromWorker(h, "relay") /\ r.kind = "write"
    BY <1>4 DEF ServeWrite
  <2>2. r \in Requests /\ r.id # 0 /\ chan[h].toHub # << >> /\ hub[h].role # "off"
    BY <2>1, AskFits DEF Proper
  <2>3. PICK of \in Nat : chan' = ToWorker(ReadBy(h), h, <<Reply(r, of, h, "hub")>>)
    <3>1. CASE hits # {}
      BY <1>1, <1>4, <3>1 DEF ServeWrite, HubStates
    <3>2. CASE hits = {}
      BY <1>4, <2>2, <3>2 DEF ServeWrite, Requests
    <3>3. QED BY <3>1, <3>2
  <2>4. /\ hub'[h].running = hub[h].running /\ hub'[h].recovers = hub[h].recovers
        /\ hub'[h].role = hub[h].role /\ \A k \in Hubs \ {h} : hub'[k] = hub[k]
    <3>1. CASE hits # {}
      BY <1>4, <3>1 DEF ServeWrite
    <3>2. CASE hits = {}
      BY <1>1, <1>4, <3>2 DEF ServeWrite, HubStates
    <3>3. QED BY <3>1, <3>2
  <2> DEFINE ms == <<Reply(r, of, h, "hub")>>
  <2>5. ms \in Seq(ToWorkerMsgs) /\ Foreign(h, ms) = {} /\ OwnFit(h, pend, ms)
    BY <1>1, <2>2, ReplyTyped, OneElement, OneFits DEF Requests
  <2>6. chan' = ToWorker(ReadBy(h), h, ms)
    BY <2>3
  <2> HIDE DEF ms, r
  <2>7. /\ \A k \in Hubs \ {h} : chan'[k] = chan[k]
        /\ chan'[h].toHub = Tail(chan[h].toHub)
        /\ chan'[h].toWorker = IF hub[h].att /\ chan[h].link = "open" THEN chan[h].toWorker \o ms
                               ELSE chan[h].toWorker
    BY <2>1, <2>5, <2>6, ReadAndSent
  <2>8. QED BY <1>2, <1>3, <2>2, <2>4, <2>5, <2>7, SentGrants
<1>5. CASE StartAction(h)
  <2>1. /\ FromWorker(h, "relay") /\ Request(h).kind = "action" /\ chan' = ReadBy(h)
        /\ hub' = [hub EXCEPT ![h].running = Append(@, Request(h))]
    BY <1>5 DEF StartAction
  <2>2. Request(h) \in Requests /\ Request(h).id # 0 /\ chan[h].toHub # << >> /\ hub[h].role # "off"
    BY <2>1, AskFits DEF Proper
  <2>3. /\ hub'[h].running = Append(hub[h].running, Request(h)) /\ hub'[h].recovers = hub[h].recovers
        /\ hub'[h].role = hub[h].role /\ \A k \in Hubs \ {h} : hub'[k] = hub[k]
    BY <1>1, <2>1 DEF HubStates
  <2>4. \A i \in DOMAIN hub'[h].running : hub'[h].running[i].id # 0
    BY <1>1, <1>3, <2>2, <2>3, DidLast
  <2>5. /\ chan'[h].toHub = Tail(chan[h].toHub) /\ chan'[h].toWorker = chan[h].toWorker
        /\ \A k \in Hubs \ {h} : chan'[k] = chan[k]
    BY <1>1, <2>1, ReadByHub DEF ReadBy
  <2>6. chan[h].toHub \in Seq(ToHubMsgs) /\ AsksFit(pend, chan[h].toHub)
    BY GrantFacts
  <2>7. AsksFit(pend, chan'[h].toHub)
    BY <2>2, <2>5, <2>6, AsksRead
  <2>8. GrantOK(h, chan'[h], hub'[h], pend, answers, resolved.by)
    BY <1>1, <2>2, <2>3, <2>4, <2>5, <2>7 DEF GrantOK
  <2>9. QED BY <1>2, <2>3, <2>5, <2>8, HubGrants
<1>6. CASE FinishAction(h)
  <2>1. PICK i \in DOMAIN hub[h].running :
          /\ hub' = [hub EXCEPT ![h].running = Without(@, i)]
          /\ chan' = ToWorker(chan, h, <<Reply(hub[h].running[i], hub[h].running[i].of, h, "hub")>>)
    BY <1>6 DEF FinishAction
  <2> DEFINE r  == hub[h].running[i]
             ms == <<Reply(r, r.of, h, "hub")>>
  <2>2. r \in Requests /\ r.id # 0
    BY <1>1, <1>3
  <2>3. hub[h].role # "off"
    BY <1>6 DEF FinishAction, Alive
  <2>4. /\ hub'[h].running = Without(hub[h].running, i) /\ hub'[h].recovers = hub[h].recovers
        /\ hub'[h].role = hub[h].role /\ \A k \in Hubs \ {h} : hub'[k] = hub[k]
    BY <1>1, <2>1 DEF HubStates
  <2>5. \A k \in DOMAIN hub'[h].running : hub'[h].running[k].id # 0
    BY <1>1, <1>3, <2>4, WithoutTyped
  <2>6. chan' = ToWorker(chan, h, ms)
    BY <2>1
  <2> HIDE DEF r
  <2>7. ms \in Seq(ToWorkerMsgs) /\ Foreign(h, ms) = {} /\ OwnFit(h, pend, ms)
    BY <1>1, <2>2, ReplyTyped, OneElement, OneFits DEF Requests
  <2> HIDE DEF ms
  <2>8. /\ \A k \in Hubs \ {h} : chan'[k] = chan[k]
        /\ chan'[h].toHub = chan[h].toHub
        /\ chan'[h].toWorker = IF hub[h].att /\ chan[h].link = "open" THEN chan[h].toWorker \o ms
                               ELSE chan[h].toWorker
    BY <2>6, <2>7, Sent
  <2>9. QED BY <1>2, <2>3, <2>4, <2>5, <2>7, <2>8, SentGrants
<1>7. QED BY <1>4, <1>5, <1>6

\* A socket opens, is welcomed, and closes.
LEMMA SocketGrants ==
  ASSUME TypeOK, Sockets, Holding, Grants, NEW h \in Hubs,
         Connect(h) \/ HubNotices(h) \/ RecvWelcome(h) \/ Flap(h)
  PROVE  Grants'
<1>1. /\ hub \in [Hubs -> HubStates] /\ hub[h] \in HubStates
      /\ chan \in [Hubs -> Channels] /\ chan[h].toHub \in Seq(ToHubMsgs)
      /\ GrantOK(h, chan[h], hub[h], pend, answers, resolved.by)
      /\ pend \in Seq(Relays) /\ AsksFit(pend, chan[h].toHub)
      /\ hub[h].role = "off" => chan[h].link = "none"
  BY GrantFacts
<1>2. UNCHANGED <<answers, resolved>>
  BY DEF Connect, HubNotices, RecvWelcome, Flap, ghosts, durable
<1>3. \A i \in DOMAIN hub[h].running : hub[h].running[i].id # 0
  BY <1>1 DEF GrantOK
<1>4. CASE Connect(h)
  <2>1. /\ chan'[h] = [link |-> "open", toHub |-> << >>, toWorker |-> <<Hello(hub[h].epoch)>>]
        /\ hub[h].role # "off" /\ UNCHANGED <<hub, pend>>
        /\ \A k \in Hubs \ {h} : chan'[k] = chan[k]
    BY <1>1, <1>4 DEF Connect, Closed, Alive, worker
  <2>2. /\ AsksFit(pend, chan'[h].toHub) /\ OwnFit(h, pend, chan'[h].toWorker)
        /\ Foreign(h, chan'[h].toWorker) = {}
    BY <2>1 DEF AsksFit, OwnFit, Foreign, IsAnswer, Hello
  <2>3. GrantOK(h, chan'[h], hub[h], pend, answers, resolved.by)
    BY <1>1, <2>1, <2>2 DEF GrantOK
  <2>4. QED BY <1>2, <2>1, <2>3, HubGrants
<1>5. CASE HubNotices(h)
  <2>1. /\ chan'[h] = Closed /\ UNCHANGED pend
        /\ hub'[h].role = hub[h].role /\ hub'[h].recovers = hub[h].recovers /\ hub'[h].running = hub[h].running
        /\ \A k \in Hubs \ {h} : chan'[k] = chan[k] /\ hub'[k] = hub[k]
    BY <1>1, <1>5 DEF HubNotices, HubStates, worker
  <2>2. /\ AsksFit(pend, chan'[h].toHub) /\ OwnFit(h, pend, chan'[h].toWorker)
        /\ Foreign(h, chan'[h].toWorker) = {}
    BY <2>1 DEF AsksFit, OwnFit, Foreign, Closed
  <2>3. GrantOK(h, chan'[h], hub'[h], pend, answers, resolved.by)
    BY <1>1, <1>3, <2>1, <2>2, GrantKept
  <2>4. QED BY <1>2, <2>1, <2>3, HubGrants
<1>6. CASE RecvWelcome(h)
  <2> DEFINE g == Head(chan[h].toHub).gen
  <2>1. /\ FromWorker(h, "welcome") /\ chan' = ReadBy(h) /\ UNCHANGED pend
        /\ chan[h].toHub # << >> /\ hub[h].role # "off"
    BY <1>6 DEF RecvWelcome, FromWorker, Alive, worker
  <2>2. hub' = [hub EXCEPT ![h].att = TRUE, ![h].gen = g,
                           ![h].served = IF hub[h].gen \in {0, g} THEN @ ELSE {}]
    BY <1>6 DEF RecvWelcome
  <2> HIDE DEF g
  <2>3. /\ hub'[h].role = hub[h].role /\ hub'[h].recovers = hub[h].recovers /\ hub'[h].running = hub[h].running
        /\ \A k \in Hubs \ {h} : hub'[k] = hub[k]
    BY <1>1, <2>2 DEF HubStates
  <2>4. /\ chan'[h].toHub = Tail(chan[h].toHub) /\ chan'[h].toWorker = chan[h].toWorker
        /\ \A k \in Hubs \ {h} : chan'[k] = chan[k]
    BY <1>1, <2>1, ReadByHub DEF ReadBy
  <2>5. AsksFit(pend, chan'[h].toHub)
    BY <1>1, <2>1, <2>4, AsksRead
  <2>6. GrantOK(h, chan'[h], hub'[h], pend, answers, resolved.by)
    BY <1>1, <1>3, <2>1, <2>3, <2>4, <2>5 DEF GrantOK
  <2>7. QED BY <1>2, <2>1, <2>3, <2>4, <2>6, HubGrants
<1>7. CASE Flap(h)
  <2>1. /\ chan'[h].toHub = << >> /\ chan'[h].toWorker = << >>
        /\ \A k \in Hubs \ {h} : chan'[k] = chan[k] /\ hub'[k] = hub[k]
    BY <1>1, <1>7 DEF Closed, HubStates, Flap
  <2>2. hub'[h].role = hub[h].role /\ hub'[h].recovers = hub[h].recovers /\ hub'[h].running = hub[h].running
    BY <1>1, <1>7, SMTT(60) DEF Flap, HubStates
  <2>3. pend' \in {pend, Detached(pend)} /\ chan[h].link = "open"
    BY <1>7, SMTT(60) DEF Flap
  <2>4. \A of : Fits(pend, of) => Fits(pend', of)
    BY <1>1, <2>3, FitsKept
  <2>5. hub[h].role # "off"
    BY <1>1, <2>3
  <2>6. /\ AsksFit(pend', chan'[h].toHub) /\ OwnFit(h, pend', chan'[h].toWorker)
        /\ Foreign(h, chan'[h].toWorker) = {}
    BY <2>1 DEF AsksFit, OwnFit, Foreign
  <2>7. GrantOK(h, chan'[h], hub'[h], pend', answers, resolved.by)
    BY <1>1, <1>3, <2>2, <2>5, <2>6 DEF GrantOK
  <2>8. QED BY <1>2, <2>1, <2>4, <2>7, QuietGrants
<1>8. QED BY <1>4, <1>5, <1>6, <1>7

\* What a hub approves, refuses and decides, it does for the pending invocation.  A
\* decision on record may be for another: it is of another hub process, and h had
\* applied none before.
LEMMA ApprovalGrants ==
  ASSUME TypeOK, Sockets, Holding, Grants, NEW h \in Hubs, "quickRepeat" \notin Env,
         \/ JoinAsk(h) \/ RecoverDecision(h) \/ AutoApprove(h) \/ AskOperator(h)
         \/ Decide(h) \/ Expire(h) \/ CloseWindow(h)
  PROVE  Grants'
<1>1. /\ hub \in [Hubs -> HubStates] /\ hub[h] \in HubStates /\ h \in Nat
      /\ chan \in [Hubs -> Channels] /\ chan[h].toHub \in Seq(ToHubMsgs)
      /\ chan[h].toWorker \in Seq(ToWorkerMsgs)
      /\ GrantOK(h, chan[h], hub[h], pend, answers, resolved.by)
      /\ AsksFit(pend, chan[h].toHub) /\ OwnFit(h, pend, chan[h].toWorker)
  BY GrantFacts
<1>2. UNCHANGED <<pend, answers>>
  BY DEF JoinAsk, RecoverDecision, AutoApprove, AskOperator, Decide, Expire, CloseWindow, worker, ghosts
<1>3. /\ \A k \in Hubs \ {h} : hub'[k] = hub[k]
      /\ hub'[h].running = hub[h].running /\ hub'[h].role = hub[h].role
      /\ hub'[h].recovers => hub[h].recovers
  <2>1. CASE JoinAsk(h)
    BY <1>1, <2>1, SMTT(60) DEF JoinAsk, HubStates
  <2>2. CASE AskOperator(h)
    BY <1>1, <2>2, SMTT(60) DEF AskOperator, HubStates
  <2>3. CASE RecoverDecision(h) \/ AutoApprove(h) \/ CloseWindow(h)
    BY <1>1, <2>3 DEF RecoverDecision, AutoApprove, CloseWindow, HubStates
  <2>4. CASE Decide(h) \/ Expire(h)
    BY <1>1, <2>4 DEF Decide, Expire, Finish, HubStates
  <2>5. QED BY <2>1, <2>2, <2>3, <2>4
<1>4. \A i \in DOMAIN hub'[h].running : hub'[h].running[i].id # 0
  BY <1>1, <1>3 DEF GrantOK
<1>5. CASE JoinAsk(h) \/ AskOperator(h)
  <2>1. FromWorker(h, "relay") /\ chan' = ReadBy(h) /\ UNCHANGED resolved
    BY <1>5 DEF JoinAsk, AskOperator, AskArrives, durable
  <2>2. chan[h].toHub # << >> /\ hub[h].role # "off"
    BY <2>1, AskFits
  <2>3. /\ chan'[h].toHub = Tail(chan[h].toHub) /\ chan'[h].toWorker = chan[h].toWorker
        /\ \A k \in Hubs \ {h} : chan'[k] = chan[k]
    BY <1>1, <2>1, ReadByHub DEF ReadBy
  <2>4. AsksFit(pend, chan'[h].toHub)
    BY <1>1, <2>2, <2>3, AsksRead
  <2>5. GrantOK(h, chan'[h], hub'[h], pend, answers, resolved.by)
    BY <1>1, <1>3, <1>4, <2>2, <2>3, <2>4 DEF GrantOK
  <2>6. QED BY <1>2, <1>3, <2>1, <2>3, <2>5, HubGrants
<1>6. CASE AutoApprove(h) \/ (RecoverDecision(h) /\ decider = "reviewer")
  <2>1. /\ FromWorker(h, "relay") /\ UNCHANGED resolved
        /\ \E who \in Deciders :
             chan' = ToWorker(ReadBy(h), h, <<Reply(Request(h), Request(h).of, h, who)>>)
    <3>1. CASE AutoApprove(h)
      BY <3>1 DEF AutoApprove, AskArrives, Deciders
    <3>2. CASE RecoverDecision(h) /\ decider = "reviewer"
      BY <3>2 DEF RecoverDecision, AskArrives, durable, Deciders
    <3>3. QED BY <1>6, <3>1, <3>2
  <2>2. PICK who \in Deciders : chan' = ToWorker(ReadBy(h), h, <<Reply(Request(h), Request(h).of, h, who)>>)
    BY <2>1
  <2>3. /\ Request(h) \in Requests
        /\ Request(h).id = 0 => Fits(pend, Request(h).of)
        /\ chan[h].toHub # << >> /\ hub[h].role # "off"
    BY <2>1, AskFits
  <2> DEFINE ms == <<Reply(Request(h), Request(h).of, h, who)>>
  <2>4. ms \in Seq(ToWorkerMsgs)
    BY <1>1, <2>3, ReplyTyped, OneElement DEF Requests
  <2>5. Foreign(h, ms) = {} /\ OwnFit(h, pend, ms)
    BY <2>3, OneFits
  <2>6. chan' = ToWorker(ReadBy(h), h, ms)
    BY <2>2
  <2> HIDE DEF ms
  <2>7. /\ \A k \in Hubs \ {h} : chan'[k] = chan[k]
        /\ chan'[h].toHub = Tail(chan[h].toHub)
        /\ chan'[h].toWorker = IF hub[h].att /\ chan[h].link = "open" THEN chan[h].toWorker \o ms
                               ELSE chan[h].toWorker
    BY <2>1, <2>4, <2>6, ReadAndSent
  <2>8. QED BY <1>2, <1>3, <1>4, <2>1, <2>3, <2>4, <2>5, <2>7, SentGrants
<1>7. CASE RecoverDecision(h) /\ decider # "reviewer"
  <2>1. /\ FromWorker(h, "relay") /\ UNCHANGED resolved /\ hub[h].recovers
        /\ hub' = [hub EXCEPT ![h].recovers = FALSE]
        /\ chan' = ToWorker(ReadBy(h), h, <<Reply(Request(h), resolved.of, resolved.by, resolved.who)>>)
    BY <1>7 DEF RecoverDecision, AskArrives, MayRecover, Recorded, durable
  <2>2. Request(h) \in Requests /\ chan[h].toHub # << >> /\ hub[h].role # "off"
    BY <2>1, AskFits
  <2>3. Foreign(h, chan[h].toWorker) = {} /\ Mismatched(h, answers) = {} /\ resolved.by # h
    BY <1>1, <2>1 DEF GrantOK
  <2>4. ~hub'[h].recovers
    BY <1>1, <2>1 DEF HubStates
  <2> DEFINE m == Reply(Request(h), resolved.of, resolved.by, resolved.who)
  <2>5. m \in ToWorkerMsgs /\ m.by # h
    BY <2>2, <2>3, ReplyTyped DEF Requests, TypeOK, DurableOK, Reply
  <2>6. chan' = ToWorker(ReadBy(h), h, <<m>>)
    BY <2>1
  <2> HIDE DEF m
  <2>7. <<m>> \in Seq(ToWorkerMsgs) /\ OwnFit(h, pend, <<m>>)
    BY <2>5, OneElement DEF OwnFit
  <2>8. /\ \A k \in Hubs \ {h} : chan'[k] = chan[k]
        /\ chan'[h].toHub = Tail(chan[h].toHub)
        /\ chan'[h].toWorker = IF hub[h].att /\ chan[h].link = "open" THEN chan[h].toWorker \o <<m>>
                               ELSE chan[h].toWorker
    BY <2>1, <2>6, <2>7, ReadAndSent
  <2>9. AsksFit(pend, chan'[h].toHub)
    BY <1>1, <2>2, <2>8, AsksRead
  <2>10. OwnFit(h, pend, chan'[h].toWorker)
    BY <1>1, <2>7, <2>8, OwnBehind
  <2>11. \A i, j \in Foreign(h, chan'[h].toWorker) : i = j
    <3>1. \A i, j \in Foreign(h, chan[h].toWorker \o <<m>>) : i = j
      BY <1>1, <2>3, <2>5, ForeignFirst
    <3>2. CASE hub[h].att /\ chan[h].link = "open"
      BY <2>8, <3>1, <3>2
    <3>3. CASE ~(hub[h].att /\ chan[h].link = "open")
      BY <2>3, <2>8, <3>3
    <3>4. QED BY <3>2, <3>3
  <2>12. GrantOK(h, chan'[h], hub'[h], pend, answers, resolved.by)
    BY <1>3, <1>4, <2>2, <2>3, <2>4, <2>9, <2>10, <2>11 DEF GrantOK
  <2>13. QED BY <1>2, <1>3, <2>1, <2>8, <2>12, HubGrants
<1>8. CASE Decide(h) \/ Expire(h)
  <2>1. PICK who \in Deciders : Finish(h, who)
    BY <1>8 DEF Decide, Expire, Deciders
  <2> DEFINE m  == Reply([id |-> 0], hub[h].asked, h, who)
             ms == [i \in 1 .. hub[h].waiting |-> m]
  <2>2. /\ m \in ToWorkerMsgs /\ m.by = h /\ m.of = hub[h].asked /\ hub[h].waiting \in Nat
    BY <1>1, ReplyTyped DEF HubStates, Reply
  <2>3. /\ chan' = ToWorker(chan, h, ms) /\ hub[h].role # "off"
        /\ hub' = [hub EXCEPT ![h].asked = 0, ![h].waiting = 0, ![h].recovers = FALSE]
        /\ resolved' = [of |-> hub[h].asked, by |-> h, who |-> who]
    BY <2>1 DEF Finish, Alive
  <2>4. ~hub'[h].recovers /\ resolved'.by = h
    BY <1>1, <2>3 DEF HubStates
  <2>5. hub[h].att /\ chan[h].link = "open" => Fits(pend, hub[h].asked)
    BY <2>1 DEF Finish, Outdated, Fits
  <2> HIDE DEF m
  <2>6. ms \in Seq(ToWorkerMsgs) /\ DOMAIN ms = 1 .. hub[h].waiting /\ \A i \in DOMAIN ms : ms[i] = m
    BY <2>2
  <2> HIDE DEF ms
  <2>7. hub[h].att /\ chan[h].link = "open" => Foreign(h, ms) = {} /\ OwnFit(h, pend, ms)
    BY <2>2, <2>5, <2>6 DEF Foreign, OwnFit
  <2>8. /\ \A k \in Hubs \ {h} : chan'[k] = chan[k]
        /\ chan'[h].toHub = chan[h].toHub
        /\ chan'[h].toWorker = IF hub[h].att /\ chan[h].link = "open" THEN chan[h].toWorker \o ms
                               ELSE chan[h].toWorker
    BY <2>3, <2>6, Sent
  <2>9. QED BY <1>2, <1>3, <1>4, <2>3, <2>4, <2>6, <2>7, <2>8, SentGrants
<1>9. CASE CloseWindow(h)
  BY <1>1, <1>2, <1>3, <1>4, <1>9, HubGrants DEF CloseWindow, durable, GrantOK
<1>10. QED BY <1>5, <1>6, <1>7, <1>8, <1>9

\* hubctl, and the ends of hubs.  A hub that starts has decided nothing.
LEMMA SupervisorGrants ==
  ASSUME TypeOK, Sockets, Holding, Grants, NEW h \in Hubs,
         Supervision(h) \/ BootGreen(h) \/ GreenDies(h) \/ HubCrash(h)
  PROVE  Grants'
<1>1. /\ hub \in [Hubs -> HubStates] /\ hub[h] \in HubStates
      /\ chan \in [Hubs -> Channels]
      /\ chan[h].link \in {"none", "open", "hubGone", "workerGone"}
      /\ GrantOK(h, chan[h], hub[h], pend, answers, resolved.by)
      /\ AsksFit(pend, chan[h].toHub) /\ OwnFit(h, pend, chan[h].toWorker)
  BY GrantFacts
<1>2. UNCHANGED <<pend, answers, resolved>>
  BY DEF Supervision, Drain, Promote, Retire, Rollback, Revive, BootGreen, GreenDies, HubCrash,
         worker, ghosts, durable
<1>3. \A i \in DOMAIN hub[h].running : hub[h].running[i].id # 0
  BY <1>1 DEF GrantOK
<1>4. CASE Retire(h) \/ GreenDies(h) \/ HubCrash(h)
  <2>1. Die(h)
    BY <1>4 DEF Retire, GreenDies, HubCrash
  <2>2. /\ hub'[h].role = "dead" /\ hub'[h].running = << >> /\ ~hub'[h].recovers
        /\ \A k \in Hubs \ {h} : chan'[k] = chan[k] /\ hub'[k] = hub[k]
    BY <1>1, <2>1 DEF Die, NoHub
  <2>3. chan'[h].toHub \in {chan[h].toHub, << >>} /\ chan'[h].toWorker \in {chan[h].toWorker, << >>}
    <3>1. CASE chan[h].link = "open"
      BY <1>1, <2>1, <3>1 DEF Die, Channels
    <3>2. CASE chan[h].link = "hubGone"
      BY <1>1, <2>1, <3>2 DEF Die
    <3>3. CASE chan[h].link \in {"none", "workerGone"}
      BY <1>1, <2>1, <3>3 DEF Die, Closed
    <3>4. QED BY <1>1, <3>1, <3>2, <3>3
  <2>4. /\ AsksFit(pend, chan'[h].toHub) /\ OwnFit(h, pend, chan'[h].toWorker)
        /\ Foreign(h, chan'[h].toWorker) \subseteq Foreign(h, chan[h].toWorker)
    BY <1>1, <2>3 DEF AsksFit, OwnFit, Foreign
  <2>5. GrantOK(h, chan'[h], hub'[h], pend, answers, resolved.by)
    BY <1>1, <2>2, <2>4, GrantKept
  <2>6. QED BY <1>2, <2>2, <2>5, HubGrants
<1>5. CASE Revive(h) \/ BootGreen(h)
  <2>1. /\ hub[h].role = "off" /\ UNCHANGED chan
        /\ \A k \in Hubs \ {h} : hub'[k] = hub[k]
        /\ hub'[h].role # "off" /\ hub'[h].running = << >>
    BY <1>1, <1>5 DEF Revive, BootGreen, Startable, Start, NewHub, NoHub
  <2>2. chan[h] = Closed /\ Mismatched(h, answers) = {} /\ resolved.by # h
    BY <1>1, <2>1 DEF GrantOK
  <2>3. Foreign(h, chan[h].toWorker) = {}
    BY <2>2 DEF Foreign, Closed
  <2>4. GrantOK(h, chan'[h], hub'[h], pend, answers, resolved.by)
    BY <1>1, <2>1, <2>2, <2>3 DEF GrantOK
  <2>5. QED BY <1>2, <2>1, <2>4, HubGrants
<1>6. CASE Drain(h) \/ Promote(h) \/ Rollback(h)
  <2>1. /\ \A k \in Hubs \ {h} : hub'[k] = hub[k]
        /\ hub[h].role # "off" /\ hub'[h].role # "off"
        /\ hub'[h].running = hub[h].running /\ hub'[h].recovers = hub[h].recovers
        /\ \/ UNCHANGED chan
           \/ \E on \in BOOLEAN : chan' = ToWorker(chan, h, <<Draining(on)>>)
    <3>1. CASE Drain(h)
      BY <1>1, <3>1 DEF Drain, HubStates
    <3>2. CASE Promote(h)
      BY <1>1, <3>2 DEF Promote, HubStates
    <3>3. CASE Rollback(h) /\ hub[h].att
      BY <1>1, <3>3 DEF Rollback, HubStates
    <3>4. CASE Rollback(h) /\ ~hub[h].att
      BY <1>1, <3>4 DEF Rollback, HubStates
    <3>5. QED BY <1>6, <3>1, <3>2, <3>3, <3>4
  <2>2. CASE UNCHANGED chan
    BY <1>1, <1>2, <1>3, <2>1, <2>2, HubGrants DEF GrantOK
  <2>3. CASE \E on \in BOOLEAN : chan' = ToWorker(chan, h, <<Draining(on)>>)
    <3>1. PICK on \in BOOLEAN : chan' = ToWorker(chan, h, <<Draining(on)>>)
      BY <2>3
    <3> DEFINE ms == <<Draining(on)>>
    <3>2. ms \in Seq(ToWorkerMsgs)
      BY MessagesTyped, OneElement
    <3>3. Foreign(h, ms) = {} /\ OwnFit(h, pend, ms)
      BY DEF Foreign, OwnFit, IsAnswer, Draining
    <3>4. chan' = ToWorker(chan, h, ms)
      BY <3>1
    <3> HIDE DEF ms
    <3>5. /\ \A k \in Hubs \ {h} : chan'[k] = chan[k]
          /\ chan'[h].toHub = chan[h].toHub
          /\ chan'[h].toWorker = IF hub[h].att /\ chan[h].link = "open" THEN chan[h].toWorker \o ms
                                 ELSE chan[h].toWorker
      BY <3>2, <3>4, Sent
    <3>6. QED BY <1>2, <1>3, <2>1, <3>2, <3>3, <3>5, SentGrants
  <2>4. QED BY <2>1, <2>2, <2>3
<1>7. QED BY <1>4, <1>5, <1>6 DEF Supervision

LEMMA GrantsStep ==
  "quickRepeat" \notin Env => (GInv /\ [Next]_vars => GInv')
<1> SUFFICES ASSUME "quickRepeat" \notin Env, GInv, [Next]_vars PROVE GInv'
  OBVIOUS
<1>1. TypeOK /\ Sockets /\ Holding /\ Grants /\ HInv'
  BY HoldingStep DEF GInv, HInv, IInv
<1>2. SUFFICES Grants'
  BY <1>1 DEF GInv
<1>3. CASE UNCHANGED vars
  BY <1>1, <1>3 DEF Grants, vars, worker, ghosts, durable
<1>4. CASE Next
  <2>1. CASE Call \/ Ask \/ RelayTimeout
    BY <1>1, <2>1, AgentGrants
  <2>2. CASE WorkerDeath
    BY <1>1, <2>2, WorkerDeathGrants
  <2>3. ASSUME NEW h \in Hubs,
               \/ WorkerSteps(h) \/ HubSteps(h) \/ Supervision(h)
               \/ FinishAction(h) \/ Decide(h) \/ Expire(h) \/ CloseWindow(h)
               \/ BootGreen(h) \/ GreenDies(h) \/ HubCrash(h) \/ Flap(h)
        PROVE  Grants'
    <3>1. CASE RecvHello(h)
      BY <1>1, <3>1, AttachGrants
    <3>2. CASE RecvReply(h)
      BY <1>1, <3>2, ReplyGrants
    <3>3. CASE RecvDraining(h) \/ WorkerNotices(h)
      BY <1>1, <3>3, WorkerReadGrants
    <3>4. CASE ServeWrite(h) \/ StartAction(h) \/ FinishAction(h)
      BY <1>1, <3>4, ServeGrants
    <3>5. CASE \/ JoinAsk(h) \/ RecoverDecision(h) \/ AutoApprove(h) \/ AskOperator(h)
               \/ Decide(h) \/ Expire(h) \/ CloseWindow(h)
      BY <1>1, <3>5, ApprovalGrants
    <3>6. CASE Connect(h) \/ HubNotices(h) \/ RecvWelcome(h) \/ Flap(h)
      BY <1>1, <3>6, SocketGrants
    <3>7. CASE Supervision(h) \/ BootGreen(h) \/ GreenDies(h) \/ HubCrash(h)
      BY <1>1, <3>7, SupervisorGrants
    <3>8. QED BY <2>3, <3>1, <3>2, <3>3, <3>4, <3>5, <3>6, <3>7 DEF WorkerSteps, HubSteps
  <2>4. QED BY <1>4, <2>1, <2>2, <2>3 DEF Next
<1>5. QED BY <1>3, <1>4

-----------------------------------------------------------------------------
(* While the answers of a dead worker process are not given to the next    *)
(* one, and no approval is repeated before its last answer has arrived.    *)

\* However often the lane is sent again, and to whichever hub: an rpc is answered by its
\* own execution.
THEOREM AnsweredByItselfCorrect ==
  ASSUME "staleReply" \notin Env
  PROVE  Spec => []AnsweredByItself
<1>1. Init => RInv
  BY SocketsInit, HoldingInit, RpcInit DEF RInv, HInv
<1>2. RInv /\ [Next]_vars => RInv'
  BY RpcsStep
<1>3. RInv => AnsweredByItself
  BY DEF RInv
<1>4. QED BY <1>1, <1>2, <1>3, PTL DEF Spec

\* However hubs are replaced and decisions recovered: one that answers another invocation
\* does so once per hub process, and never in the process that took it.
THEOREM NoStandingGrantCorrect ==
  ASSUME "quickRepeat" \notin Env
  PROVE  Spec => []NoStandingGrant
<1>1. Init => GInv
  BY SocketsInit, HoldingInit, GrantsInit DEF GInv, HInv
<1>2. GInv /\ [Next]_vars => GInv'
  BY GrantsStep
<1>3. GInv => NoStandingGrant
  <2>1. SUFFICES ASSUME GInv, NEW a \in answers, a.req.kind = "approval", a.reply.of # a.req.of
                 PROVE  /\ a.reply.by # a.at
                        /\ \A b \in answers :
                             b.req.kind = "approval" /\ b.reply.of # b.req.of /\ b.at = a.at => b = a
    BY DEF NoStandingGrant
  <2>2. a.at \in Hubs
    BY <2>1 DEF GInv, HInv, IInv, TypeOK, GhostsOK
  <2>3. GrantOK(a.at, chan[a.at], hub[a.at], pend, answers, resolved.by)
    BY <2>1, <2>2 DEF GInv, Grants
  <2>4. a \in Mismatched(a.at, answers)
    BY <2>1 DEF Mismatched
  <2>5. \A b \in answers : b.req.kind = "approval" /\ b.reply.of # b.req.of /\ b.at = a.at =>
                             b \in Mismatched(a.at, answers)
    BY DEF Mismatched
  <2>6. QED BY <2>3, <2>4, <2>5 DEF GrantOK
<1>4. QED BY <1>1, <1>2, <1>3, PTL DEF Spec

\* ... so whatever is relayed is answered by what was done for it.
THEOREM AnswersFitCorrect ==
  ASSUME Env \cap {"staleReply", "quickRepeat"} = {}
  PROVE  Spec => []AnswersFit
<1>1. Spec => []AnsweredByItself
  BY AnsweredByItselfCorrect
<1>2. Spec => []NoStandingGrant
  BY NoStandingGrantCorrect
<1>3. AnsweredByItself /\ NoStandingGrant => AnswersFit
  BY DEF AnswersFit
<1>4. QED BY <1>1, <1>2, <1>3, PTL

=============================================================================
