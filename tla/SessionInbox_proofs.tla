------------------------ MODULE SessionInbox_proofs -------------------------
(***************************************************************************)
(* For all inputs, mail, vendors and bounds of SessionInbox: its types     *)
(* (every environment), and that a turn the hub takes for the operator's   *)
(* was given operator input (without the three interleavings that Careful  *)
(* excludes).                                                              *)
(*                                                                         *)
(* The second needs two invariants: CallInv says which call a frame on the *)
(* socket answers and in which order calls come, TurnInv what the hub can  *)
(* believe, at any moment, of the turn that runs in the worker.            *)
(***************************************************************************)
EXTENDS SessionInbox, FiniteSetTheorems, SequenceTheorems, WellFoundedInduction, TLAPS

-----------------------------------------------------------------------------
(* Types.                                                                  *)

Statuses == {"idle", "active", "error"}
HubStates ==
  [up : BOOLEAN, status : Statuses, busy : BOOLEAN, fresh : SUBSET ListKinds, opTurn : BOOLEAN,
   busTurn : BOOLEAN, steering : BOOLEAN, bundling : BOOLEAN, dispatching : BOOLEAN,
   notice : BOOLEAN, frozen : BOOLEAN, due : BOOLEAN]
Acks  == [t : {"ack"}, call : CallSet, ok : BOOLEAN]
Marks == [t : {"mark"}, kind : Turns, of : SUBSET Inputs, replay : BOOLEAN]
Lives == [t : {"live"}, call : CallSet, held : BOOLEAN, on : BOOLEAN]
HubFrames == Acks \cup Marks \cup Lives
WorkerFrames == [t : {"do"}, call : CallSet] \cup {Notice}
Steers == [call : CallSet, n : Nat]
WorkerStates ==
  [held : BOOLEAN, on : BOOLEAN, n : Nat, op : BOOLEAN, active : BOOLEAN, owed : SUBSET CallSet,
   steers : SUBSET Steers, marks : Seq(Marks), missed : 0 .. MarksKept]
Entries == [input : Inputs, st : {"pending", "dispatching"}, at : Nat]
Boxes == [Mail -> {"none", "pending", "delivered"}]

Types ==
  /\ provider \in Providers /\ steers \in Steering
  /\ box \in Boxes /\ fyi \subseteq Mail
  /\ queue \subseteq Entries
  /\ stored \in Statuses /\ origin \in {"none", "operator", "bus"} /\ noticed \in BOOLEAN
  /\ hub \in HubStates
  /\ calls \subseteq CallSet
  /\ worker \in WorkerStates
  /\ \A s \in worker.steers : s.n <= worker.n
  /\ link \in BOOLEAN
  /\ toHub \in Seq(HubFrames) /\ toWorker \in Seq(WorkerFrames)
  /\ seen \in [Inputs \cup Mail -> Nat]
  /\ told \subseteq Inputs /\ unsure \subseteq Inputs
  /\ faults \in 0 .. MaxFaults

-----------------------------------------------------------------------------
(* Lemmas about calls, frames and sequences.                               *)

\* What a call is made of, and what an answer changes of it.
LEMMA CallTyped ==
  /\ \A k \in Kinds, is \in SUBSET Inputs, ms \in SUBSET Mail : Call(k, is, ms) \in CallSet
  /\ \A c \in CallSet, o \in {"sent", "ok", "fail"} : Answered(c, o) \in CallSet
  /\ \A c \in CallSet : /\ c.kind \in Kinds /\ c.inputs \in SUBSET Inputs /\ c.mails \in SUBSET Mail
                        /\ c.outcome \in {"sent", "ok", "fail"} /\ c.held \in BOOLEAN /\ c.on \in BOOLEAN
BY DEF CallSet, Call, Answered

LEMMA AnsweredFields ==
  ASSUME NEW c \in CallSet, NEW o \in {"sent", "ok", "fail"}
  PROVE  /\ Answered(c, o).kind = c.kind /\ Answered(c, o).inputs = c.inputs
         /\ Answered(c, o).mails = c.mails /\ Answered(c, o).outcome = o
         /\ Answered(c, o).held = c.held /\ Answered(c, o).on = c.on
BY DEF CallSet, Answered

LEMMA CallFields ==
  ASSUME NEW k, NEW is, NEW ms
  PROVE  /\ Call(k, is, ms).kind = k /\ Call(k, is, ms).inputs = is /\ Call(k, is, ms).mails = ms
         /\ Call(k, is, ms).outcome = "sent" /\ Call(k, is, ms).held = FALSE /\ Call(k, is, ms).on = FALSE
BY DEF Call

LEMMA KindSets ==
  /\ TurnKinds \subseteq Kinds /\ SteerKinds \subseteq Kinds /\ ListKinds \subseteq Kinds
  /\ AttachKinds \subseteq Kinds
BY DEF Kinds, TurnKinds, SteerKinds, ListKinds, AttachKinds

\* Every frame is an acknowledgement, a marker or a list of live sessions; every command is
\* a call or a notice.
LEMMA HubFrame ==
  ASSUME NEW f \in HubFrames
  PROVE  /\ f.t \in {"ack", "mark", "live"}
         /\ f.t = "ack" => f \in Acks /\ f.call \in CallSet /\ f.ok \in BOOLEAN
         /\ f.t = "mark" => f \in Marks /\ f.kind \in Turns /\ f.of \in SUBSET Inputs /\ f.replay \in BOOLEAN
         /\ f.t = "live" => f \in Lives /\ f.call \in CallSet /\ f.held \in BOOLEAN /\ f.on \in BOOLEAN
BY DEF HubFrames, Acks, Marks, Lives

LEMMA WorkerFrame ==
  ASSUME NEW f \in WorkerFrames
  PROVE  /\ f.t \in {"do", "notice"}
         /\ f.t = "do" => f.call \in CallSet /\ f = Do(f.call)
         /\ f.t = "notice" => f = Notice
BY DEF WorkerFrames, Notice, Do

LEMMA FramesTyped ==
  /\ \A c \in CallSet, b \in BOOLEAN : Ack(c, b) \in Acks
  /\ \A k \in Turns, is \in SUBSET Inputs : Mark(k, is) \in Marks
  /\ \A c \in CallSet : Do(c) \in WorkerFrames
  /\ Notice \in WorkerFrames
  /\ Acks \subseteq HubFrames /\ Marks \subseteq HubFrames /\ Lives \subseteq HubFrames
BY DEF Ack, Mark, Do, Acks, Marks, WorkerFrames, HubFrames

LEMMA FrameFields ==
  /\ \A c, b : Ack(c, b).t = "ack" /\ Ack(c, b).call = c /\ Ack(c, b).ok = b
  /\ \A k, is : Mark(k, is).t = "mark" /\ Mark(k, is).kind = k /\ Mark(k, is).of = is /\ Mark(k, is).replay = FALSE
  /\ \A c : Do(c).t = "do" /\ Do(c).call = c
  /\ Notice.t = "notice"
BY DEF Ack, Mark, Do, Notice

LEMMA LiveTyped ==
  ASSUME Types, NEW c \in CallSet
  PROVE  /\ Live(c) \in Lives
         /\ Live(c).t = "live" /\ Live(c).call = c /\ Live(c).held = worker.held
         /\ Live(c).on = IF provider = "claude" THEN worker.on ELSE worker.active
BY DEF Live, Lives, Types, WorkerStates

\* Sequences, element by element.
LEMMA AppendElements ==
  ASSUME NEW S, NEW s \in Seq(S), NEW e \in S
  PROVE  /\ Append(s, e) \in Seq(S) /\ Len(Append(s, e)) = Len(s) + 1
         /\ DOMAIN Append(s, e) = 1 .. Len(s) + 1 /\ DOMAIN s = 1 .. Len(s) /\ Len(s) \in Nat
         /\ \A i \in 1 .. Len(s) : Append(s, e)[i] = s[i]
         /\ Append(s, e)[Len(s) + 1] = e
OBVIOUS

LEMMA TailElements ==
  ASSUME NEW S, NEW s \in Seq(S), s # << >>
  PROVE  /\ Tail(s) \in Seq(S) /\ Len(Tail(s)) = Len(s) - 1 /\ Head(s) = s[1] /\ Head(s) \in S
         /\ DOMAIN Tail(s) = 1 .. Len(s) - 1 /\ DOMAIN s = 1 .. Len(s) /\ Len(s) \in Nat \ {0}
         /\ \A i \in 1 .. Len(s) - 1 : Tail(s)[i] = s[i + 1]
OBVIOUS

LEMMA ConcatElements ==
  ASSUME NEW S, NEW s \in Seq(S), NEW u \in Seq(S)
  PROVE  /\ s \o u \in Seq(S) /\ Len(s \o u) = Len(s) + Len(u)
         /\ Len(s) \in Nat /\ Len(u) \in Nat
         /\ DOMAIN (s \o u) = 1 .. Len(s) + Len(u) /\ DOMAIN s = 1 .. Len(s) /\ DOMAIN u = 1 .. Len(u)
         /\ \A i \in 1 .. Len(s) : (s \o u)[i] = s[i]
         /\ \A i \in 1 .. Len(u) : (s \o u)[Len(s) + i] = u[i]
<1>1. /\ s \o u \in Seq(S) /\ Len(s \o u) = Len(s) + Len(u)
      /\ \A i \in 1 .. Len(s) + Len(u) : (s \o u)[i] = IF i <= Len(s) THEN s[i] ELSE u[i - Len(s)]
  BY ConcatProperties
<1>2. Len(s) \in Nat /\ Len(u) \in Nat /\ DOMAIN s = 1 .. Len(s) /\ DOMAIN u = 1 .. Len(u)
  OBVIOUS
<1>3. DOMAIN (s \o u) = 1 .. Len(s) + Len(u)
  BY <1>1
<1>4. ASSUME NEW i \in 1 .. Len(s)
      PROVE  (s \o u)[i] = s[i]
  BY <1>1, <1>2
<1>5. ASSUME NEW i \in 1 .. Len(u)
      PROVE  (s \o u)[Len(s) + i] = u[i]
  BY <1>1, <1>2
<1>6. QED BY <1>1, <1>2, <1>3, <1>4, <1>5

LEMMA FunctionIsSequence ==
  ASSUME NEW S, NEW n \in Nat, NEW f \in [1 .. n -> S]
  PROVE  f \in Seq(S) /\ Len(f) = n
OBVIOUS

LEMMA ShortSequences ==
  ASSUME NEW S
  PROVE  /\ \A a \in S : <<a>> \in Seq(S) /\ Len(<<a>>) = 1 /\ <<a>>[1] = a
         /\ \A a, b \in S : <<a, b>> \in Seq(S) /\ Len(<<a, b>>) = 2 /\ <<a, b>>[1] = a /\ <<a, b>>[2] = b
         /\ \A a, b, c \in S : <<a, b, c>> \in Seq(S) /\ Len(<<a, b, c>>) = 3
                               /\ <<a, b, c>>[1] = a /\ <<a, b, c>>[2] = b /\ <<a, b, c>>[3] = c
         /\ << >> \in Seq(S) /\ Len(<< >>) = 0 /\ DOMAIN << >> = {}
OBVIOUS

\* What the worker emits arrives behind what is on its way, if the socket is open.
LEMMA SendHubElements ==
  ASSUME Types, NEW ms \in Seq(HubFrames), SendHub(ms)
  PROVE  /\ toHub' \in Seq(HubFrames)
         /\ ~link => toHub' = toHub
         /\ link => /\ Len(toHub') = Len(toHub) + Len(ms) /\ DOMAIN toHub' = 1 .. Len(toHub) + Len(ms)
                    /\ \A i \in 1 .. Len(toHub) : toHub'[i] = toHub[i]
                    /\ \A i \in 1 .. Len(ms) : toHub'[Len(toHub) + i] = ms[i]
         /\ DOMAIN toHub = 1 .. Len(toHub) /\ Len(toHub) \in Nat /\ Len(ms) \in Nat
<1>1. toHub \in Seq(HubFrames)
  BY DEF Types
<1>2. CASE link
  BY <1>1, <1>2, ConcatElements DEF SendHub
<1>3. CASE ~link
  BY <1>1, <1>3 DEF SendHub
<1>4. QED BY <1>2, <1>3

\* A call is rejected at once or goes behind what is on its way.
LEMMA IssueElements ==
  ASSUME Types, NEW c \in CallSet, Issue(c)
  PROVE  /\ toWorker' \in Seq(WorkerFrames) /\ calls' \subseteq CallSet
         /\ ~link => toWorker' = toWorker /\ calls' = calls \cup {Answered(c, "fail")}
         /\ link => /\ Len(toWorker') = Len(toWorker) + 1 /\ DOMAIN toWorker' = 1 .. Len(toWorker) + 1
                    /\ \A i \in 1 .. Len(toWorker) : toWorker'[i] = toWorker[i]
                    /\ toWorker'[Len(toWorker) + 1] = Do(c)
                    /\ calls' = calls \cup {c}
         /\ DOMAIN toWorker = 1 .. Len(toWorker) /\ Len(toWorker) \in Nat
<1>1. toWorker \in Seq(WorkerFrames) /\ calls \subseteq CallSet
  BY DEF Types
<1>2. Do(c) \in WorkerFrames /\ Answered(c, "fail") \in CallSet
  BY FramesTyped, CallTyped
<1>3. CASE link
  BY <1>1, <1>2, <1>3, AppendElements DEF Issue
<1>4. CASE ~link
  BY <1>1, <1>2, <1>4 DEF Issue
<1>5. QED BY <1>3, <1>4

\* A continuation that goes on with another call.
LEMMA AsksElements ==
  ASSUME Types, NEW c, NEW k \in Kinds, Asks(c, k)
  PROVE  /\ toWorker' \in Seq(WorkerFrames) /\ calls' \subseteq CallSet
         /\ Call(k, {}, {}) \in CallSet
         /\ Len(toWorker') = Len(toWorker) + 1 /\ DOMAIN toWorker' = 1 .. Len(toWorker) + 1
         /\ \A i \in 1 .. Len(toWorker) : toWorker'[i] = toWorker[i]
         /\ toWorker'[Len(toWorker) + 1] = Do(Call(k, {}, {}))
         /\ calls' = (calls \ {c}) \cup {Call(k, {}, {})}
         /\ DOMAIN toWorker = 1 .. Len(toWorker) /\ Len(toWorker) \in Nat
<1>1. toWorker \in Seq(WorkerFrames) /\ calls \subseteq CallSet
  BY DEF Types
<1>2. Call(k, {}, {}) \in CallSet
  BY CallTyped
<1>3. Do(Call(k, {}, {})) \in WorkerFrames
  BY <1>2, FramesTyped
<1>4. toWorker' = Append(toWorker, Do(Call(k, {}, {}))) /\ calls' = (calls \ {c}) \cup {Call(k, {}, {})}
  BY DEF Asks
<1>5. QED BY <1>1, <1>2, <1>3, <1>4, AppendElements

\* The worker takes the next command.
LEMMA HandlesElements ==
  ASSUME Types, NEW ks, Handles(ks)
  PROVE  /\ toWorker' \in Seq(WorkerFrames) /\ toWorker # << >>
         /\ Head(toWorker) = toWorker[1] /\ 1 \in DOMAIN toWorker
         /\ toWorker[1].t = "do" /\ toWorker[1].call \in CallSet /\ toWorker[1].call.kind \in ks
         /\ Len(toWorker') = Len(toWorker) - 1
         /\ DOMAIN toWorker' = 1 .. Len(toWorker) - 1 /\ DOMAIN toWorker = 1 .. Len(toWorker)
         /\ Len(toWorker) \in Nat \ {0}
         /\ \A i \in 1 .. Len(toWorker) - 1 : toWorker'[i] = toWorker[i + 1]
BY TailElements, WorkerFrame DEF Types, Handles

\* The hub takes the next frame.
LEMMA ReadsElements ==
  ASSUME Types, NEW k, Reads(k)
  PROVE  /\ toHub' \in Seq(HubFrames) /\ hub.up /\ link
         /\ Head(toHub) = toHub[1] /\ 1 \in DOMAIN toHub /\ toHub[1] \in HubFrames /\ toHub[1].t = k
         /\ Len(toHub') = Len(toHub) - 1
         /\ DOMAIN toHub' = 1 .. Len(toHub) - 1 /\ DOMAIN toHub = 1 .. Len(toHub)
         /\ Len(toHub) \in Nat \ {0}
         /\ \A i \in 1 .. Len(toHub) - 1 : toHub'[i] = toHub[i + 1]
BY TailElements DEF Types, Reads

LEMMA SuffixElements ==
  ASSUME NEW S, NEW s \in Seq(S), NEW k \in 1 .. Len(s)
  PROVE  LET u == SubSeq(s, Len(s) - k + 1, Len(s))
         IN u \in Seq(S) /\ Len(u) = k /\ u # << >> /\ u[k] = s[Len(s)]
<1> DEFINE n == Len(s)
           m == n - k + 1
           u == SubSeq(s, m, n)
<1>1. n \in Nat /\ k \in 1 .. n /\ \A i \in 1 .. n : s[i] \in S
  OBVIOUS
<1> HIDE DEF n
<1>2. m \in 1 .. n /\ m \in Int /\ n \in Int /\ n - m + 1 = k /\ m <= n /\ m + k - 1 = n /\ k \in 1 .. k
  BY <1>1
<1> HIDE DEF m
<1>3. \A i \in m .. n : s[i] \in S
  BY <1>1, <1>2
<1>4. /\ u \in Seq(S) /\ Len(u) = IF m <= n THEN n - m + 1 ELSE 0
      /\ \A i \in 1 .. n - m + 1 : u[i] = s[m + i - 1]
  BY <1>2, <1>3, SubSeqProperties
<1> HIDE DEF u
<1>5. u \in Seq(S) /\ Len(u) = k /\ u[k] = s[n]
  BY <1>2, <1>4
<1>6. u # << >>
  BY <1>1, <1>5
<1>7. QED BY <1>5, <1>6 DEF u, m, n

\* The worker's marker ring after new markers: typed, and it ends with the last of them.
LEMMA EmittedMarks ==
  ASSUME Types, NEW ms \in Seq(Marks), ms # << >>
  PROVE  /\ Emitted(ms) \in WorkerStates
         /\ Emitted(ms).marks # << >>
         /\ Emitted(ms).marks[Len(Emitted(ms).marks)] = ms[Len(ms)]
         /\ Emitted(ms).active = (ms[Len(ms)].kind = "started")
         /\ Emitted(ms).held = worker.held /\ Emitted(ms).on = worker.on /\ Emitted(ms).n = worker.n
         /\ Emitted(ms).op = worker.op /\ Emitted(ms).owed = worker.owed /\ Emitted(ms).steers = worker.steers
<1> DEFINE all == worker.marks \o ms
           l == Len(all)
           m == IF link THEN worker.missed ELSE AtMost(worker.missed + Len(ms))
           kept == SubSeq(all, l - AtMost(l) + 1, l)
<1>1. worker \in WorkerStates /\ worker.marks \in Seq(Marks) /\ worker.missed \in 0 .. 2
  BY DEF Types, WorkerStates, MarksKept
<1>2. /\ all \in Seq(Marks) /\ l = Len(worker.marks) + Len(ms) /\ Len(ms) \in Nat \ {0}
      /\ Len(worker.marks) \in Nat /\ all[l] = ms[Len(ms)]
  BY <1>1, ConcatElements
<1>3. m \in 0 .. MarksKept
  BY <1>1, <1>2 DEF AtMost, MarksKept
<1>4. AtMost(l) \in 1 .. l /\ l \in Nat \ {0}
  BY <1>2 DEF AtMost, MarksKept
<1>5. kept \in Seq(Marks) /\ kept # << >> /\ kept[Len(kept)] = all[l]
  BY <1>2, <1>4, SuffixElements
<1>6. Emitted(ms) = [worker EXCEPT !.marks = kept, !.missed = m, !.active = (ms[Len(ms)].kind = "started")]
  BY DEF Emitted
<1> HIDE DEF kept, m, all, l
<1>7. /\ Emitted(ms).marks = kept
      /\ Emitted(ms).active = (ms[Len(ms)].kind = "started")
      /\ Emitted(ms).held = worker.held /\ Emitted(ms).on = worker.on /\ Emitted(ms).n = worker.n
      /\ Emitted(ms).op = worker.op /\ Emitted(ms).owed = worker.owed /\ Emitted(ms).steers = worker.steers
      /\ Emitted(ms) \in WorkerStates
  BY <1>1, <1>3, <1>5, <1>6 DEF WorkerStates
<1>8. QED BY <1>2, <1>5, <1>7

\* Giving calls up changes only the outcome that their requests and replies carry.
LEMMA GivenUpCall ==
  ASSUME NEW cs, NEW c \in CallSet
  PROVE  /\ GivenUp(c, cs) \in CallSet
         /\ GivenUp(c, cs).kind = c.kind /\ GivenUp(c, cs).inputs = c.inputs /\ GivenUp(c, cs).mails = c.mails
         /\ GivenUp(c, cs).outcome \in {c.outcome, "fail"}
         /\ c \in cs => GivenUp(c, cs).outcome = "fail"
         /\ c \notin cs => GivenUp(c, cs) = c
BY CallTyped, AnsweredFields DEF GivenUp

LEMMA HubFramesWithout ==
  ASSUME NEW fs \in Seq(HubFrames), NEW cs
  PROVE  /\ FramesWithout(fs, cs) \in Seq(HubFrames) /\ Len(FramesWithout(fs, cs)) = Len(fs)
         /\ DOMAIN FramesWithout(fs, cs) = DOMAIN fs /\ DOMAIN fs = 1 .. Len(fs)
         /\ \A j \in DOMAIN fs :
              /\ FramesWithout(fs, cs)[j].t = fs[j].t
              /\ fs[j].t = "mark" => FramesWithout(fs, cs)[j] = fs[j]
              /\ fs[j].t = "ack" => FramesWithout(fs, cs)[j].call = GivenUp(fs[j].call, cs) /\ FramesWithout(fs, cs)[j].ok = fs[j].ok
              /\ fs[j].t = "live" => /\ FramesWithout(fs, cs)[j].call = GivenUp(fs[j].call, cs)
                                     /\ FramesWithout(fs, cs)[j].held = fs[j].held /\ FramesWithout(fs, cs)[j].on = fs[j].on
<1>1. DOMAIN fs = 1 .. Len(fs) /\ Len(fs) \in Nat /\ \A j \in DOMAIN fs : fs[j] \in HubFrames
  OBVIOUS
<1>2. ASSUME NEW f \in HubFrames
      PROVE  /\ FrameWithout(f, cs) \in HubFrames /\ FrameWithout(f, cs).t = f.t
             /\ f.t = "mark" => FrameWithout(f, cs) = f
             /\ f.t = "ack" => FrameWithout(f, cs).call = GivenUp(f.call, cs) /\ FrameWithout(f, cs).ok = f.ok
             /\ f.t = "live" => /\ FrameWithout(f, cs).call = GivenUp(f.call, cs)
                                /\ FrameWithout(f, cs).held = f.held /\ FrameWithout(f, cs).on = f.on
  <2>1. CASE f.t = "mark"
    BY <2>1 DEF FrameWithout
  <2>2. CASE f.t = "ack"
    BY <2>2, HubFrame, GivenUpCall, FramesTyped DEF FrameWithout, Acks
  <2>3. CASE f.t = "live"
    BY <2>3, HubFrame, GivenUpCall, FramesTyped DEF FrameWithout, Lives
  <2>4. QED BY <2>1, <2>2, <2>3, HubFrame
<1>3. FramesWithout(fs, cs) = [j \in 1 .. Len(fs) |-> FrameWithout(fs[j], cs)]
  BY <1>1 DEF FramesWithout
<1>4. FramesWithout(fs, cs) \in [1 .. Len(fs) -> HubFrames]
  BY <1>1, <1>2, <1>3
<1>5. FramesWithout(fs, cs) \in Seq(HubFrames) /\ Len(FramesWithout(fs, cs)) = Len(fs)
  BY <1>1, <1>4, FunctionIsSequence
<1>6. QED BY <1>1, <1>2, <1>3, <1>5

LEMMA WorkerFramesWithout ==
  ASSUME NEW fs \in Seq(WorkerFrames), NEW cs
  PROVE  /\ FramesWithout(fs, cs) \in Seq(WorkerFrames) /\ Len(FramesWithout(fs, cs)) = Len(fs)
         /\ DOMAIN FramesWithout(fs, cs) = DOMAIN fs /\ DOMAIN fs = 1 .. Len(fs)
         /\ \A j \in DOMAIN fs :
              /\ FramesWithout(fs, cs)[j].t = fs[j].t
              /\ fs[j].t = "do" => FramesWithout(fs, cs)[j].call = GivenUp(fs[j].call, cs)
<1>1. DOMAIN fs = 1 .. Len(fs) /\ Len(fs) \in Nat /\ \A j \in DOMAIN fs : fs[j] \in WorkerFrames
  OBVIOUS
<1>2. ASSUME NEW f \in WorkerFrames
      PROVE  /\ FrameWithout(f, cs) \in WorkerFrames /\ FrameWithout(f, cs).t = f.t
             /\ f.t = "do" => FrameWithout(f, cs).call = GivenUp(f.call, cs)
  <2>1. CASE f.t = "do"
    BY <2>1, WorkerFrame, GivenUpCall DEF Do, FrameWithout, WorkerFrames
  <2>2. CASE f.t = "notice"
    BY <2>2 DEF FrameWithout
  <2>3. QED BY <2>1, <2>2, WorkerFrame
<1>3. FramesWithout(fs, cs) = [j \in 1 .. Len(fs) |-> FrameWithout(fs[j], cs)]
  BY <1>1 DEF FramesWithout
<1>4. FramesWithout(fs, cs) \in [1 .. Len(fs) -> WorkerFrames]
  BY <1>1, <1>2, <1>3
<1>5. FramesWithout(fs, cs) \in Seq(WorkerFrames) /\ Len(FramesWithout(fs, cs)) = Len(fs)
  BY <1>1, <1>4, FunctionIsSequence
<1>6. QED BY <1>1, <1>2, <1>3, <1>5

LEMMA WorkerWithoutFields ==
  ASSUME Types, NEW cs
  PROVE  /\ WorkerWithout(cs) \in WorkerStates
         /\ WorkerWithout(cs).held = worker.held /\ WorkerWithout(cs).on = worker.on
         /\ WorkerWithout(cs).n = worker.n /\ WorkerWithout(cs).op = worker.op
         /\ WorkerWithout(cs).active = worker.active /\ WorkerWithout(cs).marks = worker.marks
         /\ WorkerWithout(cs).missed = worker.missed
         /\ WorkerWithout(cs).owed = {GivenUp(c, cs) : c \in worker.owed}
         /\ \A t \in WorkerWithout(cs).steers :
              \E s \in worker.steers : t.n = s.n /\ t.call = GivenUp(s.call, cs) /\ t = [s EXCEPT !.call = GivenUp(s.call, cs)]
         /\ \A t \in WorkerWithout(cs).steers : t.n <= worker.n
<1>1. /\ worker \in WorkerStates /\ worker.owed \subseteq CallSet /\ worker.steers \subseteq Steers
      /\ \A s \in worker.steers : s.n <= worker.n
  BY DEF Types, WorkerStates
<1> DEFINE o == {GivenUp(c, cs) : c \in worker.owed}
           st == {[s EXCEPT !.call = GivenUp(s.call, cs)] : s \in worker.steers}
<1>2. o \subseteq CallSet
  BY <1>1, GivenUpCall
<1>3. \A s \in worker.steers : /\ [s EXCEPT !.call = GivenUp(s.call, cs)] \in Steers
                               /\ [s EXCEPT !.call = GivenUp(s.call, cs)].n = s.n
                               /\ [s EXCEPT !.call = GivenUp(s.call, cs)].call = GivenUp(s.call, cs)
  <2>1. TAKE s \in worker.steers
  <2>2. s \in Steers /\ GivenUp(s.call, cs) \in CallSet
    BY <1>1, GivenUpCall DEF Steers
  <2>3. QED BY <2>2 DEF Steers
<1>4. WorkerWithout(cs) = [worker EXCEPT !.owed = o, !.steers = st]
  BY DEF WorkerWithout
<1>5. st \subseteq Steers
  BY <1>3
<1>6. /\ WorkerWithout(cs).steers = st /\ WorkerWithout(cs).owed = o
      /\ WorkerWithout(cs).held = worker.held /\ WorkerWithout(cs).on = worker.on
      /\ WorkerWithout(cs).n = worker.n /\ WorkerWithout(cs).op = worker.op
      /\ WorkerWithout(cs).active = worker.active /\ WorkerWithout(cs).marks = worker.marks
      /\ WorkerWithout(cs).missed = worker.missed /\ WorkerWithout(cs) \in WorkerStates
  <2> HIDE DEF o, st
  <2>1. QED BY <1>1, <1>2, <1>4, <1>5 DEF WorkerStates
<1>7. QED BY <1>1, <1>3, <1>6

\* Closing the socket.
LEMMA FailedCalls ==
  ASSUME Types
  PROVE  /\ Failed \subseteq CallSet
         /\ \A d \in Failed : \E c \in calls : /\ d.kind = c.kind /\ d.inputs = c.inputs /\ d.mails = c.mails
                                               /\ d = IF c.outcome = "sent" THEN Answered(c, "fail") ELSE c
         /\ \A d \in Failed : d.outcome # "sent"
         /\ \A c \in calls : (IF c.outcome = "sent" THEN Answered(c, "fail") ELSE c) \in Failed
<1>1. calls \subseteq CallSet
  BY DEF Types
<1>2. QED BY <1>1, CallTyped, AnsweredFields DEF Failed

LEMMA LostMarksTyped ==
  ASSUME Types
  PROVE  LostMarks \in 0 .. MarksKept
<1>1. toHub \in Seq(HubFrames) /\ worker.missed \in 0 .. 2
  BY DEF Types, WorkerStates, MarksKept
<1> DEFINE J == {j \in DOMAIN toHub : toHub[j].t = "mark"}
<1>2. IsFiniteSet(J) /\ Cardinality(J) \in Nat
  <2>1. DOMAIN toHub = 1 .. Len(toHub) /\ Len(toHub) \in Nat
    BY <1>1
  <2>2. IsFiniteSet(1 .. Len(toHub))
    BY <2>1, FS_Interval
  <2>3. IsFiniteSet(J)
    BY <2>1, <2>2, FS_Subset
  <2>4. QED BY <2>3, FS_CardinalityType
<1>3. LostMarks = AtMost(worker.missed + Cardinality(J))
  BY DEF LostMarks
<1>4. QED BY <1>1, <1>2, <1>3 DEF AtMost, MarksKept

-----------------------------------------------------------------------------
(* The hub's record.                                                       *)

LEMMA HubFields ==
  ASSUME NEW r \in HubStates
  PROVE  /\ r.up \in BOOLEAN /\ r.status \in Statuses /\ r.busy \in BOOLEAN /\ r.fresh \in SUBSET ListKinds
         /\ r.opTurn \in BOOLEAN /\ r.busTurn \in BOOLEAN /\ r.steering \in BOOLEAN /\ r.bundling \in BOOLEAN
         /\ r.dispatching \in BOOLEAN /\ r.notice \in BOOLEAN /\ r.frozen \in BOOLEAN /\ r.due \in BOOLEAN
BY DEF HubStates

LEMMA BootedFields ==
  ASSUME NEW s \in Statuses
  PROVE  /\ Booted(s) \in HubStates /\ Booted(s).up = FALSE /\ Booted(s).status = s /\ Booted(s).busy = FALSE
         /\ Booted(s).fresh = {} /\ Booted(s).opTurn = FALSE /\ Booted(s).steering = FALSE
         /\ Booted(s).dispatching = FALSE
BY DEF Booted, HubStates

LEMMA SetBusyFields ==
  ASSUME NEW r \in HubStates, NEW b \in BOOLEAN
  PROVE  /\ SetBusy(r, b) \in HubStates
         /\ SetBusy(r, b).busy = b /\ SetBusy(r, b).fresh = {}
         /\ SetBusy(r, b).up = r.up /\ SetBusy(r, b).status = r.status /\ SetBusy(r, b).opTurn = r.opTurn
         /\ SetBusy(r, b).busTurn = r.busTurn /\ SetBusy(r, b).steering = r.steering
         /\ SetBusy(r, b).bundling = r.bundling /\ SetBusy(r, b).dispatching = r.dispatching
         /\ SetBusy(r, b).notice = r.notice /\ SetBusy(r, b).frozen = r.frozen /\ SetBusy(r, b).due = r.due
BY DEF SetBusy, HubStates

LEMMA SetStatusFields ==
  ASSUME NEW r \in HubStates, NEW s \in Statuses
  PROVE  /\ SetStatus(r, s) \in HubStates
         /\ SetStatus(r, s).status = s /\ SetStatus(r, s).opTurn = (r.opTurn /\ s = "active")
         /\ SetStatus(r, s).up = r.up /\ SetStatus(r, s).busy = r.busy /\ SetStatus(r, s).fresh = r.fresh
         /\ SetStatus(r, s).steering = r.steering /\ SetStatus(r, s).dispatching = r.dispatching
         /\ SetStatus(r, s).bundling = r.bundling /\ SetStatus(r, s).frozen = r.frozen
<1> DEFINE a == r.opTurn /\ s = "active"
           b == r.busTurn /\ s = "active"
           n == r.notice /\ s = "active"
           d == r.due \/ s = "idle"
<1>1. a \in BOOLEAN /\ b \in BOOLEAN /\ n \in BOOLEAN /\ d \in BOOLEAN
  BY HubFields
<1>2. SetStatus(r, s) = [r EXCEPT !.status = s, !.opTurn = a, !.busTurn = b, !.notice = n, !.due = d]
  BY DEF SetStatus
<1>3. a = (r.opTurn /\ s = "active")
  OBVIOUS
<1> HIDE DEF a, b, n, d
<1>4. /\ SetStatus(r, s) \in HubStates
      /\ SetStatus(r, s).status = s /\ SetStatus(r, s).opTurn = a
      /\ SetStatus(r, s).up = r.up /\ SetStatus(r, s).busy = r.busy /\ SetStatus(r, s).fresh = r.fresh
      /\ SetStatus(r, s).steering = r.steering /\ SetStatus(r, s).dispatching = r.dispatching
      /\ SetStatus(r, s).bundling = r.bundling /\ SetStatus(r, s).frozen = r.frozen
  BY <1>1, <1>2 DEF HubStates
<1>5. QED BY <1>3, <1>4

LEMMA RepairedFields ==
  ASSUME NEW r \in HubStates, NEW c \in CallSet
  PROVE  /\ Repaired(r, c) \in HubStates
         /\ Repaired(r, c).up = r.up /\ Repaired(r, c).status = r.status /\ Repaired(r, c).opTurn = r.opTurn
         /\ Repaired(r, c).steering = r.steering /\ Repaired(r, c).dispatching = r.dispatching
         /\ Repaired(r, c).fresh = r.fresh \/ Repaired(r, c).fresh = {}
         /\ c.kind \notin r.fresh => Repaired(r, c) = r
         /\ c.held /\ c.on => Repaired(r, c).busy = r.busy \/ Repaired(r, c).busy = TRUE
         /\ Repaired(r, c).busy \in BOOLEAN
<1>1. c.on \in BOOLEAN /\ c.held \in BOOLEAN
  BY CallTyped
<1>2. ASSUME NEW b \in BOOLEAN
      PROVE  /\ SetBusy(r, b) \in HubStates
             /\ SetBusy(r, b).up = r.up /\ SetBusy(r, b).status = r.status /\ SetBusy(r, b).opTurn = r.opTurn
             /\ SetBusy(r, b).steering = r.steering /\ SetBusy(r, b).dispatching = r.dispatching
             /\ SetBusy(r, b).fresh = {} /\ SetBusy(r, b).busy = b
  BY SetBusyFields
<1>3. CASE c.kind \notin r.fresh
  BY <1>3, HubFields DEF Repaired
<1>4. CASE c.kind \in r.fresh /\ c.held
  BY <1>1, <1>2, <1>4 DEF Repaired
<1>5. CASE c.kind \in r.fresh /\ ~c.held
  BY <1>2, <1>5, HubFields DEF Repaired
<1>6. QED BY <1>1, <1>3, <1>4, <1>5

LEMMA SteerEndsFields ==
  ASSUME NEW r \in HubStates, NEW a \in BOOLEAN, NEW b
  PROVE  /\ SteerEnds(r, a, b) \in HubStates
         /\ SteerEnds(r, a, b).up = r.up /\ SteerEnds(r, a, b).status = r.status /\ SteerEnds(r, a, b).opTurn = r.opTurn
         /\ SteerEnds(r, a, b).busy = r.busy /\ SteerEnds(r, a, b).fresh = r.fresh
         /\ SteerEnds(r, a, b).dispatching = r.dispatching /\ SteerEnds(r, a, b).steering = FALSE
<1> DEFINE d == r.due \/ (~a /\ r.status = "idle") \/ (a /\ \E m \in Mail : b[m] = "pending")
<1>1. d \in BOOLEAN
  BY HubFields
<1>2. SteerEnds(r, a, b) = [r EXCEPT !.steering = FALSE, !.due = d]
  BY DEF SteerEnds
<1> HIDE DEF d
<1>3. QED BY <1>1, <1>2 DEF HubStates

LEMMA TypesConsequences ==
  ASSUME Types
  PROVE  /\ hub \in HubStates /\ worker \in WorkerStates /\ calls \subseteq CallSet
         /\ toHub \in Seq(HubFrames) /\ toWorker \in Seq(WorkerFrames)
         /\ DOMAIN toHub = 1 .. Len(toHub) /\ Len(toHub) \in Nat
         /\ DOMAIN toWorker = 1 .. Len(toWorker) /\ Len(toWorker) \in Nat
         /\ \A j \in DOMAIN toHub : toHub[j] \in HubFrames
         /\ \A j \in DOMAIN toWorker : toWorker[j] \in WorkerFrames
         /\ worker.on \in BOOLEAN /\ worker.held \in BOOLEAN /\ worker.active \in BOOLEAN /\ worker.op \in BOOLEAN
         /\ worker.n \in Nat /\ worker.owed \subseteq CallSet /\ worker.steers \subseteq Steers
         /\ worker.marks \in Seq(Marks) /\ worker.missed \in 0 .. MarksKept
         /\ link \in BOOLEAN /\ steers \in BOOLEAN /\ provider \in {"claude", "codex"}
BY InboxAssumption DEF Types, WorkerStates

LEMMA AppendCommand ==
  ASSUME Types, NEW f \in WorkerFrames
  PROVE  Append(toWorker, f) \in Seq(WorkerFrames)
BY AppendElements DEF Types

LEMMA DeliveredTyped ==
  ASSUME NEW b \in Boxes, NEW ms
  PROVE  Delivered(b, ms) \in Boxes
BY DEF Delivered, Boxes

LEMMA ReadTyped ==
  ASSUME Types, NEW items, Read(items)
  PROVE  seen' \in [Inputs \cup Mail -> Nat]
BY DEF Types, Read

LEMMA FaultTyped ==
  ASSUME Types, Fault
  PROVE  faults' \in 0 .. MaxFaults
BY InboxAssumption DEF Types, Fault

LEMMA PendingMail ==
  ASSUME NEW b
  PROVE  {m \in Mail : b[m] = "pending"} \in SUBSET Mail
OBVIOUS

LEMMA QueueTyped ==
  ASSUME Types
  PROVE  /\ Waiting(queue) \subseteq Entries /\ Sent(queue) \subseteq Inputs
         /\ \A e \in queue : e \in Entries /\ e.input \in Inputs /\ e.st \in {"pending", "dispatching"} /\ e.at \in Nat
BY DEF Types, Waiting, Sent, Entries

-----------------------------------------------------------------------------
(* The outcomes of deliverBus().                                           *)

PendingIn(b) == {m \in Mail : b[m] = "pending"}
DeliversNothing(r, b) ==
  /\ hub' = r /\ box' = b /\ NoCall
  /\ UNCHANGED <<queue, stored, origin, noticed, unsure>>
GivesUp(r, b) ==
  /\ r.status = "idle" /\ ~r.dispatching /\ ~r.busy /\ Oldest(queue).st = "dispatching"
  /\ queue' = Waiting(queue) /\ unsure' = unsure \cup Sent(queue)
  /\ hub' = SetStatus(r, "error") /\ stored' = "error" /\ box' = b /\ NoCall
  /\ UNCHANGED <<origin, noticed>>
HandsOver(r, b, batch) ==
  /\ r.status = "idle" /\ ~r.dispatching /\ ~r.busy
  /\ queue # {} /\ Oldest(queue).st = "pending"
  /\ \E last \in queue : batch = {e \in queue : e.at <= last.at} /\ last \in batch
  /\ queue' = (queue \ batch) \cup {[e EXCEPT !.st = "dispatching"] : e \in batch}
  /\ hub' = SetBusy([r EXCEPT !.dispatching = TRUE, !.opTurn = TRUE], TRUE)
  /\ Issue(Call("deferred", {e.input : e \in batch}, {}))
  /\ origin' = "operator" /\ noticed' = FALSE /\ box' = b
  /\ UNCHANGED <<stored, unsure>>
Notices(r, b) ==
  /\ r.status = "active"
  /\ NoticePendingBus(r, b) /\ box' = b
SteersMail(r, b) ==
  /\ r.status = "active" /\ ~r.steering
  /\ hub' = [r EXCEPT !.steering = TRUE]
  /\ Issue(Call("mail", {}, PendingIn(b)))
  /\ box' = b /\ UNCHANGED <<queue, stored, origin, noticed, unsure>>
WakesUp(r, b) ==
  /\ r.status = "idle" /\ ~r.opTurn /\ ~(provider = "claude" /\ r.busy)
  /\ box' = Delivered(b, PendingIn(b))
  /\ origin' = "bus" /\ noticed' = FALSE
  /\ hub' = SetBusy([r EXCEPT !.busTurn = TRUE], TRUE)
  /\ Issue(Call("bus", {}, PendingIn(b)))
  /\ UNCHANGED <<queue, stored, unsure>>

LEMMA DeliverCases ==
  ASSUME Types, NEW r \in HubStates, NEW b, NEW f, DeliverBus(r, b, f)
  PROVE  \/ DeliversNothing(r, b) \/ GivesUp(r, b) \/ \E batch \in SUBSET queue : HandsOver(r, b, batch)
         \/ Notices(r, b) \/ SteersMail(r, b) \/ WakesUp(r, b)
<1> DEFINE ms == PendingIn(b)
<1> USE DEF PendingIn
<1>1. CASE r.frozen \/ r.bundling
  BY <1>1 DEF DeliverBus, DeliversNothing
<1>2. CASE ~(r.frozen \/ r.bundling) /\ r.status = "idle" /\ queue # {}
  <2>1. DispatchDeferred(r) /\ box' = b
    BY <1>2 DEF DeliverBus
  <2>2. CASE r.dispatching \/ r.busy
    BY <2>1, <2>2 DEF DispatchDeferred, DeliversNothing
  <2>3. CASE ~(r.dispatching \/ r.busy) /\ Oldest(queue).st = "dispatching"
    BY <1>2, <2>1, <2>3 DEF DispatchDeferred, GivesUp
  <2>4. CASE ~(r.dispatching \/ r.busy) /\ Oldest(queue).st # "dispatching"
    <3>1. /\ Oldest(queue).st = "pending"
          /\ \E last \in queue :
               LET batch == {e \in queue : e.at <= last.at}
               IN /\ queue' = (queue \ batch) \cup {[e EXCEPT !.st = "dispatching"] : e \in batch}
                  /\ StartTurn([r EXCEPT !.dispatching = TRUE, !.opTurn = TRUE],
                               Call("deferred", {e.input : e \in batch}, {}))
          /\ NewTurn("operator") /\ UNCHANGED <<stored, unsure>>
      BY <2>1, <2>4 DEF DispatchDeferred
    <3>2. PICK last \in queue :
            LET batch == {e \in queue : e.at <= last.at}
            IN /\ queue' = (queue \ batch) \cup {[e EXCEPT !.st = "dispatching"] : e \in batch}
               /\ StartTurn([r EXCEPT !.dispatching = TRUE, !.opTurn = TRUE],
                            Call("deferred", {e.input : e \in batch}, {}))
      BY <3>1
    <3> DEFINE batch == {e \in queue : e.at <= last.at}
    <3>3. last \in batch
      BY DEF Types, Entries
    <3>4. /\ queue' = (queue \ batch) \cup {[e EXCEPT !.st = "dispatching"] : e \in batch}
          /\ hub' = SetBusy([r EXCEPT !.dispatching = TRUE, !.opTurn = TRUE], TRUE)
          /\ Issue(Call("deferred", {e.input : e \in batch}, {}))
      BY <3>2 DEF StartTurn
    <3>5. \E l \in queue : batch = {e \in queue : e.at <= l.at} /\ l \in batch
      BY <3>3
    <3>6. origin' = "operator" /\ noticed' = FALSE /\ UNCHANGED <<stored, unsure>>
      BY <3>1 DEF NewTurn
    <3>7. batch \in SUBSET queue
      OBVIOUS
    <3> HIDE DEF batch
    <3>8. HandsOver(r, b, batch)
      BY <1>2, <2>1, <2>4, <3>1, <3>4, <3>5, <3>6 DEF HandsOver
    <3>9. QED BY <3>7, <3>8
  <2>5. QED BY <2>2, <2>3, <2>4
<1>3. CASE ~(r.frozen \/ r.bundling) /\ ~(r.status = "idle" /\ queue # {}) /\ r.status = "idle" /\ r.opTurn
  BY <1>3 DEF DeliverBus, DeliversNothing
<1>4. CASE ~(r.frozen \/ r.bundling) /\ r.status = "active" /\ ~steers
  BY <1>4 DEF DeliverBus, DeliversNothing, Notices
<1>5. CASE ~(r.frozen \/ r.bundling) /\ r.status = "active" /\ steers
  BY <1>5 DEF DeliverBus, DeliversNothing, SteersMail
<1>6. CASE /\ ~(r.frozen \/ r.bundling) /\ ~(r.status = "idle" /\ queue # {}) /\ ~(r.status = "idle" /\ r.opTurn)
           /\ r.status # "active"
  <2>1. CASE r.status # "idle" \/ (provider = "claude" /\ r.busy) \/ ms \subseteq f
    BY <1>6, <2>1 DEF DeliverBus, DeliversNothing
  <2>2. CASE ~(r.status # "idle" \/ (provider = "claude" /\ r.busy) \/ ms \subseteq f)
    BY <1>6, <2>2 DEF DeliverBus, WakesUp, NewTurn, StartTurn
  <2>3. QED BY <2>1, <2>2
<1>7. r.status \in Statuses /\ steers \in BOOLEAN
  BY HubFields, TypesConsequences
<1>8. QED BY <1>1, <1>2, <1>3, <1>4, <1>5, <1>6

\* The hub states the branches leave.
LEMMA HandoffFields ==
  ASSUME NEW r \in HubStates
  PROVE  LET h == SetBusy([r EXCEPT !.dispatching = TRUE, !.opTurn = TRUE], TRUE)
         IN /\ h \in HubStates /\ h.up = r.up /\ h.status = r.status /\ h.busy = TRUE /\ h.fresh = {}
            /\ h.opTurn = TRUE /\ h.steering = r.steering /\ h.dispatching = TRUE
<1>1. /\ [r EXCEPT !.dispatching = TRUE, !.opTurn = TRUE] \in HubStates
      /\ [r EXCEPT !.dispatching = TRUE, !.opTurn = TRUE].up = r.up
      /\ [r EXCEPT !.dispatching = TRUE, !.opTurn = TRUE].status = r.status
      /\ [r EXCEPT !.dispatching = TRUE, !.opTurn = TRUE].opTurn = TRUE
      /\ [r EXCEPT !.dispatching = TRUE, !.opTurn = TRUE].steering = r.steering
      /\ [r EXCEPT !.dispatching = TRUE, !.opTurn = TRUE].dispatching = TRUE
  BY DEF HubStates
<1> DEFINE g == [r EXCEPT !.dispatching = TRUE, !.opTurn = TRUE]
<1> HIDE DEF g
<1>2. g \in HubStates
  BY <1>1 DEF g
<1>3. QED BY <1>1, <1>2, SetBusyFields DEF g

LEMMA WakeFields ==
  ASSUME NEW r \in HubStates
  PROVE  LET h == SetBusy([r EXCEPT !.busTurn = TRUE], TRUE)
         IN /\ h \in HubStates /\ h.up = r.up /\ h.status = r.status /\ h.busy = TRUE /\ h.fresh = {}
            /\ h.opTurn = r.opTurn /\ h.steering = r.steering /\ h.dispatching = r.dispatching
<1>1. /\ [r EXCEPT !.busTurn = TRUE] \in HubStates
      /\ [r EXCEPT !.busTurn = TRUE].up = r.up
      /\ [r EXCEPT !.busTurn = TRUE].status = r.status
      /\ [r EXCEPT !.busTurn = TRUE].opTurn = r.opTurn
      /\ [r EXCEPT !.busTurn = TRUE].steering = r.steering
      /\ [r EXCEPT !.busTurn = TRUE].dispatching = r.dispatching
  BY DEF HubStates
<1> DEFINE g == [r EXCEPT !.busTurn = TRUE]
<1> HIDE DEF g
<1>2. g \in HubStates
  BY <1>1 DEF g
<1>3. QED BY <1>1, <1>2, SetBusyFields DEF g

LEMMA SteeringFields ==
  ASSUME NEW r \in HubStates
  PROVE  LET h == [r EXCEPT !.steering = TRUE]
         IN /\ h \in HubStates /\ h.up = r.up /\ h.status = r.status /\ h.busy = r.busy /\ h.fresh = r.fresh
            /\ h.opTurn = r.opTurn /\ h.steering = TRUE /\ h.dispatching = r.dispatching
BY DEF HubStates

\* Noticing changes the notice bits and sends at most a notice.
LEMMA NoticeFields ==
  ASSUME Types, NEW r \in HubStates, NEW b, Notices(r, b)
  PROVE  /\ hub' \in HubStates /\ hub'.up = r.up /\ hub'.status = r.status /\ hub'.busy = r.busy /\ hub'.fresh = r.fresh
         /\ hub'.opTurn = r.opTurn /\ hub'.steering = r.steering /\ hub'.dispatching = r.dispatching
         /\ noticed' \in BOOLEAN /\ box' = b
         /\ UNCHANGED <<calls, queue, stored, origin, unsure>>
         /\ toWorker' = toWorker \/ (link /\ toWorker' = Append(toWorker, Notice))
<1> DEFINE again == r.notice \/ noticed
           n == again \/ \E m \in Mail : b[m] = "pending"
<1>1. n \in BOOLEAN /\ noticed \in BOOLEAN
  BY HubFields DEF Types
<1>2. /\ hub' = [r EXCEPT !.notice = n]
      /\ noticed' = (noticed \/ hub'.notice)
      /\ toWorker' = IF ~again /\ hub'.notice /\ link THEN Append(toWorker, Notice) ELSE toWorker
      /\ UNCHANGED <<calls, queue, stored, origin, unsure>> /\ box' = b
  BY DEF Notices, NoticePendingBus
<1>3. noticed' \in BOOLEAN /\ (toWorker' = toWorker \/ (link /\ toWorker' = Append(toWorker, Notice)))
  BY <1>2
<1> HIDE DEF n, again
<1>4. /\ hub' \in HubStates /\ hub'.up = r.up /\ hub'.status = r.status /\ hub'.busy = r.busy /\ hub'.fresh = r.fresh
      /\ hub'.opTurn = r.opTurn /\ hub'.steering = r.steering /\ hub'.dispatching = r.dispatching
  BY <1>1, <1>2 DEF HubStates
<1>5. QED BY <1>2, <1>3, <1>4

-----------------------------------------------------------------------------
(* Type correctness, action by action.                                     *)

LEMMA IssueTyped ==
  ASSUME Types, NEW k \in Kinds, NEW is \in SUBSET Inputs, NEW ms \in SUBSET Mail, Issue(Call(k, is, ms))
  PROVE  toWorker' \in Seq(WorkerFrames) /\ calls' \subseteq CallSet
BY CallTyped, IssueElements

LEMMA DeliverTyped ==
  ASSUME Types, NEW r \in HubStates, NEW b \in Boxes, NEW f, DeliverBus(r, b, f)
  PROVE  /\ hub' \in HubStates /\ box' \in Boxes /\ queue' \subseteq Entries /\ stored' \in Statuses
         /\ origin' \in {"none", "operator", "bus"} /\ noticed' \in BOOLEAN /\ unsure' \subseteq Inputs
         /\ calls' \subseteq CallSet /\ toWorker' \in Seq(WorkerFrames)
<1>1. /\ queue \subseteq Entries /\ stored \in Statuses /\ origin \in {"none", "operator", "bus"}
      /\ noticed \in BOOLEAN /\ unsure \subseteq Inputs /\ calls \subseteq CallSet
      /\ toWorker \in Seq(WorkerFrames)
  BY DEF Types
<1>2. CASE DeliversNothing(r, b)
  BY <1>1, <1>2 DEF DeliversNothing, NoCall
<1>3. CASE GivesUp(r, b)
  BY <1>1, <1>3, SetStatusFields, QueueTyped DEF Statuses, GivesUp, NoCall
<1>4. ASSUME NEW batch \in SUBSET queue, HandsOver(r, b, batch)
      PROVE  /\ hub' \in HubStates /\ box' \in Boxes /\ queue' \subseteq Entries /\ stored' \in Statuses
             /\ origin' \in {"none", "operator", "bus"} /\ noticed' \in BOOLEAN /\ unsure' \subseteq Inputs
             /\ calls' \subseteq CallSet /\ toWorker' \in Seq(WorkerFrames)
  <2>1. hub' \in HubStates
    BY <1>4, HandoffFields DEF HandsOver
  <2>2. {e.input : e \in batch} \in SUBSET Inputs
    BY QueueTyped
  <2>3. toWorker' \in Seq(WorkerFrames) /\ calls' \subseteq CallSet
    BY <1>4, <2>2, IssueTyped DEF HandsOver, Kinds, TurnKinds
  <2>4. \A e \in batch : [e EXCEPT !.st = "dispatching"] \in Entries
    BY <1>1 DEF Entries
  <2>5. queue' \subseteq Entries
    BY <1>1, <1>4, <2>4 DEF HandsOver
  <2>6. box' \in Boxes /\ stored' \in Statuses /\ origin' \in {"none", "operator", "bus"} /\ noticed' \in BOOLEAN
        /\ unsure' \subseteq Inputs
    BY <1>1, <1>4 DEF HandsOver
  <2>7. QED BY <2>1, <2>3, <2>5, <2>6
<1>5. CASE Notices(r, b)
  BY <1>1, <1>5, NoticeFields, AppendCommand, FramesTyped
<1>6. CASE SteersMail(r, b)
  BY <1>1, <1>6, SteeringFields, PendingMail, IssueTyped DEF SteersMail, PendingIn, Kinds, SteerKinds
<1>7. CASE WakesUp(r, b)
  <2>1. hub' \in HubStates
    BY <1>7, WakeFields DEF WakesUp
  <2>2. PendingIn(b) \in SUBSET Mail
    BY PendingMail DEF PendingIn
  <2>3. toWorker' \in Seq(WorkerFrames) /\ calls' \subseteq CallSet
    BY <1>7, <2>2, IssueTyped DEF WakesUp, Kinds, TurnKinds
  <2>4. box' \in Boxes
    BY <1>7, DeliveredTyped DEF WakesUp
  <2>5. QED BY <1>1, <1>7, <2>1, <2>3, <2>4 DEF WakesUp
<1>8. QED BY <1>2, <1>3, <1>4, <1>5, <1>6, <1>7, DeliverCases

LEMMA TypesSendSteer ==
  ASSUME Types, NEW i \in Inputs, SendSteer(i)
  PROVE  Types'
<1>1. /\ told' = told \cup {i}
      /\ \/ Issue(Call("kept", {i}, {})) /\ UNCHANGED queue
         \/ /\ queue' = queue \cup {[input |-> i, st |-> "pending", at |-> Cardinality(told)]}
            /\ Issue(Call("confer", {i}, {}))
      /\ UNCHANGED <<provider, steers, box, fyi, stored, origin, noticed, hub, worker,
                     link, toHub, seen, unsure, faults>>
  BY DEF SendSteer
<1>2. toWorker' \in Seq(WorkerFrames) /\ calls' \subseteq CallSet
  <2>1. {i} \in SUBSET Inputs /\ {} \in SUBSET Mail /\ "kept" \in Kinds /\ "confer" \in Kinds
    BY DEF Kinds, SteerKinds
  <2>2. QED BY <1>1, <2>1, IssueTyped
<1>3. Cardinality(told) \in Nat
  BY InboxAssumption, FS_Subset, FS_CardinalityType DEF Types
<1>4. queue' \subseteq Entries
  BY <1>1, <1>3 DEF Types, Entries
<1>5. QED BY <1>1, <1>2, <1>4 DEF Types

LEMMA TypesSendFresh ==
  ASSUME Types, NEW i \in Inputs, SendFresh(i)
  PROVE  Types'
<1> DEFINE bu == hub.bundling \/ Pending # {}
           h == [hub EXCEPT !.opTurn = TRUE, !.bundling = bu]
<1>1. /\ told' = told \cup {i} /\ origin' = "operator" /\ noticed' = FALSE
      /\ hub' = SetBusy(h, TRUE) /\ Issue(Call("fresh", {i}, Pending))
      /\ UNCHANGED <<provider, steers, box, fyi, queue, stored, worker, link, toHub, seen, unsure, faults>>
  BY DEF SendFresh, NewTurn, StartTurn
<1>2. h \in HubStates
  <2>1. hub \in HubStates /\ bu \in BOOLEAN
    BY HubFields DEF Types
  <2> HIDE DEF bu
  <2>2. QED BY <2>1 DEF HubStates
<1>3. hub' \in HubStates
  <2> HIDE DEF h
  <2>1. QED BY <1>1, <1>2, SetBusyFields
<1>4. toWorker' \in Seq(WorkerFrames) /\ calls' \subseteq CallSet
  BY <1>1, IssueTyped DEF Kinds, TurnKinds, Pending
<1>5. QED BY <1>1, <1>3, <1>4 DEF Types

LEMMA TypesPost ==
  ASSUME Types, NEW m \in Mail, Post(m)
  PROVE  Types'
BY DeliverTyped DEF Post, Types, Boxes

LEMMA TypesDeliver ==
  ASSUME Types, Deliver
  PROVE  Types'
<1>1. /\ DeliverBus([hub EXCEPT !.due = FALSE], box, fyi)
      /\ UNCHANGED <<provider, steers, fyi, worker, link, toHub, seen, told, faults>>
  BY DEF Deliver
<1>2. [hub EXCEPT !.due = FALSE] \in HubStates /\ box \in Boxes
  BY DEF Types, HubStates
<1>3. /\ hub' \in HubStates /\ box' \in Boxes /\ queue' \subseteq Entries /\ stored' \in Statuses
      /\ origin' \in {"none", "operator", "bus"} /\ noticed' \in BOOLEAN /\ unsure' \subseteq Inputs
      /\ calls' \subseteq CallSet /\ toWorker' \in Seq(WorkerFrames)
  BY <1>1, <1>2, DeliverTyped
<1>4. QED BY <1>1, <1>3 DEF Types

LEMMA TypesReadInbox ==
  ASSUME Types, ReadInbox
  PROVE  Types'
BY DeliveredTyped, ReadTyped DEF ReadInbox, Types, channel

LEMMA TypesFreeze ==
  ASSUME Types, Freeze
  PROVE  Types'
BY FaultTyped DEF Types, HubStates, Freeze, durable, channel, ghosts

LEMMA TypesThaw ==
  ASSUME Types, Thaw
  PROVE  Types'
<1> DEFINE d == hub.due \/ hub.status \in {"idle", "active"}
<1>1. hub' = [hub EXCEPT !.frozen = FALSE, !.due = d]
  BY DEF Thaw
<1>2. d \in BOOLEAN
  BY HubFields DEF Types
<1> HIDE DEF d
<1>3. hub' \in HubStates
  BY <1>1, <1>2 DEF Types, HubStates
<1>4. QED BY <1>3 DEF Types, Thaw, durable, channel, ghosts

\* Continuations of settled calls.
LEMMA ClosesTyped ==
  ASSUME Types, NEW c, Closes(c)
  PROVE  calls' \subseteq CallSet
BY DEF Types, Closes

LEMMA TypesTurnReturns ==
  ASSUME Types, NEW c \in calls, TurnReturns(c)
  PROVE  Types'
<1> DEFINE r == IF c.outcome = "ok" THEN hub ELSE Unconfirmed(hub)
           bu == r.bundling /\ c.kind # "fresh"
           di == r.dispatching /\ c.kind # "deferred"
<1>1. hub' = [r EXCEPT !.bundling = bu, !.dispatching = di]
  BY DEF TurnReturns
<1>2. hub \in HubStates /\ c \in CallSet
  BY DEF Types
<1>3. r \in HubStates
  BY <1>2, SetBusyFields, SetStatusFields DEF Unconfirmed, Statuses
<1>4. bu \in BOOLEAN /\ di \in BOOLEAN
  <2> HIDE DEF r
  <2>1. QED BY <1>3, HubFields
<1>5. hub' \in HubStates
  <2> HIDE DEF r, bu, di
  <2>1. QED BY <1>1, <1>3, <1>4 DEF HubStates
<1>6. stored' \in Statuses /\ box' \in Boxes /\ queue' \subseteq Entries /\ unsure' \subseteq Inputs
  BY <1>2, DeliveredTyped, QueueTyped, CallTyped DEF TurnReturns, Types, Statuses
<1>7. calls' \subseteq CallSet
  BY ClosesTyped DEF TurnReturns
<1>8. QED BY <1>5, <1>6, <1>7 DEF Types, TurnReturns

LEMMA TypesConfers ==
  ASSUME Types, NEW c \in calls, Confers(c)
  PROVE  Types'
BY ClosesTyped DEF Types, Confers, HubStates, NewTurn, ghosts

LEMMA TypesStaysQueued ==
  ASSUME Types, NEW c \in calls, StaysQueued(c)
  PROVE  Types'
BY ClosesTyped DEF Types, StaysQueued, HubStates, durable, ghosts

LEMMA TypesKeptReturns ==
  ASSUME Types, NEW c \in calls, KeptReturns(c)
  PROVE  Types'
BY ClosesTyped, CallTyped DEF KeptReturns, Types, durable

LEMMA TypesMailTaken ==
  ASSUME Types, NEW c \in calls, MailTaken(c)
  PROVE  Types'
BY ClosesTyped, DeliveredTyped, SteerEndsFields DEF MailTaken, Types, ghosts

LEMMA TypesMailRefused ==
  ASSUME Types, NEW c \in calls, MailRefused(c)
  PROVE  Types'
<1>1. UNCHANGED <<provider, steers, durable, worker, link, toHub, ghosts, faults>>
  BY DEF MailRefused
<1>2. CASE link
  <2>1. Asks(c, "recheck") /\ hub' = [hub EXCEPT !.fresh = hub.fresh \cup {"recheck"}]
    BY <1>2 DEF MailRefused
  <2>2. toWorker' \in Seq(WorkerFrames) /\ calls' \subseteq CallSet
    BY <2>1, AsksElements DEF Kinds, ListKinds
  <2>3. hub' \in HubStates
    BY <2>1 DEF Types, HubStates, ListKinds
  <2>4. QED BY <1>1, <2>2, <2>3 DEF Types, durable, ghosts
<1>3. CASE ~link
  BY <1>1, <1>3, SteerEndsFields, ClosesTyped DEF MailRefused, Types, durable, ghosts
<1>4. QED BY <1>2, <1>3

LEMMA TypesRechecked ==
  ASSUME Types, NEW c \in calls, Rechecked(c)
  PROVE  Types'
<1> DEFINE r == IF c.outcome = "ok" THEN Repaired(hub, c) ELSE hub
           idle == c.outcome = "ok" /\ c.held /\ ~c.on /\ r.status = "active"
           s == IF idle THEN SetStatus(r, "idle") ELSE r
<1>1. /\ hub' = SteerEnds(s, FALSE, box) /\ Closes(c)
      /\ stored' = IF idle THEN "idle" ELSE stored
      /\ UNCHANGED <<provider, steers, box, fyi, queue, origin, noticed, toWorker, worker, link, toHub, ghosts, faults>>
  BY DEF Rechecked
<1>2. hub \in HubStates /\ c \in CallSet
  BY DEF Types
<1>3. r \in HubStates
  BY <1>2, RepairedFields
<1>4. s \in HubStates
  <2> HIDE DEF r
  <2>1. QED BY <1>3, SetStatusFields DEF Statuses
<1>5. hub' \in HubStates
  <2> HIDE DEF s
  <2>1. QED BY <1>1, <1>4, SteerEndsFields
<1> HIDE DEF r, idle, s
<1>6. stored' \in Statuses
  BY <1>1 DEF Types, Statuses
<1>7. QED BY <1>1, <1>5, <1>6, ClosesTyped DEF Types, ghosts

LEMMA TypesAttachFirst ==
  ASSUME Types, NEW c \in calls, AttachFirst(c)
  PROVE  Types'
<1> DEFINE r == Repaired(hub, c)
           o == r.opTurn \/ origin = "operator"
           b == r.busTurn \/ origin = "bus"
<1>1. UNCHANGED <<provider, steers, box, fyi, queue, origin, noticed, worker, link, toHub, ghosts, faults>>
  BY DEF AttachFirst
<1>2. hub \in HubStates /\ c \in CallSet
  BY DEF Types
<1>3. r \in HubStates
  BY <1>2, RepairedFields
<1>4. o \in BOOLEAN /\ b \in BOOLEAN
  <2> HIDE DEF r
  <2>1. QED BY <1>3, HubFields
<1>5. \/ /\ hub' = [r EXCEPT !.fresh = r.fresh \cup {"second"}] /\ Asks(c, "second") /\ UNCHANGED stored
      \/ /\ Asks(c, "attach") /\ hub' = [r EXCEPT !.status = "active", !.opTurn = o, !.busTurn = b]
         /\ UNCHANGED stored
      \/ Asks(c, "attach") /\ hub' = SetStatus(r, "idle") /\ stored' = "idle"
  BY DEF AttachFirst
<1> HIDE DEF r, o, b
<1>6. hub' \in HubStates /\ stored' \in Statuses
  <2>1. stored \in Statuses
    BY DEF Types
  <2>2. SetStatus(r, "idle") \in HubStates
    BY <1>3, SetStatusFields DEF Statuses
  <2>3. [r EXCEPT !.fresh = r.fresh \cup {"second"}] \in HubStates
    BY <1>3 DEF HubStates, ListKinds
  <2>4. [r EXCEPT !.status = "active", !.opTurn = o, !.busTurn = b] \in HubStates
    BY <1>3, <1>4 DEF HubStates, Statuses
  <2>5. QED BY <1>5, <2>1, <2>2, <2>3, <2>4 DEF Statuses
<1>7. toWorker' \in Seq(WorkerFrames) /\ calls' \subseteq CallSet
  BY <1>5, AsksElements DEF Kinds, ListKinds
<1>8. QED BY <1>1, <1>6, <1>7 DEF Types, ghosts

LEMMA TypesAttachReplayed ==
  ASSUME Types, NEW c \in calls, AttachReplayed(c)
  PROVE  Types'
BY AsksElements DEF AttachReplayed, Kinds, ListKinds, Types, HubStates, durable, ghosts

LEMMA TypesAttachSecond ==
  ASSUME Types, NEW c \in calls, AttachSecond(c)
  PROVE  Types'
<1> DEFINE r == Repaired(hub, c)
           stale == ~c.held /\ r.status = "active"
           s == IF stale THEN SetStatus(r, "idle") ELSE r
           rearm == c.held /\ ~c.on /\ s.status = "idle"
           n == s.notice /\ ~rearm
           d == s.due \/ rearm \/ (s.status = "idle" /\ queue # {})
<1>1. /\ hub' = [s EXCEPT !.notice = n, !.due = d]
      /\ stored' = IF stale THEN "idle" ELSE stored
      /\ Closes(c)
      /\ UNCHANGED <<provider, steers, box, fyi, queue, origin, noticed, toWorker, worker, link, toHub, ghosts, faults>>
  BY DEF AttachSecond
<1>2. hub \in HubStates /\ c \in CallSet
  BY DEF Types
<1>3. r \in HubStates
  BY <1>2, RepairedFields
<1>4. s \in HubStates
  <2> HIDE DEF r
  <2>1. QED BY <1>3, SetStatusFields DEF Statuses
<1>5. n \in BOOLEAN /\ d \in BOOLEAN
  <2> HIDE DEF s
  <2>1. QED BY <1>4, HubFields
<1>6. hub' \in HubStates
  <2> HIDE DEF s, n, d
  <2>1. QED BY <1>1, <1>4, <1>5 DEF HubStates
<1>7. stored' \in Statuses
  BY <1>1 DEF Types, Statuses
<1>8. QED BY <1>1, <1>6, <1>7, ClosesTyped DEF Types, ghosts

LEMMA TypesAttachFails ==
  ASSUME Types, NEW c \in calls, AttachFails(c)
  PROVE  Types'
BY ClosesTyped DEF AttachFails, Types, durable, ghosts

\* Frames of the worker.
LEMMA TypesHubReply ==
  ASSUME Types, HubReply
  PROVE  Types'
<1> DEFINE m == Head(toHub)
           c == m.call
           answer == IF m.t = "live" THEN [c EXCEPT !.outcome = "ok", !.held = m.held, !.on = m.on]
                     ELSE Answered(c, IF m.ok THEN "ok" ELSE "fail")
<1>1. /\ Reads("ack") \/ Reads("live")
      /\ calls' = IF c \in calls \ Settled THEN (calls \ {c}) \cup {answer} ELSE calls
      /\ UNCHANGED <<provider, steers, durable, hub, toWorker, worker, link, ghosts, faults>>
  BY DEF HubReply
<1>2. toHub' \in Seq(HubFrames) /\ m \in HubFrames /\ (m.t = "ack" \/ m.t = "live")
  BY <1>1, ReadsElements
<1>3. c \in CallSet /\ (m.t = "live" => m.held \in BOOLEAN /\ m.on \in BOOLEAN)
  BY <1>2, HubFrame
<1>4. answer \in CallSet
  <2>1. CASE m.t = "live"
    <3> HIDE DEF m, c
    <3>1. QED BY <1>3, <2>1 DEF CallSet
  <2>2. CASE m.t # "live"
    <3> HIDE DEF m, c
    <3>1. QED BY <1>3, <2>2, CallTyped
  <2>3. QED BY <2>1, <2>2
<1>5. calls' \subseteq CallSet
  <2> HIDE DEF answer, c, m
  <2>1. QED BY <1>1, <1>4 DEF Types
<1>6. QED BY <1>1, <1>2, <1>5 DEF Types, durable, ghosts

\* The status a marker stands for, and the hub after it.
MarkStatus(k) == IF k = "started" THEN "active" ELSE IF k = "completed" THEN "idle" ELSE "error"

LEMMA HubMarkStep ==
  ASSUME Types, HubMark
  PROVE  LET m == toHub[1]
             r == SetBusy(hub, m.kind = "started")
             s == MarkStatus(m.kind)
         IN /\ Reads("mark") /\ m \in Marks /\ s \in Statuses /\ m.kind \in Turns /\ m.replay \in BOOLEAN
            /\ hub' = IF m.replay THEN [r EXCEPT !.status = s] ELSE SetStatus(r, s)
            /\ hub' \in HubStates /\ hub'.up = hub.up /\ hub'.status = s /\ hub'.busy = (m.kind = "started")
            /\ hub'.fresh = {} /\ hub'.steering = hub.steering /\ hub'.dispatching = hub.dispatching
            /\ hub'.opTurn => hub.opTurn
            /\ m.kind # "started" /\ ~m.replay => ~hub'.opTurn
            /\ stored' = s
            /\ queue' = IF m.kind = "started" THEN queue ELSE Waiting(queue)
            /\ unsure' = IF m.kind # "errored" THEN unsure
                         ELSE unsure \cup Sent(queue) \cup IF m.replay THEN {} ELSE m.of
            /\ UNCHANGED <<provider, steers, box, fyi, origin, noticed, calls, toWorker, worker, link,
                           seen, told, faults>>
<1> DEFINE m == Head(toHub)
           r == SetBusy(hub, m.kind = "started")
           s == MarkStatus(m.kind)
<1>1. Reads("mark") /\ m = toHub[1] /\ m \in HubFrames /\ m.t = "mark"
  BY ReadsElements DEF HubMark
<1>2. m \in Marks /\ m.kind \in Turns /\ m.replay \in BOOLEAN
  BY <1>1, HubFrame
<1>3. s \in Statuses /\ s = CASE m.kind = "started" -> "active"
                               [] m.kind = "completed" -> "idle"
                               [] m.kind = "errored" -> "error"
  BY <1>2 DEF MarkStatus, Statuses, Turns
<1>4. /\ hub' = IF m.replay THEN [r EXCEPT !.status = s] ELSE SetStatus(r, s)
      /\ stored' = s
      /\ queue' = IF m.kind = "started" THEN queue ELSE Waiting(queue)
      /\ unsure' = IF m.kind # "errored" THEN unsure
                   ELSE unsure \cup Sent(queue) \cup IF m.replay THEN {} ELSE m.of
      /\ UNCHANGED <<provider, steers, box, fyi, origin, noticed, calls, toWorker, worker, link,
                     seen, told, faults>>
  <2>1. hub' = IF m.replay THEN [r EXCEPT !.status = s] ELSE SetStatus(r, s)
    <3> DEFINE z == CASE m.kind = "started" -> "active"
                      [] m.kind = "completed" -> "idle"
                      [] m.kind = "errored" -> "error"
    <3>1. hub' = IF m.replay THEN [r EXCEPT !.status = z] ELSE SetStatus(r, z)
      BY Zenon DEF HubMark
    <3>2. s = z
      BY <1>3
    <3> HIDE DEF s, z, r
    <3>3. QED BY <3>1, <3>2
  <2>2. stored' = s
    BY <1>3 DEF HubMark
  <2>3. queue' = IF m.kind = "started" THEN queue ELSE Waiting(queue)
    BY DEF HubMark
  <2>4. unsure' = IF m.kind # "errored" THEN unsure
                  ELSE unsure \cup Sent(queue) \cup IF m.replay THEN {} ELSE m.of
    BY DEF HubMark
  <2>5. UNCHANGED <<provider, steers, box, fyi, origin, noticed, calls, toWorker, worker, link,
                    seen, told, faults>>
    BY DEF HubMark
  <2>6. QED BY <2>1, <2>2, <2>3, <2>4, <2>5
<1> DEFINE k == (m.kind = "started")
<1>5. /\ r \in HubStates /\ r.up = hub.up /\ r.busy = k /\ r.fresh = {} /\ r.opTurn = hub.opTurn
      /\ r.steering = hub.steering /\ r.dispatching = hub.dispatching
  <2>1. k \in BOOLEAN /\ hub \in HubStates
    BY DEF Types
  <2>2. r = SetBusy(hub, k)
    OBVIOUS
  <2> HIDE DEF k, r
  <2>3. QED BY <2>1, <2>2, SetBusyFields
<1>6. s = "active" <=> k
  BY <1>2 DEF MarkStatus, Turns
<1>7. /\ hub' \in HubStates /\ hub'.up = hub.up /\ hub'.status = s /\ hub'.busy = k
      /\ hub'.fresh = {} /\ hub'.steering = hub.steering /\ hub'.dispatching = hub.dispatching
      /\ hub'.opTurn => hub.opTurn
      /\ ~k /\ ~m.replay => ~hub'.opTurn
  <2> HIDE DEF r, s, k
  <2>1. CASE m.replay
    BY <1>3, <1>4, <1>5, <2>1 DEF HubStates
  <2>2. CASE ~m.replay
    <3>1. hub' = SetStatus(r, s)
      BY <1>4, <2>2
    <3>2. /\ hub' \in HubStates /\ hub'.up = r.up /\ hub'.status = s /\ hub'.busy = r.busy /\ hub'.fresh = r.fresh
          /\ hub'.opTurn = (r.opTurn /\ s = "active") /\ hub'.steering = r.steering /\ hub'.dispatching = r.dispatching
      BY <1>3, <1>5, <3>1, SetStatusFields
    <3>3. QED BY <1>5, <1>6, <3>2
  <2>3. QED BY <2>1, <2>2
<1>8. QED BY <1>1, <1>2, <1>3, <1>4, <1>7

LEMMA TypesHubMark ==
  ASSUME Types, HubMark
  PROVE  Types'
<1> DEFINE m == toHub[1]
<1>1. /\ Reads("mark") /\ m \in Marks /\ hub' \in HubStates /\ stored' \in Statuses
      /\ queue' = IF m.kind = "started" THEN queue ELSE Waiting(queue)
      /\ unsure' = IF m.kind # "errored" THEN unsure
                   ELSE unsure \cup Sent(queue) \cup IF m.replay THEN {} ELSE m.of
      /\ UNCHANGED <<provider, steers, box, fyi, origin, noticed, calls, toWorker, worker, link,
                     seen, told, faults>>
  BY HubMarkStep
<1>2. toHub' \in Seq(HubFrames)
  BY <1>1, ReadsElements
<1>3. queue' \subseteq Entries
  BY <1>1, QueueTyped DEF Types
<1>4. unsure' \subseteq Inputs
  BY <1>1, QueueTyped DEF Types, Marks
<1>5. QED BY <1>1, <1>2, <1>3, <1>4 DEF Types

\* The worker.
LEMMA EmittedTyped ==
  ASSUME Types, NEW ms \in Seq(Marks), ms # << >>
  PROVE  /\ Emitted(ms) \in WorkerStates /\ Emitted(ms).n = worker.n /\ Emitted(ms).steers = worker.steers
BY EmittedMarks

LEMMA MarkSequences ==
  /\ \A k \in Turns, is \in SUBSET Inputs :
       /\ <<Mark(k, is)>> \in Seq(Marks) /\ <<Mark(k, is)>> # << >> /\ <<Mark(k, is)>> \in Seq(HubFrames)
       /\ Len(<<Mark(k, is)>>) = 1 /\ <<Mark(k, is)>>[1] = Mark(k, is)
  /\ \A k, l \in Turns, is, js \in SUBSET Inputs :
       /\ <<Mark(k, is), Mark(l, js)>> \in Seq(Marks) /\ <<Mark(k, is), Mark(l, js)>> # << >>
       /\ Len(<<Mark(k, is), Mark(l, js)>>) = 2 /\ <<Mark(k, is), Mark(l, js)>>[1] = Mark(k, is)
       /\ <<Mark(k, is), Mark(l, js)>>[2] = Mark(l, js)
BY FramesTyped, ShortSequences

\* What starting a turn sends: the marker, and for claude the acknowledgement behind it.
StartFrames(c) ==
  IF provider = "codex" THEN <<Mark("started", {})>> ELSE <<Mark("started", {}), Ack(c, TRUE)>>
RefuseFrames(c) ==
  IF provider = "codex" THEN <<Mark("started", {}), Mark("errored", c.inputs), Ack(c, TRUE)>>
  ELSE <<Mark("started", {}), Ack(c, TRUE), Mark("errored", c.inputs)>>

LEMMA StartFramesTyped ==
  ASSUME Types, NEW c \in CallSet
  PROVE  /\ StartFrames(c) \in Seq(HubFrames) /\ RefuseFrames(c) \in Seq(HubFrames)
         /\ Len(StartFrames(c)) \in 1 .. 2 /\ StartFrames(c)[1] = Mark("started", {})
         /\ Len(StartFrames(c)) = 2 => StartFrames(c)[2] = Ack(c, TRUE)
         /\ Len(RefuseFrames(c)) = 3 /\ RefuseFrames(c)[1] = Mark("started", {})
         /\ \/ RefuseFrames(c)[2] = Mark("errored", c.inputs) /\ RefuseFrames(c)[3] = Ack(c, TRUE)
            \/ RefuseFrames(c)[3] = Mark("errored", c.inputs) /\ RefuseFrames(c)[2] = Ack(c, TRUE)
<1>1. /\ Mark("started", {}) \in HubFrames /\ Mark("errored", c.inputs) \in HubFrames /\ Ack(c, TRUE) \in HubFrames
  BY FramesTyped, CallTyped DEF Turns
<1> DEFINE s == Mark("started", {})
           x == Mark("errored", c.inputs)
           a == Ack(c, TRUE)
<1>2. /\ StartFrames(c) = IF provider = "codex" THEN <<s>> ELSE <<s, a>>
      /\ RefuseFrames(c) = IF provider = "codex" THEN <<s, x, a>> ELSE <<s, a, x>>
  BY DEF StartFrames, RefuseFrames
<1> HIDE DEF s, x, a
<1>3. s \in HubFrames /\ x \in HubFrames /\ a \in HubFrames
  BY <1>1 DEF s, x, a
<1>4. CASE provider = "codex"
  <2>1. StartFrames(c) = <<s>> /\ RefuseFrames(c) = <<s, x, a>>
    BY <1>2, <1>4
  <2>2. /\ StartFrames(c) \in Seq(HubFrames) /\ RefuseFrames(c) \in Seq(HubFrames)
        /\ Len(StartFrames(c)) \in 1 .. 2 /\ StartFrames(c)[1] = s
        /\ Len(StartFrames(c)) = 2 => StartFrames(c)[2] = a
        /\ Len(RefuseFrames(c)) = 3 /\ RefuseFrames(c)[1] = s
        /\ \/ RefuseFrames(c)[2] = x /\ RefuseFrames(c)[3] = a
           \/ RefuseFrames(c)[3] = x /\ RefuseFrames(c)[2] = a
    BY <1>3, <2>1, ShortSequences
  <2>3. QED BY <2>2 DEF s, x, a
<1>5. CASE provider # "codex"
  <2>1. StartFrames(c) = <<s, a>> /\ RefuseFrames(c) = <<s, a, x>>
    BY <1>2, <1>5
  <2>2. /\ StartFrames(c) \in Seq(HubFrames) /\ RefuseFrames(c) \in Seq(HubFrames)
        /\ Len(StartFrames(c)) \in 1 .. 2 /\ StartFrames(c)[1] = s
        /\ Len(StartFrames(c)) = 2 => StartFrames(c)[2] = a
        /\ Len(RefuseFrames(c)) = 3 /\ RefuseFrames(c)[1] = s
        /\ \/ RefuseFrames(c)[2] = x /\ RefuseFrames(c)[3] = a
           \/ RefuseFrames(c)[3] = x /\ RefuseFrames(c)[2] = a
    BY <1>3, <2>1, ShortSequences
  <2>3. QED BY <2>2 DEF s, x, a
<1>6. QED BY <1>4, <1>5

LEMMA AppendShort ==
  /\ \A a, b : Append(<<a>>, b) = <<a, b>>
  /\ \A a, b, c : Append(<<a, b>>, c) = <<a, b, c>>
<1>1. ASSUME NEW a, NEW b PROVE Append(<<a>>, b) = <<a, b>>
  <2>1. /\ <<a>> \in Seq({a, b}) /\ <<a, b>> \in Seq({a, b}) /\ Len(<<a>>) = 1 /\ Len(<<a, b>>) = 2
        /\ <<a, b>>[1] = a /\ <<a, b>>[2] = b /\ <<a>>[1] = a
    BY ShortSequences
  <2>2. /\ Append(<<a>>, b) \in Seq({a, b}) /\ Len(Append(<<a>>, b)) = 2
        /\ Append(<<a>>, b)[1] = a /\ Append(<<a>>, b)[2] = b
    BY <2>1, AppendElements
  <2>3. \A i \in 1 .. 2 : Append(<<a>>, b)[i] = <<a, b>>[i]
    BY <2>1, <2>2
  <2>4. QED BY <2>1, <2>2, <2>3, SeqEqual
<1>2. ASSUME NEW a, NEW b, NEW c PROVE Append(<<a, b>>, c) = <<a, b, c>>
  <2>1. /\ <<a, b>> \in Seq({a, b, c}) /\ <<a, b, c>> \in Seq({a, b, c}) /\ Len(<<a, b>>) = 2 /\ Len(<<a, b, c>>) = 3
        /\ <<a, b, c>>[1] = a /\ <<a, b, c>>[2] = b /\ <<a, b, c>>[3] = c /\ <<a, b>>[1] = a /\ <<a, b>>[2] = b
    BY ShortSequences
  <2>2. /\ Append(<<a, b>>, c) \in Seq({a, b, c}) /\ Len(Append(<<a, b>>, c)) = 3
        /\ Append(<<a, b>>, c)[1] = a /\ Append(<<a, b>>, c)[2] = b /\ Append(<<a, b>>, c)[3] = c
    BY <2>1, AppendElements
  <2>3. \A i \in 1 .. 3 : Append(<<a, b>>, c)[i] = <<a, b, c>>[i]
    BY <2>1, <2>2
  <2>4. QED BY <2>1, <2>2, <2>3, SeqEqual
<1>3. QED BY <1>1, <1>2

LEMMA WorkerStartStep ==
  ASSUME Types, WorkerStart
  PROVE  LET c == toWorker[1].call
         IN /\ Handles(TurnKinds) /\ ~worker.on /\ c \in CallSet
            /\ worker' \in WorkerStates
            /\ worker'.held = TRUE /\ worker'.on = TRUE /\ worker'.active = TRUE
            /\ worker'.n = worker.n + 1 /\ worker'.op = (c.inputs # {})
            /\ worker'.owed \subseteq worker.owed \cup {c} /\ worker'.steers = worker.steers
            /\ worker'.marks # << >> /\ worker'.marks[Len(worker'.marks)] = Mark("started", {})
            /\ SendHub(StartFrames(c))
            /\ Read(c.inputs \cup c.mails)
            /\ UNCHANGED <<provider, steers, box, fyi, queue, stored, origin, noticed, hub, calls, link,
                           told, unsure, faults>>
<1>a. Handles(TurnKinds) /\ Head(toWorker) = toWorker[1] /\ toWorker[1].call \in CallSet
  BY HandlesElements DEF WorkerStart
<1> DEFINE c == toWorker[1].call
           start == <<Mark("started", {})>>
           e == Emitted(start)
           op == c.inputs # {}
           owed == IF provider = "codex" THEN e.owed \cup {c} ELSE e.owed
<1>1. /\ Handles(TurnKinds) /\ ~worker.on
      /\ worker' = [e EXCEPT !.held = TRUE, !.on = TRUE, !.n = e.n + 1, !.op = op, !.owed = owed]
      /\ SendHub(IF provider = "codex" THEN start ELSE Append(start, Ack(c, TRUE)))
      /\ Read(c.inputs \cup c.mails)
      /\ UNCHANGED <<provider, steers, box, fyi, queue, stored, origin, noticed, hub, calls, link,
                     told, unsure, faults>>
  BY <1>a DEF WorkerStart, durable
<1>2. c \in CallSet
  BY <1>a
<1>3. /\ e \in WorkerStates /\ e.n = worker.n /\ e.owed = worker.owed /\ e.steers = worker.steers
      /\ e.marks # << >> /\ e.marks[Len(e.marks)] = Mark("started", {}) /\ e.active = TRUE
  <2>1. start \in Seq(Marks) /\ start # << >> /\ Len(start) = 1 /\ start[1] = Mark("started", {})
    BY MarkSequences DEF Turns
  <2>2. Mark("started", {}).kind = "started"
    BY DEF Mark
  <2> HIDE DEF start
  <2>3. QED BY <2>1, <2>2, EmittedMarks
<1>4. owed \subseteq worker.owed \cup {c} /\ owed \subseteq CallSet /\ op \in BOOLEAN /\ worker.n \in Nat
  BY <1>2, <1>3 DEF WorkerStates
<1>5. /\ worker' \in WorkerStates
      /\ worker'.held = TRUE /\ worker'.on = TRUE /\ worker'.active = TRUE
      /\ worker'.n = worker.n + 1 /\ worker'.op = op /\ worker'.owed = owed /\ worker'.steers = worker.steers
      /\ worker'.marks = e.marks
  <2>1. e.n + 1 \in Nat /\ e.n + 1 = worker.n + 1
    BY <1>3, <1>4
  <2>2. worker' = [e EXCEPT !.held = TRUE, !.on = TRUE, !.n = e.n + 1, !.op = op, !.owed = owed]
    BY <1>1
  <2> HIDE DEF e, op, owed, c
  <2>3. worker' \in WorkerStates
    BY <1>3, <1>4, <2>1, <2>2 DEF WorkerStates
  <2>4. QED BY <1>3, <2>1, <2>2, <2>3 DEF WorkerStates
<1>6. Append(start, Ack(c, TRUE)) = <<Mark("started", {}), Ack(c, TRUE)>>
  BY AppendShort
<1>7. SendHub(StartFrames(c))
  BY <1>1, <1>6 DEF StartFrames
<1>8. QED BY <1>1, <1>2, <1>3, <1>4, <1>5, <1>7

LEMMA WorkerRefuseStep ==
  ASSUME Types, WorkerRefuse
  PROVE  LET c == toWorker[1].call
         IN /\ Handles(TurnKinds) /\ c \in CallSet
            /\ worker' \in WorkerStates
            /\ worker'.held = TRUE /\ worker'.on = worker.on /\ worker'.active = FALSE
            /\ worker'.n = worker.n /\ worker'.op = worker.op /\ worker'.owed = worker.owed
            /\ worker'.steers = worker.steers
            /\ worker'.marks # << >> /\ worker'.marks[Len(worker'.marks)] = Mark("errored", c.inputs)
            /\ SendHub(RefuseFrames(c))
            /\ faults' \in 0 .. MaxFaults
            /\ UNCHANGED <<provider, steers, box, fyi, queue, stored, origin, noticed, hub, calls, link,
                           seen, told, unsure>>
<1> DEFINE c == Head(toWorker).call
           ms == <<Mark("started", {}), Mark("errored", c.inputs)>>
           e == Emitted(ms)
<1>1. /\ Handles(TurnKinds)
      /\ worker' = [e EXCEPT !.held = TRUE]
      /\ SendHub(IF provider = "codex" THEN Append(ms, Ack(c, TRUE)) ELSE <<ms[1], Ack(c, TRUE), ms[2]>>)
      /\ UNCHANGED <<provider, steers, box, fyi, queue, stored, origin, noticed, hub, calls, link,
                     seen, told, unsure>>
  BY DEF WorkerRefuse, durable, ghosts
<1>2. c \in CallSet /\ c = toWorker[1].call
  BY <1>1, HandlesElements
<1>3. ms \in Seq(Marks) /\ ms # << >> /\ Len(ms) = 2 /\ ms[2] = Mark("errored", c.inputs) /\ ms[1] = Mark("started", {})
  BY <1>2, CallTyped, MarkSequences DEF Turns
<1>4. /\ e \in WorkerStates /\ e.n = worker.n /\ e.owed = worker.owed /\ e.steers = worker.steers
      /\ e.on = worker.on /\ e.op = worker.op
      /\ e.marks # << >> /\ e.marks[Len(e.marks)] = Mark("errored", c.inputs) /\ e.active = FALSE
  <2>1. Mark("errored", c.inputs).kind = "errored"
    BY DEF Mark
  <2> HIDE DEF ms, c
  <2>2. QED BY <1>3, <2>1, EmittedMarks
<1>5. /\ worker' \in WorkerStates
      /\ worker'.held = TRUE /\ worker'.on = worker.on /\ worker'.active = FALSE
      /\ worker'.n = worker.n /\ worker'.op = worker.op /\ worker'.owed = worker.owed /\ worker'.steers = worker.steers
      /\ worker'.marks = e.marks
  <2> HIDE DEF e
  <2>1. QED BY <1>1, <1>4 DEF WorkerStates
<1>6. SendHub(RefuseFrames(c))
  <2>1. Append(ms, Ack(c, TRUE)) = <<Mark("started", {}), Mark("errored", c.inputs), Ack(c, TRUE)>>
    BY AppendShort
  <2>2. QED BY <1>1, <1>3, <2>1 DEF RefuseFrames
<1>7. faults' \in 0 .. MaxFaults
  BY FaultTyped DEF WorkerRefuse, Types
<1>8. QED BY <1>1, <1>2, <1>4, <1>5, <1>6, <1>7

LEMMA TypesWorkerStart ==
  ASSUME Types, WorkerStart
  PROVE  Types'
<1> DEFINE c == toWorker[1].call
<1>1. /\ Handles(TurnKinds) /\ worker' \in WorkerStates /\ worker'.n = worker.n + 1 /\ worker'.steers = worker.steers
      /\ SendHub(StartFrames(c)) /\ Read(c.inputs \cup c.mails) /\ c \in CallSet
      /\ UNCHANGED <<provider, steers, box, fyi, queue, stored, origin, noticed, hub, calls, link,
                     told, unsure, faults>>
  BY WorkerStartStep
<1>2. toHub' \in Seq(HubFrames) /\ toWorker' \in Seq(WorkerFrames)
  BY <1>1, StartFramesTyped, SendHubElements, HandlesElements
<1>3. seen' \in [Inputs \cup Mail -> Nat]
  BY <1>1, ReadTyped
<1>4. \A s \in worker'.steers : s.n <= worker'.n
  BY <1>1, TypesConsequences DEF Types, Steers
<1>5. QED BY <1>1, <1>2, <1>3, <1>4 DEF Types

LEMMA TypesWorkerRefuse ==
  ASSUME Types, WorkerRefuse
  PROVE  Types'
<1> DEFINE c == toWorker[1].call
<1>1. /\ Handles(TurnKinds) /\ worker' \in WorkerStates /\ worker'.n = worker.n /\ worker'.steers = worker.steers
      /\ SendHub(RefuseFrames(c)) /\ c \in CallSet /\ faults' \in 0 .. MaxFaults
      /\ UNCHANGED <<provider, steers, box, fyi, queue, stored, origin, noticed, hub, calls, link,
                     seen, told, unsure>>
  BY WorkerRefuseStep
<1>2. toHub' \in Seq(HubFrames) /\ toWorker' \in Seq(WorkerFrames)
  BY <1>1, StartFramesTyped, SendHubElements, HandlesElements
<1>3. QED BY <1>1, <1>2 DEF Types

LEMMA AckTyped ==
  ASSUME NEW c \in CallSet, NEW b \in BOOLEAN
  PROVE  /\ <<Ack(c, b)>> \in Seq(HubFrames) /\ Len(<<Ack(c, b)>>) = 1 /\ <<Ack(c, b)>>[1] = Ack(c, b)
BY FramesTyped, ShortSequences

LEMMA TypesWorkerAckStart ==
  ASSUME Types, WorkerAckStart
  PROVE  Types'
<1>1. PICK c \in worker.owed :
        /\ worker' = [worker EXCEPT !.owed = worker.owed \ {c}]
        /\ SendHub(<<Ack(c, TRUE)>>)
        /\ UNCHANGED <<provider, steers, durable, hub, calls, link, toWorker, ghosts, faults>>
  BY DEF WorkerAckStart
<1>2. c \in CallSet
  BY TypesConsequences
<1>3. toHub' \in Seq(HubFrames)
  BY <1>1, <1>2, AckTyped, SendHubElements
<1>4. worker' \in WorkerStates /\ worker'.n = worker.n /\ worker'.steers = worker.steers
  BY <1>1 DEF Types, WorkerStates
<1>5. QED BY <1>1, <1>3, <1>4 DEF Types, durable, ghosts

LEMMA WorkerSteerStep ==
  ASSUME Types, WorkerSteer
  PROVE  LET c == toWorker[1].call
         IN /\ Handles(SteerKinds) /\ c \in CallSet
            /\ \/ /\ worker.on /\ toHub' = toHub
                  /\ worker' = [worker EXCEPT !.steers = worker.steers \cup {[call |-> c, n |-> worker.n]}]
               \/ ~worker.on /\ SendHub(<<Ack(c, FALSE)>>) /\ worker' = worker
            /\ UNCHANGED <<provider, steers, box, fyi, queue, stored, origin, noticed, hub, calls, link,
                           seen, told, unsure, faults>>
<1> DEFINE c == Head(toWorker).call
<1>1. /\ Handles(SteerKinds)
      /\ \/ /\ worker.on /\ toHub' = toHub
            /\ worker' = [worker EXCEPT !.steers = worker.steers \cup {[call |-> c, n |-> worker.n]}]
         \/ ~worker.on /\ SendHub(<<Ack(c, FALSE)>>) /\ worker' = worker
      /\ UNCHANGED <<provider, steers, box, fyi, queue, stored, origin, noticed, hub, calls, link,
                     seen, told, unsure, faults>>
  BY DEF WorkerSteer, durable, ghosts
<1>2. c \in CallSet /\ c = toWorker[1].call
  BY <1>1, HandlesElements
<1>3. QED BY <1>1, <1>2

LEMMA TypesWorkerSteer ==
  ASSUME Types, WorkerSteer
  PROVE  Types'
<1> DEFINE c == toWorker[1].call
           ss == worker.steers \cup {[call |-> c, n |-> worker.n]}
<1>1. /\ Handles(SteerKinds) /\ c \in CallSet
      /\ \/ /\ worker.on /\ toHub' = toHub
            /\ worker' = [worker EXCEPT !.steers = ss]
         \/ ~worker.on /\ SendHub(<<Ack(c, FALSE)>>) /\ worker' = worker
      /\ UNCHANGED <<provider, steers, box, fyi, queue, stored, origin, noticed, hub, calls, link,
                     seen, told, unsure, faults>>
  BY WorkerSteerStep
<1>2. toWorker' \in Seq(WorkerFrames)
  BY <1>1, HandlesElements
<1>3. toHub' \in Seq(HubFrames)
  BY <1>1, AckTyped, SendHubElements, TypesConsequences
<1>4. /\ ss \subseteq Steers /\ \A s \in ss : s.n <= worker.n
      /\ worker \in WorkerStates /\ \A s \in worker.steers : s.n <= worker.n
  BY <1>1, TypesConsequences DEF Types, Steers
<1> HIDE DEF ss, c
<1>5. worker' \in WorkerStates /\ \A s \in worker'.steers : s.n <= worker'.n
  BY <1>1, <1>4 DEF WorkerStates
<1>6. QED BY <1>1, <1>2, <1>3, <1>5 DEF Types

LEMMA VendorSteerStep ==
  ASSUME Types, VendorSteer
  PROVE  \E s \in worker.steers :
           LET takes == worker.on /\ s.n = worker.n
               op == worker.op \/ (takes /\ s.call.inputs # {})
           IN /\ s \in Steers /\ takes \in BOOLEAN
              /\ worker' \in WorkerStates /\ worker'.steers = worker.steers \ {s} /\ worker'.op = op
              /\ worker'.held = worker.held /\ worker'.on = worker.on /\ worker'.n = worker.n
              /\ worker'.active = worker.active /\ worker'.owed = worker.owed /\ worker'.marks = worker.marks
              /\ worker'.missed = worker.missed
              /\ SendHub(<<Ack(s.call, takes)>>)
              /\ takes => Read(s.call.inputs \cup s.call.mails)
              /\ ~takes => UNCHANGED seen
              /\ UNCHANGED <<provider, steers, box, fyi, queue, stored, origin, noticed, hub, calls, link,
                             toWorker, told, unsure, faults>>
<1>1. PICK s \in worker.steers :
        LET takes == worker.on /\ s.n = worker.n
            op == worker.op \/ (takes /\ s.call.inputs # {})
        IN /\ worker' = [worker EXCEPT !.steers = worker.steers \ {s}, !.op = op]
           /\ SendHub(<<Ack(s.call, takes)>>)
           /\ takes => Read(s.call.inputs \cup s.call.mails)
           /\ ~takes => UNCHANGED seen
           /\ UNCHANGED <<provider, steers, box, fyi, queue, stored, origin, noticed, hub, calls, link,
                          toWorker, told, unsure, faults>>
  BY DEF VendorSteer, durable
<1> DEFINE takes == worker.on /\ s.n = worker.n
           op == worker.op \/ (takes /\ s.call.inputs # {})
<1>2. worker \in WorkerStates /\ s \in Steers /\ takes \in BOOLEAN /\ op \in BOOLEAN
  BY TypesConsequences
<1>3. worker' = [worker EXCEPT !.steers = worker.steers \ {s}, !.op = op]
  BY <1>1
<1>4. /\ worker' \in WorkerStates /\ worker'.steers = worker.steers \ {s} /\ worker'.op = op
      /\ worker'.held = worker.held /\ worker'.on = worker.on /\ worker'.n = worker.n
      /\ worker'.active = worker.active /\ worker'.owed = worker.owed /\ worker'.marks = worker.marks
      /\ worker'.missed = worker.missed
  <2> HIDE DEF op
  <2>1. QED BY <1>2, <1>3 DEF WorkerStates
<1>5. WITNESS s \in worker.steers
<1>6. QED BY <1>1, <1>2, <1>4

LEMMA TypesVendorSteer ==
  ASSUME Types, VendorSteer
  PROVE  Types'
BY VendorSteerStep, AckTyped, SendHubElements, ReadTyped DEF Steers, Types

LEMMA WorkerNoticeStep ==
  ASSUME Types, WorkerNotice
  PROVE  /\ toWorker # << >> /\ toWorker[1] = Notice /\ toWorker' \in Seq(WorkerFrames)
         /\ Len(toWorker') = Len(toWorker) - 1 /\ DOMAIN toWorker' = 1 .. Len(toWorker) - 1
         /\ DOMAIN toWorker = 1 .. Len(toWorker) /\ Len(toWorker) \in Nat \ {0}
         /\ \A i \in 1 .. Len(toWorker) - 1 : toWorker'[i] = toWorker[i + 1]
         /\ UNCHANGED <<provider, steers, box, fyi, queue, stored, origin, noticed, hub, calls, worker, link, toHub,
                        seen, told, unsure, faults>>
BY TailElements DEF WorkerNotice, Types, durable, ghosts

LEMMA TypesWorkerNotice ==
  ASSUME Types, WorkerNotice
  PROVE  Types'
BY WorkerNoticeStep DEF Types

LEMMA TypesWorkerList ==
  ASSUME Types, WorkerList
  PROVE  Types'
BY HandlesElements, LiveTyped, FramesTyped, ShortSequences, SendHubElements DEF WorkerList, Types, durable,
   ghosts

\* The replay: the last k markers of the ring, then the acknowledgement.
Replayed(k) ==
  LET n == Len(worker.marks) IN [j \in 1 .. k |-> [worker.marks[n - k + j] EXCEPT !.replay = TRUE]]

LEMMA ReplayedTyped ==
  ASSUME Types, NEW k \in worker.missed .. Len(worker.marks)
  PROVE  /\ Replayed(k) \in Seq(HubFrames) /\ Len(Replayed(k)) = k /\ k \in Nat
         /\ \A j \in 1 .. k : /\ Replayed(k)[j] \in Marks /\ Replayed(k)[j].t = "mark" /\ Replayed(k)[j].replay = TRUE
                              /\ Len(worker.marks) - k + j \in 1 .. Len(worker.marks)
                              /\ Replayed(k)[j].kind = worker.marks[Len(worker.marks) - k + j].kind
                              /\ Replayed(k)[j].of = worker.marks[Len(worker.marks) - k + j].of
<1> DEFINE n == Len(worker.marks)
<1>1. worker.marks \in Seq(Marks) /\ n \in Nat /\ worker.missed \in Nat
  BY TypesConsequences DEF MarksKept
<1>2. k \in Nat /\ k <= n
  BY <1>1
<1>3. ASSUME NEW j \in 1 .. k
      PROVE  /\ n - k + j \in 1 .. n /\ worker.marks[n - k + j] \in Marks
             /\ Replayed(k)[j] = [worker.marks[n - k + j] EXCEPT !.replay = TRUE]
  BY <1>1, <1>2 DEF Replayed
<1>4. \A m \in Marks : LET u == [m EXCEPT !.replay = TRUE]
                       IN u \in Marks /\ u.t = "mark" /\ u.replay = TRUE /\ u.kind = m.kind /\ u.of = m.of
  BY DEF Marks
<1>5. ASSUME NEW j \in 1 .. k
      PROVE  /\ Replayed(k)[j] \in Marks /\ Replayed(k)[j].t = "mark" /\ Replayed(k)[j].replay = TRUE
             /\ n - k + j \in 1 .. n
             /\ Replayed(k)[j].kind = worker.marks[n - k + j].kind
             /\ Replayed(k)[j].of = worker.marks[n - k + j].of
  <2> DEFINE m == worker.marks[n - k + j]
  <2>1. m \in Marks /\ Replayed(k)[j] = [m EXCEPT !.replay = TRUE] /\ n - k + j \in 1 .. n
    BY <1>3
  <2> HIDE DEF m
  <2>2. Replayed(k)[j] \in Marks /\ Replayed(k)[j].t = "mark" /\ Replayed(k)[j].replay = TRUE
        /\ Replayed(k)[j].kind = m.kind /\ Replayed(k)[j].of = m.of
    BY <1>4, <2>1
  <2>3. QED BY <2>1, <2>2 DEF m
<1>6. Replayed(k) \in [1 .. k -> HubFrames]
  BY <1>5, FramesTyped DEF Replayed
<1>7. Replayed(k) \in Seq(HubFrames) /\ Len(Replayed(k)) = k
  BY <1>2, <1>6, FunctionIsSequence
<1>8. QED BY <1>2, <1>5, <1>7

LEMMA WorkerAttachStep ==
  ASSUME Types, WorkerAttach
  PROVE  LET c == toWorker[1].call
         IN /\ Handles({"attach"}) /\ c \in CallSet
            /\ \E k \in worker.missed .. Len(worker.marks) :
                 SendHub(Append(Replayed(k), Ack(c, TRUE)))
            /\ worker' \in WorkerStates
            /\ worker'.held = worker.held /\ worker'.on = worker.on /\ worker'.n = worker.n
            /\ worker'.active = worker.active /\ worker'.owed = worker.owed /\ worker'.marks = worker.marks
            /\ worker'.op = worker.op /\ worker'.steers = worker.steers
            /\ UNCHANGED <<provider, steers, box, fyi, queue, stored, origin, noticed, hub, calls, link,
                           seen, told, unsure, faults>>
<1>1. /\ Handles({"attach"}) /\ worker' = [worker EXCEPT !.missed = 0]
      /\ UNCHANGED <<provider, steers, box, fyi, queue, stored, origin, noticed, hub, calls, link,
                     seen, told, unsure, faults>>
  BY DEF WorkerAttach, durable, ghosts
<1>2. \E k \in worker.missed .. Len(worker.marks) :
        SendHub(Append(Replayed(k), Ack(Head(toWorker).call, TRUE)))
  BY DEF WorkerAttach, Replayed
<1>3. Head(toWorker).call \in CallSet /\ Head(toWorker) = toWorker[1]
  BY <1>1, HandlesElements
<1>4. /\ worker' \in WorkerStates
      /\ worker'.held = worker.held /\ worker'.on = worker.on /\ worker'.n = worker.n
      /\ worker'.active = worker.active /\ worker'.owed = worker.owed /\ worker'.marks = worker.marks
      /\ worker'.op = worker.op /\ worker'.steers = worker.steers
  <2>1. worker \in WorkerStates
    BY DEF Types
  <2>2. 0 \in 0 .. MarksKept
    BY DEF MarksKept
  <2>3. QED BY <1>1, <2>1, <2>2 DEF WorkerStates
<1>5. QED BY <1>1, <1>2, <1>3, <1>4

LEMMA TypesWorkerAttach ==
  ASSUME Types, WorkerAttach
  PROVE  Types'
<1> DEFINE c == toWorker[1].call
<1>1. /\ Handles({"attach"}) /\ c \in CallSet
      /\ \E k \in worker.missed .. Len(worker.marks) : SendHub(Append(Replayed(k), Ack(c, TRUE)))
      /\ worker' \in WorkerStates /\ worker'.n = worker.n /\ worker'.steers = worker.steers
      /\ UNCHANGED <<provider, steers, box, fyi, queue, stored, origin, noticed, hub, calls, link,
                     seen, told, unsure, faults>>
  BY WorkerAttachStep
<1>2. PICK k \in worker.missed .. Len(worker.marks) : SendHub(Append(Replayed(k), Ack(c, TRUE)))
  BY <1>1
<1>3. Append(Replayed(k), Ack(c, TRUE)) \in Seq(HubFrames)
  BY <1>1, ReplayedTyped, FramesTyped, AppendElements
<1>4. toHub' \in Seq(HubFrames) /\ toWorker' \in Seq(WorkerFrames)
  BY <1>1, <1>2, <1>3, SendHubElements, HandlesElements
<1>5. QED BY <1>1, <1>4 DEF Types

LEMMA VendorEndStep ==
  ASSUME Types, VendorEnd
  PROVE  \E k \in {"completed", "errored"} :
           /\ worker.on /\ k \in Turns /\ k # "started"
           /\ worker' \in WorkerStates
           /\ worker'.held = worker.held /\ worker'.on = FALSE /\ worker'.active = FALSE
           /\ worker'.n = worker.n /\ worker'.op = worker.op /\ worker'.owed = worker.owed
           /\ worker'.steers = worker.steers
           /\ worker'.marks # << >> /\ worker'.marks[Len(worker'.marks)] = Mark(k, {})
           /\ SendHub(<<Mark(k, {})>>)
           /\ faults' \in 0 .. MaxFaults
           /\ UNCHANGED <<provider, steers, box, fyi, queue, stored, origin, noticed, hub, calls, link, toWorker,
                          seen, told, unsure>>
<1>1. PICK k \in {"completed", "errored"} :
        /\ IF k = "errored" THEN Fault ELSE UNCHANGED faults
        /\ worker' = [Emitted(<<Mark(k, {})>>) EXCEPT !.on = FALSE]
        /\ SendHub(<<Mark(k, {})>>)
  BY DEF VendorEnd
<1>2. /\ worker.on
      /\ UNCHANGED <<provider, steers, box, fyi, queue, stored, origin, noticed, hub, calls, link, toWorker,
                     seen, told, unsure>>
  BY DEF VendorEnd, durable, ghosts
<1> DEFINE ms == <<Mark(k, {})>>
           e == Emitted(ms)
<1>3. /\ e \in WorkerStates /\ e.n = worker.n /\ e.owed = worker.owed /\ e.steers = worker.steers
      /\ e.held = worker.held /\ e.op = worker.op
      /\ e.marks # << >> /\ e.marks[Len(e.marks)] = Mark(k, {}) /\ e.active = FALSE
  <2>1. ms \in Seq(Marks) /\ ms # << >> /\ Len(ms) = 1 /\ ms[1] = Mark(k, {})
    BY MarkSequences DEF Turns
  <2>2. Mark(k, {}).kind # "started"
    BY DEF Mark
  <2> HIDE DEF ms
  <2>3. QED BY <2>1, <2>2, EmittedMarks
<1>4. /\ worker' \in WorkerStates
      /\ worker'.held = worker.held /\ worker'.on = FALSE /\ worker'.active = FALSE
      /\ worker'.n = worker.n /\ worker'.op = worker.op /\ worker'.owed = worker.owed
      /\ worker'.steers = worker.steers /\ worker'.marks = e.marks
  <2>1. worker' = [e EXCEPT !.on = FALSE]
    BY <1>1
  <2> HIDE DEF e
  <2>2. QED BY <1>3, <2>1 DEF WorkerStates
<1>5. faults' \in 0 .. MaxFaults
  BY <1>1, FaultTyped DEF Types
<1>6. k \in Turns /\ k # "started"
  BY DEF Turns
<1>7. WITNESS k \in {"completed", "errored"}
<1>8. QED BY <1>1, <1>2, <1>3, <1>4, <1>5, <1>6

LEMMA TypesVendorEnd ==
  ASSUME Types, VendorEnd
  PROVE  Types'
BY VendorEndStep, MarkSequences, SendHubElements DEF Types

\* Failures.
LEMMA SpawnedTyped ==
  ASSUME NEW n \in Nat
  PROVE  /\ Spawned(n) \in WorkerStates /\ Spawned(n).steers = {} /\ Spawned(n).owed = {} /\ Spawned(n).n = n
         /\ Spawned(n).on = FALSE /\ Spawned(n).active = FALSE /\ Spawned(n).marks = << >> /\ Spawned(n).held = FALSE
BY ShortSequences DEF MarksKept, Spawned, WorkerStates

LEMMA EmptyChannels ==
  << >> \in Seq(HubFrames) /\ << >> \in Seq(WorkerFrames) /\ DOMAIN << >> = {} /\ Len(<< >>) = 0
BY ShortSequences

LEMMA LostWorker ==
  ASSUME Types
  PROVE  LET w == [WorkerWithout(calls) EXCEPT !.missed = LostMarks]
         IN /\ w \in WorkerStates
            /\ w.held = worker.held /\ w.on = worker.on /\ w.n = worker.n /\ w.op = worker.op
            /\ w.active = worker.active /\ w.marks = worker.marks
            /\ w.owed = {GivenUp(c, calls) : c \in worker.owed}
            /\ \A t \in w.steers :
                 \E s \in worker.steers : /\ t.n = s.n /\ t.call = GivenUp(s.call, calls)
                                          /\ t = [s EXCEPT !.call = GivenUp(s.call, calls)]
            /\ \A t \in w.steers : t.n <= worker.n
<1> DEFINE v == WorkerWithout(calls)
<1>1. /\ v \in WorkerStates
      /\ v.held = worker.held /\ v.on = worker.on /\ v.n = worker.n /\ v.op = worker.op
      /\ v.active = worker.active /\ v.marks = worker.marks
      /\ v.owed = {GivenUp(c, calls) : c \in worker.owed}
      /\ \A t \in v.steers :
           \E s \in worker.steers : /\ t.n = s.n /\ t.call = GivenUp(s.call, calls)
                                    /\ t = [s EXCEPT !.call = GivenUp(s.call, calls)]
      /\ \A t \in v.steers : t.n <= worker.n
  BY WorkerWithoutFields
<1>2. LostMarks \in 0 .. MarksKept
  BY LostMarksTyped
<1> HIDE DEF v
<1> DEFINE w == [v EXCEPT !.missed = LostMarks]
<1>3. /\ w \in WorkerStates /\ w.steers = v.steers /\ w.owed = v.owed /\ w.held = v.held /\ w.on = v.on
      /\ w.n = v.n /\ w.op = v.op /\ w.active = v.active /\ w.marks = v.marks
  BY <1>1, <1>2 DEF WorkerStates
<1> HIDE DEF w
<1>4. /\ w \in WorkerStates
      /\ w.held = worker.held /\ w.on = worker.on /\ w.n = worker.n /\ w.op = worker.op
      /\ w.active = worker.active /\ w.marks = worker.marks
      /\ w.owed = {GivenUp(c, calls) : c \in worker.owed}
      /\ \A t \in w.steers :
           \E s \in worker.steers : /\ t.n = s.n /\ t.call = GivenUp(s.call, calls)
                                    /\ t = [s EXCEPT !.call = GivenUp(s.call, calls)]
      /\ \A t \in w.steers : t.n <= worker.n
  BY <1>1, <1>3
<1>5. QED BY <1>4 DEF w, v

LEMMA TypesDrop ==
  ASSUME Types, Drop
  PROVE  Types'
<1>1. worker' \in WorkerStates /\ worker'.n = worker.n /\ \A t \in worker'.steers : t.n <= worker'.n
  BY LostWorker DEF Drop
<1>2. calls' \subseteq CallSet /\ toHub' \in Seq(HubFrames) /\ toWorker' \in Seq(WorkerFrames) /\ link' \in BOOLEAN
  BY FailedCalls, EmptyChannels DEF Drop, Closed
<1>3. faults' \in 0 .. MaxFaults
  BY FaultTyped DEF Drop
<1>4. QED BY <1>1, <1>2, <1>3 DEF Types, Drop, durable, ghosts

LEMMA TypesRespawn ==
  ASSUME Types, Respawn
  PROVE  Types'
<1>1. worker' \in WorkerStates /\ worker'.steers = {}
  BY TypesConsequences, SpawnedTyped DEF Respawn
<1>2. calls' \subseteq CallSet /\ toHub' \in Seq(HubFrames) /\ toWorker' \in Seq(WorkerFrames) /\ link' \in BOOLEAN
  BY FailedCalls, EmptyChannels DEF Respawn, Closed
<1>3. faults' \in 0 .. MaxFaults
  BY FaultTyped DEF Respawn
<1>4. QED BY <1>1, <1>2, <1>3 DEF Types, Respawn, durable, ghosts

LEMMA TypesHubEnds ==
  ASSUME Types, HubEnds
  PROVE  Types'
<1>1. worker' \in WorkerStates /\ worker'.n = worker.n /\ \A t \in worker'.steers : t.n <= worker'.n
  BY LostWorker DEF HubEnds
<1>2. calls' \subseteq CallSet /\ toHub' \in Seq(HubFrames) /\ toWorker' \in Seq(WorkerFrames) /\ link' \in BOOLEAN
  BY EmptyChannels DEF HubEnds, Closed
<1>3. faults' \in 0 .. MaxFaults
  BY FaultTyped DEF HubEnds, Types
<1>4. hub' \in HubStates
  BY BootedFields DEF HubEnds, Types
<1>5. QED BY <1>1, <1>2, <1>3, <1>4 DEF Types, HubEnds, durable, ghosts

LEMMA TypesHubBoots ==
  ASSUME Types, HubBoots
  PROVE  Types'
BY DEF Types, HubStates, HubBoots, durable, channel, ghosts

LEMMA TypesConnect ==
  ASSUME Types, Connect
  PROVE  Types'
<1>1. hub' \in HubStates
  BY DEF Types, HubStates, Connect, ListKinds
<1>2. Call("first", {}, {}) \in CallSet
  BY CallTyped DEF Kinds, ListKinds
<1>3. Do(Call("first", {}, {})) \in WorkerFrames
  BY <1>2, FramesTyped
<1>4. calls' \subseteq CallSet /\ toWorker' \in Seq(WorkerFrames)
  BY <1>2, <1>3, ShortSequences DEF Types, Connect
<1>5. QED BY <1>1, <1>4 DEF Types, Connect, durable, ghosts

LEMMA TimeoutStep ==
  ASSUME Types, Timeout
  PROVE  \E c \in calls :
           /\ c \in CallSet /\ c.outcome = "sent"
           /\ c.kind = "confer" => "steerLost" \in Env
           /\ c.kind \in TurnKinds => "turnLost" \in Env
           /\ c.kind \in AttachKinds => "attachLost" \in Env
           /\ calls' = (calls \ {c}) \cup {Answered(c, "fail")}
           /\ toHub' = FramesWithout(toHub, {c})
           /\ toWorker' = FramesWithout(toWorker, {c})
           /\ worker' = WorkerWithout({c})
           /\ faults' \in 0 .. MaxFaults
           /\ UNCHANGED <<provider, steers, box, fyi, queue, stored, origin, noticed, hub, link, seen, told, unsure>>
BY FaultTyped DEF Timeout, durable, ghosts, Types

LEMMA TypesTimeout ==
  ASSUME Types, Timeout
  PROVE  Types'
<1>1. PICK c \in calls :
           /\ c \in CallSet
           /\ calls' = (calls \ {c}) \cup {Answered(c, "fail")}
           /\ toHub' = FramesWithout(toHub, {c})
           /\ toWorker' = FramesWithout(toWorker, {c})
           /\ worker' = WorkerWithout({c})
           /\ faults' \in 0 .. MaxFaults
           /\ UNCHANGED <<provider, steers, box, fyi, queue, stored, origin, noticed, hub, link, seen, told, unsure>>
  BY TimeoutStep
<1>2. worker' \in WorkerStates /\ worker'.n = worker.n /\ \A t \in worker'.steers : t.n <= worker'.n
  BY <1>1, WorkerWithoutFields
<1>3. toHub' \in Seq(HubFrames) /\ toWorker' \in Seq(WorkerFrames)
  BY <1>1, HubFramesWithout, WorkerFramesWithout, TypesConsequences
<1>4. calls' \subseteq CallSet
  BY <1>1, CallTyped DEF Types
<1>5. QED BY <1>1, <1>2, <1>3, <1>4 DEF Types

-----------------------------------------------------------------------------
(* Type correctness.                                                       *)

LEMMA TypesInit ==
  ASSUME Init
  PROVE  Types
<1>1. hub \in HubStates
  BY BootedFields DEF Init, Statuses
<1>2. worker \in WorkerStates /\ worker.steers = {}
  BY SpawnedTyped DEF Init
<1>3. box \in Boxes /\ seen \in [Inputs \cup Mail -> Nat]
  BY DEF Init, Boxes
<1>4. faults \in 0 .. MaxFaults
  BY InboxAssumption DEF Init
<1>5. toHub \in Seq(HubFrames) /\ toWorker \in Seq(WorkerFrames)
  BY EmptyChannels DEF Init
<1>6. QED BY <1>1, <1>2, <1>3, <1>4, <1>5 DEF Init, Types, Statuses

\* One alternative for every action.
LEMMA Cases ==
  ASSUME Next
  PROVE  \/ \E i \in Inputs : SendSteer(i) \/ SendFresh(i)
         \/ (\E m \in Mail : Post(m)) \/ ReadInbox \/ Deliver \/ Thaw
         \/ \E c \in calls : TurnReturns(c) \/ Confers(c) \/ StaysQueued(c) \/ KeptReturns(c)
                             \/ MailTaken(c) \/ MailRefused(c) \/ Rechecked(c)
                             \/ AttachFirst(c) \/ AttachReplayed(c) \/ AttachSecond(c) \/ AttachFails(c)
         \/ HubReply \/ HubMark
         \/ WorkerStart \/ WorkerRefuse \/ WorkerSteer \/ WorkerNotice \/ WorkerList \/ WorkerAttach
         \/ WorkerAckStart \/ VendorSteer \/ VendorEnd
         \/ HubBoots \/ Connect \/ Drop \/ Respawn \/ HubEnds \/ Timeout \/ Freeze
BY DEF Next, Request, Continuation, WorkerStep, Failure

LEMMA TypesStutters ==
  ASSUME Types, UNCHANGED vars
  PROVE  Types'
BY DEF Types, vars, durable, channel, ghosts

LEMMA TypesStep ==
  ASSUME Types, [Next]_vars
  PROVE  Types'
<1>1. CASE UNCHANGED vars
  BY <1>1, TypesStutters
<1>2. CASE Next
  <2>1. ASSUME NEW i \in Inputs, SendSteer(i) \/ SendFresh(i) PROVE Types'
    BY <2>1, TypesSendSteer, TypesSendFresh
  <2>2. ASSUME NEW m \in Mail, Post(m) PROVE Types'
    BY <2>2, TypesPost
  <2>3. CASE ReadInbox \/ Deliver \/ Thaw \/ HubReply \/ HubMark
    BY <2>3, TypesReadInbox, TypesDeliver, TypesThaw, TypesHubReply, TypesHubMark
  <2>4. ASSUME NEW c \in calls,
               TurnReturns(c) \/ Confers(c) \/ StaysQueued(c) \/ KeptReturns(c)
               \/ MailTaken(c) \/ MailRefused(c) \/ Rechecked(c)
               \/ AttachFirst(c) \/ AttachReplayed(c) \/ AttachSecond(c) \/ AttachFails(c)
        PROVE  Types'
    BY <2>4, TypesTurnReturns, TypesConfers, TypesStaysQueued, TypesKeptReturns, TypesMailTaken, TypesMailRefused,
       TypesRechecked, TypesAttachFirst, TypesAttachReplayed, TypesAttachSecond, TypesAttachFails
  <2>5. CASE WorkerStart \/ WorkerRefuse \/ WorkerSteer \/ WorkerNotice \/ WorkerList \/ WorkerAttach
             \/ WorkerAckStart \/ VendorSteer \/ VendorEnd
    BY <2>5, TypesWorkerStart, TypesWorkerRefuse, TypesWorkerSteer, TypesWorkerNotice, TypesWorkerList,
       TypesWorkerAttach, TypesWorkerAckStart, TypesVendorSteer, TypesVendorEnd
  <2>6. CASE HubBoots \/ Connect \/ Drop \/ Respawn \/ HubEnds \/ Timeout \/ Freeze
    BY <2>6, TypesHubBoots, TypesConnect, TypesDrop, TypesRespawn, TypesHubEnds, TypesTimeout, TypesFreeze
  <2>7. QED BY <1>2, <2>1, <2>2, <2>3, <2>4, <2>5, <2>6, Cases
<1>3. QED BY <1>1, <1>2

LEMMA TypesImplyTypeOK ==
  ASSUME Types
  PROVE  TypeOK
<1>1. hub \in HubStates /\ worker \in WorkerStates /\ \A s \in worker.steers : s.n <= worker.n
  BY DEF Types
<1>2. /\ hub.status \in {"idle", "active", "error"} /\ hub.fresh \subseteq ListKinds
      /\ \A f \in DOMAIN hub \ {"status", "fresh"} : hub[f] \in BOOLEAN
  BY <1>1 DEF HubStates, Statuses
<1>3. ASSUME NEW f \in HubFrames PROVE FrameOK(f)
  BY <1>3, HubFrame DEF FrameOK
<1>4. \A k \in DOMAIN worker.marks : FrameOK(worker.marks[k])
  BY <1>3, TypesConsequences, FramesTyped
<1>5. \A f \in ToSet(toHub) : FrameOK(f)
  BY <1>3, TypesConsequences DEF ToSet
<1>6. \A f \in ToSet(toWorker) : f = Notice \/ f.call \in CallSet
  BY WorkerFrame, TypesConsequences DEF ToSet
<1>7. \A w \in worker.steers : w.call \in CallSet /\ w.n \in 0 .. worker.n
  BY <1>1, TypesConsequences DEF Steers
<1>8. worker.owed \subseteq CallSet /\ worker.n \in Nat /\ worker.missed \in 0 .. MarksKept
  BY TypesConsequences
<1>9. QED BY <1>2, <1>4, <1>5, <1>6, <1>7, <1>8 DEF Types, TypeOK, Boxes, Entries, Statuses

\* Type correctness: whatever is dropped, timed out, replayed or restarted, the hub's bits, the
\* queue, the calls in flight and every frame on the socket keep their types: a frame carries a
\* call of the protocol, a steer the number of a turn that was started, and the worker counts
\* no more missed markers than it keeps.
THEOREM TypeCorrect == Spec => []TypeOK
<1>1. Init => Types
  BY TypesInit
<1>2. Types /\ [Next]_vars => Types'
  BY TypesStep
<1>3. Types => TypeOK
  BY TypesImplyTypeOK
<1>4. QED BY <1>1, <1>2, <1>3, PTL DEF Spec

-----------------------------------------------------------------------------
(* Calls and their frames: which call a frame answers, and how many are    *)
(* under way.                                                              *)

IsMark(f) == f.t = "mark"
LiveMark(f) == f.t = "mark" /\ ~f.replay
DoesTurn(f) == f.t = "do" /\ f.call.kind \in TurnKinds
DoesAttach(f) == f.t = "do" /\ f.call.kind = "attach"

\* attachWorker() runs: the three places of Attaching, as positions of the two sequences.
AttachRuns ==
  \/ \E c \in calls : c.kind \in AttachKinds
  \/ \E q \in DOMAIN toWorker : DoesAttach(toWorker[q])
  \/ \E j \in DOMAIN toHub : IsMark(toHub[j]) /\ toHub[j].replay

\* A frame carries a call of its own kind, never one the hub already took for answered well.
HubFrameFits(f) ==
  /\ f.t = "live" => f.call.kind \in ListKinds /\ f.call.outcome # "ok"
  /\ f.t = "ack" => /\ f.call.kind \notin ListKinds /\ f.call.outcome # "ok"
                    /\ f.call.kind \in TurnKinds => f.ok
CommandFits(f) ==
  f.t = "do" => f.call.outcome # "ok" /\ (f.call.kind = "confer" => f.call.inputs # {})
SteerFits(s) ==
  s.call.kind \in SteerKinds /\ s.call.outcome # "ok" /\ (s.call.kind = "confer" => s.call.inputs # {})
FramesFit ==
  /\ \A j \in DOMAIN toHub : HubFrameFits(toHub[j])
  /\ \A q \in DOMAIN toWorker : CommandFits(toWorker[q])
  /\ \A s \in worker.steers : SteerFits(s)
  /\ \A c \in worker.owed : c.kind \in TurnKinds /\ c.outcome # "ok"

\* Without a hub there are no calls; without a socket nothing is on it and every call failed.
Down ==
  /\ ~hub.up => ~link /\ calls = {}
  /\ ~link => toHub = << >> /\ toWorker = << >> /\ \A c \in calls : c.outcome = "fail"

\* One call of attachWorker(), and one mail steer or recheck, not both at a time.
SteerChain == {"mail", "recheck"}
Chains ==
  /\ \A c, d \in calls : c.kind \in SteerChain /\ d.kind \in SteerChain => c = d
  /\ \A c \in calls : c.kind \in SteerChain => hub.steering /\ ~AttachRuns
  /\ \A c, d \in calls : c.kind \in AttachKinds /\ d.kind \in AttachKinds => c = d

\* A list or an attach that was not given up has its call, and is on its way once.
Asked(f) ==
  /\ f.t \in {"do", "live", "ack"}
  /\ f.call.kind \in ListKinds \cup {"attach"} /\ f.call.outcome = "sent"
Requests ==
  /\ \A q \in DOMAIN toWorker : Asked(toWorker[q]) => toWorker[q].call \in calls
  /\ \A j \in DOMAIN toHub : Asked(toHub[j]) => toHub[j].call \in calls
  /\ \A p, q \in DOMAIN toWorker :
       Asked(toWorker[p]) /\ Asked(toWorker[q]) /\ toWorker[p].call = toWorker[q].call => p = q
  /\ \A i, j \in DOMAIN toHub : Asked(toHub[i]) /\ Asked(toHub[j]) /\ toHub[i].call = toHub[j].call => i = j
  /\ \A q \in DOMAIN toWorker, j \in DOMAIN toHub :
       ~(Asked(toWorker[q]) /\ Asked(toHub[j]) /\ toWorker[q].call = toHub[j].call)

\* An attach that was given up is the only trace of its attachWorker().
StrayAttach ==
  \A q \in DOMAIN toWorker :
    DoesAttach(toWorker[q]) /\ toWorker[q].call.outcome = "fail" =>
      \A c \in calls : c.kind \in AttachKinds => c.kind = "attach" /\ c.outcome = "fail"

CallInv == Types /\ FramesFit /\ Down /\ Chains /\ Requests /\ StrayAttach

\* The narrow interleavings under which the hub can be wrong about the turn that runs.
Careful == {"turnLost", "earlyTurn", "secondWake"} \cap Env = {}

LEMMA NotAttaching ==
  ASSUME Types, Careful, HubTick
  PROVE  ~AttachRuns /\ hub.up /\ Settled = {} /\ \A c \in calls : c.outcome = "sent"
BY DEF HubTick, Careful, Settled, Attaching, AttachRuns, ToSet, DoesAttach, IsMark

LEMMA KindFacts ==
  /\ \A k \in TurnKinds : k \notin SteerKinds /\ k \notin ListKinds /\ k \notin AttachKinds /\ k \notin SteerChain
                          /\ k # "attach" /\ k # "confer"
  /\ \A k \in {"confer", "kept"} : k \notin TurnKinds /\ k \notin ListKinds /\ k \notin AttachKinds /\ k \notin SteerChain
                                   /\ k # "attach" /\ k \in SteerKinds /\ k \in Kinds
  /\ "mail" \notin TurnKinds /\ "mail" \notin ListKinds /\ "mail" \notin AttachKinds /\ "mail" \in SteerChain
  /\ "mail" \in SteerKinds /\ "mail" \in Kinds
  /\ "recheck" \notin TurnKinds /\ "recheck" \in ListKinds /\ "recheck" \notin AttachKinds /\ "recheck" \in SteerChain
  /\ "recheck" \notin SteerKinds /\ "recheck" \in Kinds
  /\ \A k \in AttachKinds : k \notin TurnKinds /\ k \notin SteerKinds /\ k \notin SteerChain /\ k \in Kinds
  /\ \A k \in ListKinds : k \in AttachKinds \/ k = "recheck"
  /\ "first" \in AttachKinds /\ "second" \in AttachKinds /\ "attach" \in AttachKinds
  /\ "first" \in ListKinds /\ "second" \in ListKinds /\ "attach" \notin ListKinds
BY DEF TurnKinds, SteerKinds, ListKinds, AttachKinds, SteerChain, Kinds

\* Requests survive a step that only takes from the sequences or adds frames of other calls.
LEMMA RequestsKept ==
  ASSUME Requests, Types, Types', NEW a \in Nat, NEW b \in Nat,
         \A q \in DOMAIN toWorker' :
           Asked(toWorker'[q]) => q + a \in DOMAIN toWorker /\ toWorker[q + a] = toWorker'[q],
         \A j \in DOMAIN toHub' :
           Asked(toHub'[j]) => j + b \in DOMAIN toHub /\ toHub[j + b] = toHub'[j],
         \A c \in calls : c.outcome = "sent" /\ c.kind \in ListKinds \cup {"attach"} => c \in calls'
  PROVE  Requests'
<1>1. DOMAIN toWorker' \subseteq Nat /\ DOMAIN toHub' \subseteq Nat
  BY DEF Types
<1>2. \A f : Asked(f) => f.call.outcome = "sent" /\ f.call.kind \in ListKinds \cup {"attach"}
  BY DEF Asked
<1>3. ASSUME NEW q \in DOMAIN toWorker', Asked(toWorker'[q])
      PROVE  toWorker'[q].call \in calls'
  BY <1>2, <1>3 DEF Requests
<1>4. ASSUME NEW j \in DOMAIN toHub', Asked(toHub'[j])
      PROVE  toHub'[j].call \in calls'
  BY <1>2, <1>4 DEF Requests
<1>5. ASSUME NEW p \in DOMAIN toWorker', NEW q \in DOMAIN toWorker',
             Asked(toWorker'[p]), Asked(toWorker'[q]), toWorker'[p].call = toWorker'[q].call
      PROVE  p = q
  BY <1>1, <1>5 DEF Requests
<1>6. ASSUME NEW p \in DOMAIN toHub', NEW q \in DOMAIN toHub',
             Asked(toHub'[p]), Asked(toHub'[q]), toHub'[p].call = toHub'[q].call
      PROVE  p = q
  BY <1>1, <1>6 DEF Requests
<1>7. ASSUME NEW q \in DOMAIN toWorker', NEW j \in DOMAIN toHub',
             Asked(toWorker'[q]), Asked(toHub'[j]), toWorker'[q].call = toHub'[j].call
      PROVE  FALSE
  BY <1>7 DEF Requests
<1>8. QED BY <1>3, <1>4, <1>5, <1>6, <1>7 DEF Requests

LEMMA NothingAsked ==
  ASSUME NEW f, f.t \notin {"do", "live", "ack"} \/ f.call.kind \notin ListKinds \cup {"attach"}
  PROVE  ~Asked(f)
BY DEF Asked

LEMMA StrayKept ==
  ASSUME StrayAttach,
         \A q \in DOMAIN toWorker' :
           DoesAttach(toWorker'[q]) /\ toWorker'[q].call.outcome = "fail"
             => \E p \in DOMAIN toWorker : toWorker[p] = toWorker'[q],
         \A c \in calls' : c.kind \in AttachKinds => c \in calls
  PROVE  StrayAttach'
BY DEF StrayAttach

LEMMA FitsKept ==
  ASSUME FramesFit,
         \A j \in DOMAIN toHub' : HubFrameFits(toHub'[j]) \/ \E i \in DOMAIN toHub : toHub[i] = toHub'[j],
         \A q \in DOMAIN toWorker' : CommandFits(toWorker'[q]) \/ \E p \in DOMAIN toWorker : toWorker[p] = toWorker'[q],
         \A s \in worker'.steers : SteerFits(s) \/ s \in worker.steers,
         \A c \in worker'.owed : (c.kind \in TurnKinds /\ c.outcome # "ok") \/ c \in worker.owed
  PROVE  FramesFit'
BY DEF FramesFit

\* Calls that the hub drops or keeps as they are leave the chains as they were.
LEMMA ChainsKept ==
  ASSUME Chains, \A c \in calls' : c.kind \in SteerChain \cup AttachKinds => c \in calls,
         hub'.steering = hub.steering \/ \A c \in calls' : c.kind \notin SteerChain,
         AttachRuns' => AttachRuns \/ \A c \in calls' : c.kind \notin SteerChain
  PROVE  Chains'
BY DEF Chains

\* Steps of the hub that send nothing and change no call but to drop a settled one.
LEMMA CallsQuiet ==
  ASSUME CallInv, Types', UNCHANGED <<toHub, toWorker, worker, link>>, hub'.up = hub.up,
         calls' \subseteq calls, \A c \in calls : c.outcome = "sent" => c \in calls',
         hub'.steering = hub.steering \/ \A c \in calls' : c.kind \notin SteerChain
  PROVE  CallInv'
<1>1. FramesFit'
  BY DEF CallInv, FramesFit
<1>2. Down'
  BY DEF CallInv, Down
<1>3. AttachRuns' => AttachRuns
  BY DEF AttachRuns
<1>4. Chains'
  BY <1>3, ChainsKept DEF CallInv
<1>5. Requests'
  <2>1. Types /\ Requests
    BY DEF CallInv
  <2>2. 0 \in Nat /\ DOMAIN toWorker \subseteq Nat /\ DOMAIN toHub \subseteq Nat
    BY <2>1 DEF Types
  <2>3. /\ \A q \in DOMAIN toWorker' : q + 0 \in DOMAIN toWorker /\ toWorker[q + 0] = toWorker'[q]
        /\ \A j \in DOMAIN toHub' : j + 0 \in DOMAIN toHub /\ toHub[j + 0] = toHub'[j]
    BY <2>2
  <2>4. QED BY <2>1, <2>2, <2>3, RequestsKept
<1>6. StrayAttach'
  BY StrayKept DEF CallInv
<1>7. QED BY <1>1, <1>2, <1>4, <1>5, <1>6 DEF CallInv

\* Steps of the worker: it takes at most a command and sends frames that answer no list or attach.
LEMMA CallsWorker ==
  ASSUME CallInv, Types', NEW a \in Nat, UNCHANGED <<hub, calls, link>>,
         \A q \in DOMAIN toWorker' : q + a \in DOMAIN toWorker /\ toWorker[q + a] = toWorker'[q],
         \A j \in DOMAIN toHub' :
           \/ j \in DOMAIN toHub /\ toHub[j] = toHub'[j]
           \/ HubFrameFits(toHub'[j]) /\ ~Asked(toHub'[j]) /\ ~(IsMark(toHub'[j]) /\ toHub'[j].replay),
         ~link => toHub' = << >> /\ toWorker' = << >>,
         \A s \in worker'.steers : SteerFits(s) \/ s \in worker.steers,
         \A c \in worker'.owed : (c.kind \in TurnKinds /\ c.outcome # "ok") \/ c \in worker.owed
  PROVE  CallInv'
<1>1. Types /\ FramesFit /\ Down /\ Chains /\ Requests /\ StrayAttach
  BY DEF CallInv
<1>2. FramesFit'
  BY <1>1, FitsKept
<1>3. Down'
  BY <1>1 DEF Down
<1>4. AttachRuns' => AttachRuns
  BY DEF AttachRuns
<1>5. Chains'
  BY <1>1, <1>4, ChainsKept
<1>6. Requests'
  <2>1. 0 \in Nat /\ DOMAIN toHub \subseteq Nat
    BY <1>1 DEF Types
  <2>2. \A j \in DOMAIN toHub' : Asked(toHub'[j]) => j + 0 \in DOMAIN toHub /\ toHub[j + 0] = toHub'[j]
    BY <2>1
  <2>3. QED BY <1>1, <2>1, <2>2, RequestsKept
<1>7. StrayAttach'
  BY <1>1, StrayKept
<1>8. QED BY <1>2, <1>3, <1>5, <1>6, <1>7 DEF CallInv

\* The hub makes a call that is no list and no attach.
LEMMA CallsIssue ==
  ASSUME CallInv, Types', Careful, HubTick, NEW k \in Kinds, k \notin ListKinds, k # "attach",
         NEW is \in SUBSET Inputs, NEW ms \in SUBSET Mail, Issue(Call(k, is, ms)), k = "confer" => is # {},
         UNCHANGED <<toHub, worker, link>>, hub'.up = hub.up,
         IF k = "mail" THEN ~hub.steering /\ hub'.steering ELSE hub'.steering = hub.steering
  PROVE  CallInv'
<1>1. Types /\ FramesFit /\ Down /\ Chains /\ Requests /\ StrayAttach
  BY DEF CallInv
<1> DEFINE c == Call(k, is, ms)
           d == IF link THEN c ELSE Answered(c, "fail")
<1>2. c \in CallSet /\ c.kind = k /\ c.inputs = is /\ c.outcome = "sent"
  BY CallTyped DEF Call
<1>3. d.kind = k /\ calls' = calls \cup {d} /\ (~link => d.outcome = "fail")
  BY <1>2, AnsweredFields DEF Issue
<1>4. /\ \A q \in DOMAIN toWorker : q \in DOMAIN toWorker' /\ toWorker'[q] = toWorker[q]
      /\ \A q \in DOMAIN toWorker' : \/ q \in DOMAIN toWorker /\ toWorker'[q] = toWorker[q]
                                     \/ link /\ toWorker'[q] = Do(c)
      /\ ~link => toWorker' = toWorker
  <2>1. /\ DOMAIN toWorker = 1 .. Len(toWorker) /\ Len(toWorker) \in Nat
        /\ ~link => toWorker' = toWorker
        /\ link => /\ DOMAIN toWorker' = 1 .. Len(toWorker) + 1
                   /\ \A i \in 1 .. Len(toWorker) : toWorker'[i] = toWorker[i]
                   /\ toWorker'[Len(toWorker) + 1] = Do(c)
    BY <1>1, <1>2, IssueElements
  <2> HIDE DEF c
  <2>2. CASE ~link
    BY <2>1, <2>2
  <2>3. CASE link
    BY <2>1, <2>3
  <2>4. QED BY <2>2, <2>3
<1>5. Do(c).t = "do" /\ Do(c).call = c
  BY FrameFields
<1>6. k \notin AttachKinds /\ k \notin ListKinds \cup {"attach"}
  BY KindFacts DEF AttachKinds, ListKinds
<1> HIDE DEF c, d
<1>7. FramesFit'
  BY <1>1, <1>2, <1>4, <1>5, FitsKept DEF CommandFits
<1>8. Down'
  BY <1>1, <1>3, <1>4, NotAttaching DEF Down
<1>9. AttachRuns' => AttachRuns
  BY <1>2, <1>3, <1>4, <1>5, <1>6 DEF DoesAttach, AttachRuns
<1>10. Chains'
  <2>1. ~AttachRuns
    BY <1>1, NotAttaching
  <2>2. CASE k = "mail"
    BY <1>1, <1>3, <1>6, <1>9, <2>1, <2>2 DEF Chains
  <2>3. CASE k # "mail"
    BY <1>1, <1>3, <1>6, <1>9, <2>3, KindFacts, ChainsKept DEF SteerChain, ListKinds
  <2>4. QED BY <2>2, <2>3
<1>11. Requests'
  <2>1. 0 \in Nat /\ DOMAIN toWorker \subseteq Nat /\ DOMAIN toHub \subseteq Nat
    BY <1>1 DEF Types
  <2>2. ~Asked(Do(c))
    BY <1>2, <1>5, <1>6, NothingAsked
  <2>3. \A q \in DOMAIN toWorker' : Asked(toWorker'[q]) => q + 0 \in DOMAIN toWorker /\ toWorker[q + 0] = toWorker'[q]
    BY <1>4, <2>1, <2>2
  <2>4. \A j \in DOMAIN toHub' : Asked(toHub'[j]) => j + 0 \in DOMAIN toHub /\ toHub[j + 0] = toHub'[j]
    BY <2>1
  <2>5. QED BY <1>1, <1>3, <2>1, <2>3, <2>4, RequestsKept
<1>12. StrayAttach'
  BY <1>1, <1>2, <1>3, <1>4, <1>5, <1>6, StrayKept DEF DoesAttach
<1>13. QED BY <1>7, <1>8, <1>10, <1>11, <1>12 DEF CallInv

\* A continuation goes on with the next call of its chain.
LEMMA CallsAsks ==
  ASSUME CallInv, Types', NEW c \in calls, c.outcome # "sent", link, hub.up, NEW k \in Kinds, Asks(c, k),
         \/ c.kind \in AttachKinds /\ c.outcome = "ok" /\ k \in {"attach", "second"}
         \/ c.kind = "mail" /\ k = "recheck",
         UNCHANGED <<toHub, worker, link>>, hub'.up = hub.up, hub'.steering = hub.steering
  PROVE  CallInv'
<1>1. Types /\ FramesFit /\ Down /\ Chains /\ Requests /\ StrayAttach
  BY DEF CallInv
<1> DEFINE d == Call(k, {}, {})
           l == Len(toWorker)
<1>2. d \in CallSet /\ d.kind = k /\ d.inputs = {} /\ d.outcome = "sent"
  BY CallTyped DEF Call
<1>3. /\ calls' = (calls \ {c}) \cup {d}
      /\ DOMAIN toWorker = 1 .. l /\ l \in Nat /\ DOMAIN toWorker' = 1 .. l + 1
      /\ \A i \in 1 .. l : toWorker'[i] = toWorker[i]
      /\ toWorker'[l + 1] = Do(d)
  BY <1>1, AsksElements
<1>4. Do(d).t = "do" /\ Do(d).call = d
  BY FrameFields
<1> HIDE DEF d, l
<1>5. k # "confer" /\ k \in ListKinds \cup {"attach"}
  BY DEF ListKinds
<1>6. \A q \in DOMAIN toWorker' : (q \in DOMAIN toWorker /\ toWorker'[q] = toWorker[q]) \/ (q = l + 1 /\ toWorker'[q] = Do(d))
  BY <1>3
<1>7. FramesFit'
  BY <1>1, <1>2, <1>4, <1>5, <1>6, FitsKept DEF CommandFits
<1>8. Down'
  BY <1>1 DEF Down
<1>9. \A e \in calls : e.kind = k /\ e.outcome = "sent" => FALSE
  BY <1>1, KindFacts DEF Chains
<1>10. Chains'
  <2>1. CASE c.kind \in AttachKinds /\ k \in {"attach", "second"}
    <3>1. AttachRuns
      BY <2>1 DEF AttachRuns
    <3>2. \A e \in calls : e.kind \notin SteerChain
      BY <1>1, <3>1 DEF Chains
    <3>3. k \in AttachKinds /\ k \notin SteerChain
      BY <2>1, KindFacts
    <3>4. \A e \in calls' : e.kind \notin SteerChain
      BY <1>2, <1>3, <3>2, <3>3
    <3>5. \A e \in calls' : e.kind \in AttachKinds => e = d
      BY <1>1, <1>3, <2>1 DEF Chains
    <3>6. QED BY <3>4, <3>5 DEF Chains
  <2>2. CASE c.kind = "mail" /\ k = "recheck"
    BY <1>1, <1>2, <1>3, <1>4, <1>6, <2>2, KindFacts DEF Chains, AttachRuns, DoesAttach
  <2>3. QED BY <2>1, <2>2
<1>11. Requests'
  <2>1. \A f : Asked(f) => f.call.outcome = "sent" /\ f.call.kind \in ListKinds \cup {"attach"}
    BY DEF Asked
  <2>2. \A q \in DOMAIN toWorker : Asked(toWorker[q]) => toWorker[q].call # d /\ toWorker[q].call \in calls'
    BY <1>1, <1>2, <1>3, <1>9, <2>1 DEF Requests
  <2>3. \A j \in DOMAIN toHub : Asked(toHub[j]) => toHub[j].call # d /\ toHub[j].call \in calls'
    BY <1>1, <1>2, <1>3, <1>9, <2>1 DEF Requests
  <2>4. /\ \A q \in DOMAIN toWorker' : Asked(toWorker'[q]) => toWorker'[q].call \in calls'
        /\ \A j \in DOMAIN toHub' : Asked(toHub'[j]) => toHub'[j].call \in calls'
    BY <1>3, <1>4, <1>6, <2>2, <2>3
  <2>5. \A p, q \in DOMAIN toWorker' :
          Asked(toWorker'[p]) /\ Asked(toWorker'[q]) /\ toWorker'[p].call = toWorker'[q].call => p = q
    BY <1>1, <1>4, <1>6, <2>2 DEF Requests
  <2>6. \A i, j \in DOMAIN toHub' : Asked(toHub'[i]) /\ Asked(toHub'[j]) /\ toHub'[i].call = toHub'[j].call => i = j
    BY <1>1 DEF Requests
  <2>7. \A q \in DOMAIN toWorker', j \in DOMAIN toHub' :
          ~(Asked(toWorker'[q]) /\ Asked(toHub'[j]) /\ toWorker'[q].call = toHub'[j].call)
    BY <1>1, <1>4, <1>6, <2>3 DEF Requests
  <2>8. QED BY <2>4, <2>5, <2>6, <2>7 DEF Requests
<1>12. StrayAttach'
  <2>1. ASSUME NEW q \in DOMAIN toWorker', DoesAttach(toWorker'[q]), toWorker'[q].call.outcome = "fail"
        PROVE  FALSE
    BY <1>1, <1>2, <1>4, <1>6, <2>1, KindFacts DEF StrayAttach, Chains, AttachRuns
  <2>2. QED BY <2>1 DEF StrayAttach
<1>13. QED BY <1>7, <1>8, <1>10, <1>11, <1>12 DEF CallInv

\* Action by action.
LEMMA DeliverCalls ==
  ASSUME CallInv, Types', Careful, HubTick, NEW r \in HubStates, r.up = hub.up, r.steering = hub.steering,
         NEW b, NEW f, DeliverBus(r, b, f), UNCHANGED <<toHub, worker, link>>
  PROVE  CallInv'
<1>1. Types
  BY DEF CallInv
<1>2. CASE DeliversNothing(r, b)
  BY <1>2, CallsQuiet DEF DeliversNothing, NoCall
<1>3. CASE GivesUp(r, b)
  BY <1>3, SetStatusFields, CallsQuiet DEF GivesUp, NoCall, Statuses
<1>4. ASSUME NEW batch \in SUBSET queue, HandsOver(r, b, batch)
      PROVE  CallInv'
  <2>1. /\ hub' = SetBusy([r EXCEPT !.dispatching = TRUE, !.opTurn = TRUE], TRUE)
        /\ Issue(Call("deferred", {e.input : e \in batch}, {}))
    BY <1>4 DEF HandsOver
  <2>2. hub'.up = hub.up /\ hub'.steering = hub.steering
    BY <2>1, HandoffFields
  <2>3. {e.input : e \in batch} \in SUBSET Inputs /\ {} \in SUBSET Mail
    BY <1>1, QueueTyped
  <2>4. "deferred" \in Kinds /\ "deferred" \notin ListKinds
    BY DEF Kinds, TurnKinds, ListKinds
  <2>5. QED BY <2>1, <2>2, <2>3, <2>4, CallsIssue
<1>5. CASE Notices(r, b)
  <2>1. /\ hub'.up = hub.up /\ hub'.steering = hub.steering /\ calls' = calls
        /\ toWorker' = toWorker \/ (link /\ toWorker' = Append(toWorker, Notice))
    BY <1>1, <1>5, NoticeFields
  <2>2. CASE toWorker' = toWorker
    BY <2>1, <2>2, CallsQuiet
  <2>3. CASE link /\ toWorker' = Append(toWorker, Notice)
    <3>1. /\ FramesFit /\ Down /\ Chains /\ Requests /\ StrayAttach
          /\ DOMAIN toWorker = 1 .. Len(toWorker) /\ Len(toWorker) \in Nat
          /\ DOMAIN toWorker' = 1 .. Len(toWorker) + 1
          /\ \A i \in 1 .. Len(toWorker) : toWorker'[i] = toWorker[i]
          /\ toWorker'[Len(toWorker) + 1] = Notice
      BY <1>1, <2>3, FramesTyped, AppendElements DEF Types, CallInv
    <3>2. Notice.t = "notice"
      BY FrameFields
    <3>3. \A q \in DOMAIN toWorker' : (q \in DOMAIN toWorker /\ toWorker'[q] = toWorker[q]) \/ toWorker'[q].t = "notice"
      BY <3>1, <3>2
    <3>4. FramesFit'
      BY <3>1, <3>3, FitsKept DEF CommandFits
    <3>5. Down'
      BY <2>1, <2>3, <3>1 DEF Down
    <3>6. AttachRuns' => AttachRuns
      BY <2>1, <3>3 DEF AttachRuns, DoesAttach
    <3>7. Chains'
      BY <2>1, <3>1, <3>6, ChainsKept
    <3>8. Requests'
      <4>1. 0 \in Nat /\ DOMAIN toWorker \subseteq Nat /\ DOMAIN toHub \subseteq Nat
        BY <1>1 DEF Types
      <4>2. \A q \in DOMAIN toWorker' : Asked(toWorker'[q]) => q + 0 \in DOMAIN toWorker /\ toWorker[q + 0] = toWorker'[q]
        BY <3>3, <4>1 DEF Asked
      <4>3. \A j \in DOMAIN toHub' : Asked(toHub'[j]) => j + 0 \in DOMAIN toHub /\ toHub[j + 0] = toHub'[j]
        BY <4>1
      <4>4. QED BY <1>1, <2>1, <3>1, <4>1, <4>2, <4>3, RequestsKept
    <3>9. StrayAttach'
      BY <2>1, <3>1, <3>3, StrayKept DEF DoesAttach
    <3>10. QED BY <3>4, <3>5, <3>7, <3>8, <3>9 DEF CallInv
  <2>4. QED BY <2>1, <2>2, <2>3
<1>6. CASE SteersMail(r, b)
  <2>1. hub' = [r EXCEPT !.steering = TRUE] /\ Issue(Call("mail", {}, PendingIn(b))) /\ ~hub.steering
    BY <1>6 DEF SteersMail
  <2>2. hub'.up = hub.up /\ hub'.steering
    BY <2>1, SteeringFields
  <2>3. {} \in SUBSET Inputs /\ PendingIn(b) \in SUBSET Mail
    BY PendingMail DEF PendingIn
  <2>4. "mail" \in Kinds /\ "mail" \notin ListKinds
    BY KindFacts
  <2>5. QED BY <2>1, <2>2, <2>3, <2>4, CallsIssue
<1>7. CASE WakesUp(r, b)
  <2>1. hub' = SetBusy([r EXCEPT !.busTurn = TRUE], TRUE) /\ Issue(Call("bus", {}, PendingIn(b)))
    BY <1>7 DEF WakesUp
  <2>2. hub'.up = hub.up /\ hub'.steering = hub.steering
    BY <2>1, WakeFields
  <2>3. {} \in SUBSET Inputs /\ PendingIn(b) \in SUBSET Mail
    BY PendingMail DEF PendingIn
  <2>4. "bus" \in Kinds /\ "bus" \notin ListKinds
    BY DEF Kinds, TurnKinds, ListKinds
  <2>5. QED BY <2>1, <2>2, <2>3, <2>4, CallsIssue
<1>8. QED BY <1>1, <1>2, <1>3, <1>4, <1>5, <1>6, <1>7, DeliverCases

LEMMA CallsSendSteer ==
  ASSUME CallInv, Types', Careful, NEW i \in Inputs, SendSteer(i)
  PROVE  CallInv'
BY KindFacts, CallsIssue DEF SendSteer

LEMMA CallsSendFresh ==
  ASSUME CallInv, Types', Careful, NEW i \in Inputs, SendFresh(i)
  PROVE  CallInv'
<1> DEFINE bu == hub.bundling \/ Pending # {}
           h == [hub EXCEPT !.opTurn = TRUE, !.bundling = bu]
<1>1. /\ HubTick /\ UNCHANGED <<toHub, worker, link>>
      /\ hub' = SetBusy(h, TRUE) /\ Issue(Call("fresh", {i}, Pending))
  BY DEF SendFresh, StartTurn
<1>2. bu \in BOOLEAN /\ hub \in HubStates
  BY HubFields DEF CallInv, Types
<1>3. h \in HubStates /\ h.up = hub.up /\ h.steering = hub.steering
  <2> HIDE DEF bu
  <2>1. QED BY <1>2 DEF HubStates
<1>4. hub'.up = hub.up /\ hub'.steering = hub.steering
  <2> HIDE DEF h
  <2>1. QED BY <1>1, <1>3, SetBusyFields
<1>5. {i} \in SUBSET Inputs /\ Pending \in SUBSET Mail /\ "fresh" \in Kinds /\ "fresh" \notin ListKinds
  BY DEF Kinds, TurnKinds, ListKinds, Pending
<1>6. QED BY <1>1, <1>4, <1>5, CallsIssue

LEMMA CallsPost ==
  ASSUME CallInv, Types', Careful, NEW m \in Mail, Post(m)
  PROVE  CallInv'
BY DeliverCalls DEF Post, CallInv, Types

LEMMA CallsDeliver ==
  ASSUME CallInv, Types', Careful, Deliver
  PROVE  CallInv'
<1> DEFINE r == [hub EXCEPT !.due = FALSE]
<1>1. HubTick /\ UNCHANGED <<toHub, worker, link>> /\ DeliverBus(r, box, fyi)
  BY DEF Deliver
<1>2. r \in HubStates /\ r.up = hub.up /\ r.steering = hub.steering
  BY DEF CallInv, Types, HubStates
<1> HIDE DEF r
<1>3. QED BY <1>1, <1>2, DeliverCalls

LEMMA CallsSimple ==
  ASSUME CallInv, Types', ReadInbox \/ Freeze \/ Thaw
  PROVE  CallInv'
BY CallsQuiet DEF CallInv, Types, ReadInbox, Freeze, Thaw, channel, HubStates

\* Continuations.
LEMMA ClosedCalls ==
  ASSUME NEW c \in calls, Continue(c), Closes(c)
  PROVE  /\ calls' = calls \ {c} /\ calls' \subseteq calls /\ c.outcome # "sent" /\ hub.up
         /\ \A d \in calls : d.outcome = "sent" => d \in calls'
BY DEF Continue, Closes, Settled

LEMMA CallsTurnReturns ==
  ASSUME CallInv, Types', NEW c \in calls, TurnReturns(c)
  PROVE  CallInv'
<1> DEFINE r == IF c.outcome = "ok" THEN hub ELSE Unconfirmed(hub)
           bu == r.bundling /\ c.kind # "fresh"
           di == r.dispatching /\ c.kind # "deferred"
<1>1. /\ Continue(c) /\ Closes(c) /\ UNCHANGED <<toHub, toWorker, worker, link>>
      /\ hub' = [r EXCEPT !.bundling = bu, !.dispatching = di]
  BY DEF TurnReturns
<1>2. hub \in HubStates
  BY DEF CallInv, Types
<1>3. r \in HubStates /\ r.up = hub.up /\ r.steering = hub.steering
  <2>1. SetBusy(hub, FALSE) \in HubStates /\ SetBusy(hub, FALSE).up = hub.up /\ SetBusy(hub, FALSE).steering = hub.steering
    BY <1>2, SetBusyFields
  <2>2. /\ Unconfirmed(hub) \in HubStates /\ Unconfirmed(hub).up = hub.up
        /\ Unconfirmed(hub).steering = hub.steering
    BY <2>1, SetStatusFields DEF Unconfirmed, Statuses
  <2>3. QED BY <1>2, <2>2
<1>4. hub'.up = hub.up /\ hub'.steering = hub.steering
  <2> HIDE DEF r, bu, di
  <2>1. QED BY <1>1, <1>3 DEF HubStates
<1>5. QED BY <1>1, <1>4, ClosedCalls, CallsQuiet

LEMMA CallsContinue ==
  ASSUME CallInv, Types', NEW c \in calls, Confers(c) \/ StaysQueued(c) \/ KeptReturns(c) \/ AttachFails(c)
  PROVE  CallInv'
BY ClosedCalls, CallsQuiet DEF CallInv, Types, Confers, StaysQueued, KeptReturns, AttachFails, HubStates

\* The call of a steer chain is the only one.
LEMMA ChainEnds ==
  ASSUME CallInv, NEW c \in calls, c.kind \in SteerChain
  PROVE  \A d \in calls \ {c} : d.kind \notin SteerChain
BY DEF CallInv, Chains

LEMMA CallsMailTaken ==
  ASSUME CallInv, Types', NEW c \in calls, MailTaken(c)
  PROVE  CallInv'
<1>1. /\ Continue(c) /\ Closes(c) /\ UNCHANGED <<toHub, toWorker, worker, link>>
      /\ hub' = SteerEnds(hub, TRUE, box') /\ c.kind \in SteerChain
  BY DEF MailTaken, SteerChain
<1>2. hub \in HubStates
  BY DEF CallInv, Types
<1>3. hub'.up = hub.up
  BY <1>1, <1>2, SteerEndsFields
<1>4. \A d \in calls' : d.kind \notin SteerChain
  BY <1>1, ClosedCalls, ChainEnds
<1>5. QED BY <1>1, <1>3, <1>4, ClosedCalls, CallsQuiet

LEMMA CallsMailRefused ==
  ASSUME CallInv, Types', NEW c \in calls, MailRefused(c)
  PROVE  CallInv'
<1>1. /\ Continue(c) /\ UNCHANGED <<toHub, worker, link>> /\ c.kind = "mail" /\ c.outcome = "fail"
  BY DEF MailRefused
<1>2. hub \in HubStates
  BY DEF CallInv, Types
<1>3. CASE link
  BY <1>1, <1>2, <1>3, KindFacts, CallsAsks DEF MailRefused, HubStates, Continue
<1>4. CASE ~link
  <2>1. Closes(c) /\ hub' = SteerEnds(hub, FALSE, box) /\ UNCHANGED toWorker
    BY <1>4 DEF MailRefused
  <2>2. hub'.up = hub.up /\ c.kind \in SteerChain
    BY <1>1, <1>2, <2>1, SteerEndsFields DEF SteerChain
  <2>3. \A d \in calls' : d.kind \notin SteerChain
    BY <1>1, <2>1, <2>2, ClosedCalls, ChainEnds
  <2>4. QED BY <1>1, <2>1, <2>2, <2>3, ClosedCalls, CallsQuiet
<1>5. QED BY <1>3, <1>4

LEMMA RecheckedStep ==
  ASSUME Types, NEW c \in calls, Rechecked(c)
  PROVE  LET r == IF c.outcome = "ok" THEN Repaired(hub, c) ELSE hub
             idle == c.outcome = "ok" /\ c.held /\ ~c.on /\ hub.status = "active"
         IN /\ Continue(c) /\ Closes(c) /\ c.kind = "recheck" /\ c \in CallSet
            /\ UNCHANGED <<provider, steers, box, fyi, queue, origin, noticed, toWorker, worker, link, toHub,
                           seen, told, unsure, faults>>
            /\ stored' = IF idle THEN "idle" ELSE stored
            /\ hub'.up = hub.up /\ hub'.status = (IF idle THEN "idle" ELSE hub.status)
            /\ hub'.busy = r.busy /\ hub'.fresh = r.fresh /\ hub'.steering = FALSE
            /\ hub'.dispatching = hub.dispatching
            /\ hub'.opTurn => hub.opTurn
            /\ idle => hub'.opTurn = FALSE
            /\ c.outcome # "ok" => hub'.opTurn = hub.opTurn
<1> DEFINE r == IF c.outcome = "ok" THEN Repaired(hub, c) ELSE hub
           idle == c.outcome = "ok" /\ c.held /\ ~c.on /\ r.status = "active"
           s == IF idle THEN SetStatus(r, "idle") ELSE r
<1>1. /\ hub' = SteerEnds(s, FALSE, box) /\ Closes(c) /\ Continue(c) /\ c.kind = "recheck"
      /\ stored' = IF idle THEN "idle" ELSE stored
      /\ UNCHANGED <<provider, steers, box, fyi, queue, origin, noticed, toWorker, worker, link, toHub,
                     seen, told, unsure, faults>>
  BY DEF Rechecked, ghosts
<1>2. hub \in HubStates /\ c \in CallSet
  BY DEF Types
<1>3. /\ r \in HubStates /\ r.up = hub.up /\ r.status = hub.status /\ r.opTurn = hub.opTurn
      /\ r.dispatching = hub.dispatching
  BY <1>2, RepairedFields
<1>4. idle <=> (c.outcome = "ok" /\ c.held /\ ~c.on /\ hub.status = "active")
  BY <1>3
<1>5. idle => SetStatus(r, "idle") \in HubStates /\ SetStatus(r, "idle").status = "idle"
              /\ SetStatus(r, "idle").up = r.up /\ SetStatus(r, "idle").busy = r.busy
              /\ SetStatus(r, "idle").fresh = r.fresh /\ SetStatus(r, "idle").opTurn = FALSE
              /\ SetStatus(r, "idle").dispatching = r.dispatching
  <2> HIDE DEF r
  <2>1. QED BY <1>3, SetStatusFields DEF Statuses
<1>6. /\ s \in HubStates /\ s.up = hub.up /\ s.status = (IF idle THEN "idle" ELSE hub.status)
      /\ s.busy = r.busy /\ s.fresh = r.fresh /\ (s.opTurn => hub.opTurn) /\ s.dispatching = hub.dispatching
      /\ idle => s.opTurn = FALSE
      /\ ~idle => s.opTurn = hub.opTurn
  <2> HIDE DEF r, idle
  <2>1. QED BY <1>3, <1>5
<1>7. /\ hub'.up = s.up /\ hub'.status = s.status /\ hub'.opTurn = s.opTurn /\ hub'.busy = s.busy
      /\ hub'.fresh = s.fresh /\ hub'.steering = FALSE /\ hub'.dispatching = s.dispatching
  <2> HIDE DEF s
  <2>1. QED BY <1>1, <1>6, SteerEndsFields
<1> HIDE DEF s
<1>8. QED BY <1>1, <1>2, <1>4, <1>6, <1>7

LEMMA AttachFirstStep ==
  ASSUME Types, Down, NEW c \in calls, AttachFirst(c)
  PROVE  LET r == Repaired(hub, c)
         IN /\ Continue(c) /\ c.kind = "first" /\ c.outcome = "ok" /\ c \in CallSet /\ link
            /\ UNCHANGED <<provider, steers, box, fyi, queue, origin, noticed, worker, link, toHub,
                           seen, told, unsure, faults>>
            /\ hub'.up = hub.up /\ hub'.busy = r.busy /\ hub'.steering = hub.steering
            /\ hub'.dispatching = hub.dispatching
            /\ "recheck" \in hub'.fresh => "recheck" \in hub.fresh
            /\ \/ ~c.held /\ Asks(c, "second") /\ hub'.status = hub.status /\ hub'.opTurn = hub.opTurn
                  /\ stored' = stored
               \/ c.held /\ c.on /\ Asks(c, "attach") /\ hub'.status = "active" /\ stored' = stored
                  /\ hub'.opTurn = (hub.opTurn \/ origin = "operator")
               \/ c.held /\ ~c.on /\ Asks(c, "attach") /\ hub'.status = "idle" /\ stored' = "idle"
                  /\ hub'.opTurn = FALSE
<1> DEFINE r == Repaired(hub, c)
           o == r.opTurn \/ origin = "operator"
           b == r.busTurn \/ origin = "bus"
<1>1. /\ Continue(c) /\ c.kind = "first" /\ c.outcome = "ok"
      /\ UNCHANGED <<provider, steers, box, fyi, queue, origin, noticed, worker, link, toHub, seen, told, unsure, faults>>
  BY DEF AttachFirst, ghosts
<1>2. hub \in HubStates /\ c \in CallSet /\ link
  BY <1>1 DEF Types, Down
<1>3. /\ r \in HubStates /\ r.up = hub.up /\ r.status = hub.status /\ r.opTurn = hub.opTurn
      /\ r.steering = hub.steering /\ r.dispatching = hub.dispatching /\ (r.fresh = hub.fresh \/ r.fresh = {})
  BY <1>2, RepairedFields
<1>4. o \in BOOLEAN /\ b \in BOOLEAN /\ o = (hub.opTurn \/ origin = "operator")
  <2> HIDE DEF r
  <2>1. QED BY <1>3, HubFields
<1>5. \/ /\ ~c.held
         /\ hub' = [r EXCEPT !.fresh = r.fresh \cup {"second"}] /\ Asks(c, "second") /\ UNCHANGED stored
      \/ /\ c.held /\ c.on /\ Asks(c, "attach") /\ hub' = [r EXCEPT !.status = "active", !.opTurn = o, !.busTurn = b]
         /\ UNCHANGED stored
      \/ c.held /\ ~c.on /\ Asks(c, "attach") /\ hub' = SetStatus(r, "idle") /\ stored' = "idle"
  BY DEF AttachFirst
<1> HIDE DEF r, o, b
<1>6. CASE ~c.held
  BY <1>1, <1>2, <1>3, <1>5, <1>6 DEF HubStates, r
<1>7. CASE c.held /\ c.on
  <2>1. Asks(c, "attach") /\ hub' = [r EXCEPT !.status = "active", !.opTurn = o, !.busTurn = b] /\ UNCHANGED stored
    BY <1>5, <1>7
  <2>2. /\ hub'.up = r.up /\ hub'.busy = r.busy /\ hub'.steering = r.steering /\ hub'.status = "active"
        /\ hub'.opTurn = o /\ hub'.dispatching = r.dispatching /\ hub'.fresh = r.fresh
    BY <1>3, <1>4, <2>1 DEF HubStates
  <2>3. QED BY <1>1, <1>2, <1>3, <1>4, <1>7, <2>1, <2>2 DEF r
<1>8. CASE c.held /\ ~c.on
  <2>1. Asks(c, "attach") /\ hub' = SetStatus(r, "idle") /\ stored' = "idle"
    BY <1>5, <1>8
  <2>2. /\ hub'.up = r.up /\ hub'.busy = r.busy /\ hub'.steering = r.steering /\ hub'.status = "idle"
        /\ hub'.opTurn = FALSE /\ hub'.dispatching = r.dispatching /\ hub'.fresh = r.fresh
    BY <1>3, <2>1, SetStatusFields DEF Statuses
  <2>3. QED BY <1>1, <1>2, <1>3, <1>8, <2>1, <2>2 DEF r
<1>9. QED BY <1>6, <1>7, <1>8

LEMMA AttachSecondStep ==
  ASSUME Types, Down, NEW c \in calls, AttachSecond(c)
  PROVE  LET r == Repaired(hub, c)
             stale == ~c.held /\ hub.status = "active"
         IN /\ Continue(c) /\ Closes(c) /\ c.kind = "second" /\ c.outcome = "ok" /\ c \in CallSet /\ link
            /\ UNCHANGED <<provider, steers, box, fyi, queue, origin, noticed, toWorker, worker, link, toHub,
                           seen, told, unsure, faults>>
            /\ stored' = IF stale THEN "idle" ELSE stored
            /\ hub'.up = hub.up /\ hub'.status = (IF stale THEN "idle" ELSE hub.status)
            /\ hub'.busy = r.busy /\ hub'.fresh = r.fresh /\ hub'.steering = hub.steering
            /\ hub'.dispatching = hub.dispatching
            /\ hub'.opTurn => hub.opTurn
<1> DEFINE r == Repaired(hub, c)
           stale == ~c.held /\ r.status = "active"
           s == IF stale THEN SetStatus(r, "idle") ELSE r
           rearm == c.held /\ ~c.on /\ s.status = "idle"
           n == s.notice /\ ~rearm
           d == s.due \/ rearm \/ (s.status = "idle" /\ queue # {})
<1>1. /\ Continue(c) /\ Closes(c) /\ c.kind = "second" /\ c.outcome = "ok"
      /\ hub' = [s EXCEPT !.notice = n, !.due = d]
      /\ stored' = IF stale THEN "idle" ELSE stored
      /\ UNCHANGED <<provider, steers, box, fyi, queue, origin, noticed, toWorker, worker, link, toHub,
                     seen, told, unsure, faults>>
  BY DEF AttachSecond, ghosts
<1>2. hub \in HubStates /\ c \in CallSet /\ link
  BY <1>1 DEF Types, Down
<1>3. /\ r \in HubStates /\ r.up = hub.up /\ r.status = hub.status /\ r.opTurn = hub.opTurn
      /\ r.dispatching = hub.dispatching /\ r.steering = hub.steering
  BY <1>2, RepairedFields
<1>4. stale <=> (~c.held /\ hub.status = "active")
  BY <1>3
<1>5. stale => SetStatus(r, "idle") \in HubStates /\ SetStatus(r, "idle").status = "idle"
               /\ SetStatus(r, "idle").up = r.up /\ SetStatus(r, "idle").busy = r.busy
               /\ SetStatus(r, "idle").fresh = r.fresh /\ SetStatus(r, "idle").opTurn = FALSE
               /\ SetStatus(r, "idle").dispatching = r.dispatching /\ SetStatus(r, "idle").steering = r.steering
  <2> HIDE DEF r
  <2>1. QED BY <1>3, SetStatusFields DEF Statuses
<1>6. /\ s \in HubStates /\ s.up = hub.up /\ s.status = (IF stale THEN "idle" ELSE hub.status)
      /\ s.busy = r.busy /\ s.fresh = r.fresh /\ (s.opTurn => hub.opTurn) /\ s.dispatching = hub.dispatching
      /\ s.steering = hub.steering
  <2> HIDE DEF r, stale
  <2>1. QED BY <1>3, <1>5
<1>7. n \in BOOLEAN /\ d \in BOOLEAN
  <2> HIDE DEF s
  <2>1. QED BY <1>6, HubFields
<1>8. /\ hub'.up = s.up /\ hub'.status = s.status /\ hub'.opTurn = s.opTurn /\ hub'.busy = s.busy
      /\ hub'.fresh = s.fresh /\ hub'.steering = s.steering /\ hub'.dispatching = s.dispatching
  <2> HIDE DEF s, n, d
  <2>1. QED BY <1>1, <1>6, <1>7 DEF HubStates
<1> HIDE DEF s, n, d, rearm
<1>9. QED BY <1>1, <1>2, <1>4, <1>6, <1>8

LEMMA CallsRechecked ==
  ASSUME CallInv, Types', NEW c \in calls, Rechecked(c)
  PROVE  CallInv'
BY RecheckedStep, ClosedCalls, ChainEnds, CallsQuiet DEF CallInv, SteerChain

LEMMA CallsAttachFirst ==
  ASSUME CallInv, Types', NEW c \in calls, AttachFirst(c)
  PROVE  CallInv'
BY AttachFirstStep, KindFacts, CallsAsks DEF CallInv, Continue

LEMMA CallsAttachReplayed ==
  ASSUME CallInv, Types', NEW c \in calls, AttachReplayed(c)
  PROVE  CallInv'
BY KindFacts, CallsAsks DEF AttachReplayed, CallInv, Down, Types, HubStates, Continue

LEMMA CallsAttachSecond ==
  ASSUME CallInv, Types', NEW c \in calls, AttachSecond(c)
  PROVE  CallInv'
BY AttachSecondStep, ClosedCalls, CallsQuiet DEF CallInv

\* Requests survive a step after which every asked frame was asked at its place before, for the same call.
LEMMA RequestsFewer ==
  ASSUME Requests, Types, Types', NEW a \in Nat, NEW b \in Nat,
         \A q \in DOMAIN toWorker' : Asked(toWorker'[q]) =>
           /\ q + a \in DOMAIN toWorker /\ Asked(toWorker[q + a]) /\ toWorker[q + a].call = toWorker'[q].call
           /\ toWorker'[q].call \in calls',
         \A j \in DOMAIN toHub' : Asked(toHub'[j]) =>
           /\ j + b \in DOMAIN toHub /\ Asked(toHub[j + b]) /\ toHub[j + b].call = toHub'[j].call
           /\ toHub'[j].call \in calls'
  PROVE  Requests'
<1>1. DOMAIN toWorker' \subseteq Nat /\ DOMAIN toHub' \subseteq Nat
  BY DEF Types
<1>2. ASSUME NEW p \in DOMAIN toWorker', NEW q \in DOMAIN toWorker',
             Asked(toWorker'[p]), Asked(toWorker'[q]), toWorker'[p].call = toWorker'[q].call
      PROVE  p = q
  BY <1>1, <1>2 DEF Requests
<1>3. ASSUME NEW p \in DOMAIN toHub', NEW q \in DOMAIN toHub',
             Asked(toHub'[p]), Asked(toHub'[q]), toHub'[p].call = toHub'[q].call
      PROVE  p = q
  BY <1>1, <1>3 DEF Requests
<1>4. ASSUME NEW q \in DOMAIN toWorker', NEW j \in DOMAIN toHub',
             Asked(toWorker'[q]), Asked(toHub'[j]), toWorker'[q].call = toHub'[j].call
      PROVE  FALSE
  BY <1>4 DEF Requests
<1>5. QED BY <1>2, <1>3, <1>4 DEF Requests

\* The hub reads a frame: what follows it moves up by one.
LEMMA ReadShift ==
  ASSUME Types, NEW k, Reads(k)
  PROVE  /\ \A j \in DOMAIN toHub' : /\ j \in Nat \ {0} /\ j + 1 \in DOMAIN toHub /\ toHub[j + 1] = toHub'[j]
                                     /\ j + 1 # 1
         /\ 1 \in DOMAIN toHub /\ Head(toHub) = toHub[1] /\ toHub[1] \in HubFrames /\ toHub[1].t = k
         /\ hub.up /\ link
BY ReadsElements

LEMMA HandlesShift ==
  ASSUME Types, Down, NEW ks, Handles(ks)
  PROVE  /\ \A q \in DOMAIN toWorker' : /\ q \in Nat \ {0} /\ q + 1 \in DOMAIN toWorker
                                        /\ toWorker[q + 1] = toWorker'[q] /\ q + 1 # 1
         /\ 1 \in DOMAIN toWorker /\ toWorker[1].t = "do" /\ toWorker[1].call \in CallSet
         /\ toWorker[1].call.kind \in ks /\ link
BY HandlesElements DEF Handles, Down, Types

\* What is sent on an open socket comes last.
LEMMA SentFrames ==
  ASSUME Types, NEW ms \in Seq(HubFrames), SendHub(ms)
  PROVE  /\ \A j \in DOMAIN toHub' :
              \/ j \in DOMAIN toHub /\ toHub'[j] = toHub[j]
              \/ link /\ \E i \in 1 .. Len(ms) : j = Len(toHub) + i /\ toHub'[j] = ms[i]
         /\ ~link => toHub' = toHub
         /\ DOMAIN toHub \subseteq DOMAIN toHub'
         /\ \A j \in DOMAIN toHub : toHub'[j] = toHub[j]
<1>1. /\ ~link => toHub' = toHub
      /\ link => /\ DOMAIN toHub' = 1 .. Len(toHub) + Len(ms)
                 /\ \A i \in 1 .. Len(toHub) : toHub'[i] = toHub[i]
                 /\ \A i \in 1 .. Len(ms) : toHub'[Len(toHub) + i] = ms[i]
      /\ DOMAIN toHub = 1 .. Len(toHub) /\ Len(toHub) \in Nat /\ Len(ms) \in Nat
  BY SendHubElements
<1>2. CASE ~link
  BY <1>1, <1>2
<1>3. CASE link
  <2>1. ASSUME NEW j \in DOMAIN toHub', j \notin DOMAIN toHub
        PROVE  \E i \in 1 .. Len(ms) : j = Len(toHub) + i /\ toHub'[j] = ms[i]
    <3>1. j - Len(toHub) \in 1 .. Len(ms) /\ j = Len(toHub) + (j - Len(toHub))
      BY <1>1, <1>3, <2>1
    <3>2. toHub'[Len(toHub) + (j - Len(toHub))] = ms[j - Len(toHub)]
      BY <1>1, <1>3, <3>1
    <3>3. QED BY <3>1, <3>2
  <2>2. QED BY <1>1, <1>3, <2>1
<1>4. QED BY <1>2, <1>3

LEMMA CallsHubMark ==
  ASSUME CallInv, Types', HubMark
  PROVE  CallInv'
<1>1. Types /\ FramesFit /\ Down /\ Chains /\ Requests /\ StrayAttach
  BY DEF CallInv
<1>2. /\ Reads("mark") /\ hub'.up = hub.up /\ hub'.steering = hub.steering
      /\ UNCHANGED <<calls, toWorker, worker, link>>
  BY <1>1, HubMarkStep
<1>3. /\ \A j \in DOMAIN toHub' : /\ j \in Nat \ {0} /\ j + 1 \in DOMAIN toHub /\ toHub[j + 1] = toHub'[j]
      /\ hub.up /\ link
  BY <1>1, <1>2, ReadShift
<1>4. FramesFit'
  BY <1>1, <1>2, <1>3, FitsKept
<1>5. Down'
  BY <1>2, <1>3 DEF Down
<1>6. AttachRuns' => AttachRuns
  BY <1>2, <1>3 DEF AttachRuns
<1>7. Chains'
  BY <1>1, <1>2, <1>6, ChainsKept
<1>8. Requests'
  <2>1. 0 \in Nat /\ 1 \in Nat /\ DOMAIN toWorker' \subseteq Nat
    BY DEF Types
  <2>2. \A q \in DOMAIN toWorker' : q + 0 \in DOMAIN toWorker /\ toWorker[q + 0] = toWorker'[q]
    BY <1>2, <2>1
  <2>3. QED BY <1>1, <1>2, <1>3, <2>1, <2>2, RequestsKept
<1>9. StrayAttach'
  BY <1>1, <1>2, StrayKept
<1>10. QED BY <1>4, <1>5, <1>7, <1>8, <1>9 DEF CallInv

\* A reply settles the call it answers, once.
LEMMA ReplyStep ==
  ASSUME Types, FramesFit, HubReply
  PROVE  LET m == toHub[1]
             c == m.call
         IN /\ \E k \in {"ack", "live"} : Reads(k) /\ m.t = k
            /\ c \in CallSet
            /\ \/ c \notin calls \ Settled /\ calls' = calls
               \/ /\ c \in calls /\ c.outcome = "sent"
                  /\ \E d \in CallSet :
                       /\ calls' = (calls \ {c}) \cup {d}
                       /\ d.kind = c.kind /\ d.inputs = c.inputs /\ d.mails = c.mails /\ d.outcome # "sent"
                       /\ m.t = "live" => d.outcome = "ok" /\ d.held = m.held /\ d.on = m.on
                       /\ m.t = "ack" => d = Answered(c, IF m.ok THEN "ok" ELSE "fail")
                                         /\ d.outcome = IF m.ok THEN "ok" ELSE "fail"
            /\ UNCHANGED <<provider, steers, box, fyi, queue, stored, origin, noticed, hub, toWorker, worker, link,
                           seen, told, unsure, faults>>
<1> DEFINE m == toHub[1]
           c == m.call
           answer == IF m.t = "live" THEN [c EXCEPT !.outcome = "ok", !.held = m.held, !.on = m.on]
                     ELSE Answered(c, IF m.ok THEN "ok" ELSE "fail")
<1>0. PICK k \in {"ack", "live"} : Reads(k)
  BY DEF HubReply
<1>1. Head(toHub) = m /\ m.t = k /\ m \in HubFrames
  BY <1>0, ReadsElements
<1>2. /\ calls' = IF c \in calls \ Settled THEN (calls \ {c}) \cup {answer} ELSE calls
      /\ UNCHANGED <<provider, steers, box, fyi, queue, stored, origin, noticed, hub, toWorker, worker, link,
                     seen, told, unsure, faults>>
  BY <1>1 DEF HubReply, durable, ghosts
<1>3. c \in CallSet /\ (m.t = "live" => m.held \in BOOLEAN /\ m.on \in BOOLEAN) /\ (m.t = "ack" => m.ok \in BOOLEAN)
  BY <1>1, HubFrame
<1>4. /\ answer \in CallSet /\ answer.kind = c.kind /\ answer.inputs = c.inputs /\ answer.mails = c.mails
      /\ answer.outcome # "sent"
      /\ m.t = "live" => answer.outcome = "ok" /\ answer.held = m.held /\ answer.on = m.on
      /\ m.t = "ack" => answer = Answered(c, IF m.ok THEN "ok" ELSE "fail")
                        /\ answer.outcome = IF m.ok THEN "ok" ELSE "fail"
  <2>1. CASE m.t = "live"
    <3>1. m.t # "ack"
      BY <2>1
    <3>2. answer = [c EXCEPT !.outcome = "ok", !.held = m.held, !.on = m.on]
      BY <2>1
    <3> HIDE DEF m, c, answer
    <3>3. QED BY <1>3, <2>1, <3>1, <3>2 DEF CallSet
  <2>2. CASE m.t # "live"
    <3>1. answer = Answered(c, IF m.ok THEN "ok" ELSE "fail")
      BY <2>2
    <3> HIDE DEF m, c, answer
    <3>2. QED BY <1>3, <2>2, <3>1, CallTyped, AnsweredFields
  <2>3. QED BY <2>1, <2>2
<1> HIDE DEF answer
<1>5. CASE c \in calls \ Settled
  BY <1>0, <1>1, <1>2, <1>3, <1>4, <1>5 DEF Settled
<1>6. CASE c \notin calls \ Settled
  BY <1>0, <1>1, <1>2, <1>3, <1>6
<1>7. QED BY <1>5, <1>6

LEMMA CallsHubReply ==
  ASSUME CallInv, Types', HubReply
  PROVE  CallInv'
<1>1. Types /\ FramesFit /\ Down /\ Chains /\ Requests /\ StrayAttach
  BY DEF CallInv
<1> DEFINE m == toHub[1]
           c == m.call
<1>2. /\ \E k \in {"ack", "live"} : Reads(k) /\ m.t = k
      /\ c \in CallSet
      /\ \/ c \notin calls \ Settled /\ calls' = calls
         \/ /\ c \in calls /\ c.outcome = "sent"
            /\ \E d \in CallSet : calls' = (calls \ {c}) \cup {d} /\ d.kind = c.kind /\ d.outcome # "sent"
      /\ UNCHANGED <<hub, toWorker, worker, link>>
  BY <1>1, ReplyStep
<1>3. /\ \A j \in DOMAIN toHub' : /\ j \in Nat \ {0} /\ j + 1 \in DOMAIN toHub /\ toHub[j + 1] = toHub'[j] /\ j + 1 # 1
      /\ 1 \in DOMAIN toHub /\ hub.up /\ link
  BY <1>1, <1>2, ReadShift
<1>4. FramesFit'
  BY <1>1, <1>2, <1>3, FitsKept
<1>5. Down'
  BY <1>2, <1>3 DEF Down
<1>6. 0 \in Nat /\ 1 \in Nat /\ DOMAIN toWorker' \subseteq Nat
  BY DEF Types
<1>7. \A q \in DOMAIN toWorker' : q + 0 \in DOMAIN toWorker /\ toWorker[q + 0] = toWorker'[q]
  BY <1>2, <1>6
<1>8. CASE calls' = calls
  <2>1. AttachRuns' => AttachRuns
    BY <1>2, <1>3, <1>8 DEF AttachRuns
  <2>2. Chains'
    BY <1>1, <1>2, <1>8, <2>1, ChainsKept
  <2>3. Requests'
    BY <1>1, <1>3, <1>6, <1>7, <1>8, RequestsKept
  <2>4. StrayAttach'
    BY <1>1, <1>2, <1>8, StrayKept
  <2>5. QED BY <1>4, <1>5, <2>2, <2>3, <2>4 DEF CallInv
<1>9. ASSUME c \in calls, c.outcome = "sent",
             NEW d \in CallSet, calls' = (calls \ {c}) \cup {d}, d.kind = c.kind, d.outcome # "sent"
      PROVE  CallInv'
  <2> HIDE DEF c
  <2>1. AttachRuns' => AttachRuns
    BY <1>2, <1>3, <1>9 DEF AttachRuns
  <2>2. Chains'
    BY <1>1, <1>2, <1>9, <2>1 DEF Chains
  <2>3. \A f : Asked(f) /\ f.call = c => Asked(m)
    BY <1>2, <1>9 DEF Asked, c
  <2>4. \A q \in DOMAIN toWorker : Asked(toWorker[q]) => toWorker[q].call # c /\ toWorker[q].call \in calls'
    BY <1>1, <1>3, <1>9, <2>3 DEF Requests, c
  <2>5. \A j \in DOMAIN toHub : j # 1 /\ Asked(toHub[j]) => toHub[j].call # c /\ toHub[j].call \in calls'
    BY <1>1, <1>3, <1>9, <2>3 DEF Requests, c
  <2>6. Requests'
    BY <1>1, <1>3, <1>6, <1>7, <2>4, <2>5, RequestsFewer
  <2>7. StrayAttach'
    BY <1>1, <1>2, <1>9 DEF StrayAttach
  <2>8. QED BY <1>4, <1>5, <2>2, <2>6, <2>7 DEF CallInv
<1>10. QED BY <1>2, <1>8, <1>9

\* Steps of the worker that send frames which answer no list and no attach.
LEMMA CallsSends ==
  ASSUME CallInv, Types', NEW a \in Nat, UNCHANGED <<hub, calls, link>>,
         \A q \in DOMAIN toWorker' : q + a \in DOMAIN toWorker /\ toWorker[q + a] = toWorker'[q],
         NEW ms \in Seq(HubFrames), SendHub(ms),
         \A i \in 1 .. Len(ms) : HubFrameFits(ms[i]) /\ ~Asked(ms[i]) /\ ~(IsMark(ms[i]) /\ ms[i].replay),
         \A s \in worker'.steers : SteerFits(s) \/ s \in worker.steers,
         \A c \in worker'.owed : (c.kind \in TurnKinds /\ c.outcome # "ok") \/ c \in worker.owed
  PROVE  CallInv'
<1>1. Types /\ Down
  BY DEF CallInv
<1>2. /\ \A j \in DOMAIN toHub' :
           \/ j \in DOMAIN toHub /\ toHub'[j] = toHub[j]
           \/ link /\ \E i \in 1 .. Len(ms) : j = Len(toHub) + i /\ toHub'[j] = ms[i]
      /\ ~link => toHub' = toHub
  BY <1>1, SentFrames
<1>3. \A j \in DOMAIN toHub' :
        \/ j \in DOMAIN toHub /\ toHub[j] = toHub'[j]
        \/ HubFrameFits(toHub'[j]) /\ ~Asked(toHub'[j]) /\ ~(IsMark(toHub'[j]) /\ toHub'[j].replay)
  BY <1>2
<1>4. ~link => toHub' = << >> /\ toWorker' = << >>
  <2>1. ASSUME ~link PROVE toHub' = << >> /\ toWorker' = << >>
    <3>1. toHub' = << >> /\ DOMAIN toWorker = {}
      BY <1>1, <1>2, <2>1, EmptyChannels DEF Down
    <3>2. DOMAIN toWorker' = {} /\ toWorker' \in Seq(WorkerFrames)
      BY <3>1 DEF Types
    <3>3. toWorker' = << >>
      BY <3>2, EmptySeq
    <3>4. QED BY <3>1, <3>3
  <2>2. QED BY <2>1
<1>5. QED BY <1>3, <1>4, CallsWorker

\* Turn markers and the acknowledgements of turns and steers fit.
LEMMA SentFit ==
  ASSUME NEW k, NEW is, NEW c \in CallSet, c.outcome # "ok"
  PROVE  /\ HubFrameFits(Mark(k, is)) /\ ~Asked(Mark(k, is)) /\ ~(IsMark(Mark(k, is)) /\ Mark(k, is).replay)
         /\ c.kind \in TurnKinds =>
              HubFrameFits(Ack(c, TRUE)) /\ ~Asked(Ack(c, TRUE)) /\ ~IsMark(Ack(c, TRUE))
         /\ c.kind \in SteerKinds => \A b \in BOOLEAN :
              HubFrameFits(Ack(c, b)) /\ ~Asked(Ack(c, b)) /\ ~IsMark(Ack(c, b))
<1>1. /\ \A l, js : Mark(l, js).t = "mark" /\ Mark(l, js).replay = FALSE
      /\ \A b : Ack(c, b).t = "ack" /\ Ack(c, b).call = c /\ Ack(c, b).ok = b
  BY FrameFields
<1>2. c.kind \in TurnKinds => c.kind \notin ListKinds /\ c.kind # "attach"
  BY KindFacts
<1>3. c.kind \in SteerKinds => c.kind \notin ListKinds /\ c.kind # "attach" /\ c.kind \notin TurnKinds
  BY DEF SteerKinds, ListKinds, TurnKinds
<1>4. HubFrameFits(Mark(k, is)) /\ ~Asked(Mark(k, is)) /\ ~(IsMark(Mark(k, is)) /\ Mark(k, is).replay)
  BY <1>1 DEF HubFrameFits, Asked, IsMark
<1>5. ASSUME c.kind \in TurnKinds
      PROVE  HubFrameFits(Ack(c, TRUE)) /\ ~Asked(Ack(c, TRUE)) /\ ~IsMark(Ack(c, TRUE))
  BY <1>1, <1>2, <1>5 DEF HubFrameFits, Asked, IsMark
<1>6. ASSUME c.kind \in SteerKinds, NEW b \in BOOLEAN
      PROVE  HubFrameFits(Ack(c, b)) /\ ~Asked(Ack(c, b)) /\ ~IsMark(Ack(c, b))
  BY <1>1, <1>3, <1>6 DEF HubFrameFits, Asked, IsMark
<1>7. QED BY <1>4, <1>5, <1>6

\* The command at the head of the socket fits.
LEMMA HeadFits ==
  ASSUME CallInv, NEW ks, Handles(ks)
  PROVE  toWorker[1].call.outcome # "ok"
BY HandlesElements DEF CallInv, FramesFit, CommandFits

LEMMA CallsWorkerStart ==
  ASSUME CallInv, Types', WorkerStart
  PROVE  CallInv'
<1> DEFINE c == toWorker[1].call
<1>1. Types /\ Down
  BY DEF CallInv
<1>2. /\ Handles(TurnKinds) /\ c \in CallSet /\ SendHub(StartFrames(c)) /\ UNCHANGED <<hub, calls, link>>
      /\ worker'.owed \subseteq worker.owed \cup {c} /\ worker'.steers = worker.steers
  BY <1>1, WorkerStartStep
<1>3. c.outcome # "ok" /\ c.kind \in TurnKinds
  BY <1>1, <1>2, HeadFits, HandlesShift
<1>4. \A q \in DOMAIN toWorker' : q + 1 \in DOMAIN toWorker /\ toWorker[q + 1] = toWorker'[q]
  BY <1>1, <1>2, HandlesShift
<1> HIDE DEF c
<1>5. /\ StartFrames(c) \in Seq(HubFrames)
      /\ \A i \in 1 .. Len(StartFrames(c)) : StartFrames(c)[i] \in {Mark("started", {}), Ack(c, TRUE)}
  <2>1. /\ StartFrames(c) \in Seq(HubFrames)
        /\ Len(StartFrames(c)) \in 1 .. 2 /\ StartFrames(c)[1] = Mark("started", {})
        /\ Len(StartFrames(c)) = 2 => StartFrames(c)[2] = Ack(c, TRUE)
    BY <1>1, <1>2, StartFramesTyped
  <2>2. \A i \in 1 .. Len(StartFrames(c)) : i = 1 \/ (i = 2 /\ Len(StartFrames(c)) = 2)
    <3> DEFINE n == Len(StartFrames(c))
    <3>1. n \in 1 .. 2
      BY <2>1
    <3> HIDE DEF n
    <3>2. n = 1 \/ n = 2
      BY <3>1
    <3>3. \A i \in 1 .. n : i = 1 \/ (i = 2 /\ n = 2)
      BY <3>2
    <3>4. QED BY <3>3 DEF n
  <2>3. QED BY <2>1, <2>2
<1>6. \A i \in 1 .. Len(StartFrames(c)) :
        /\ HubFrameFits(StartFrames(c)[i]) /\ ~Asked(StartFrames(c)[i])
        /\ ~(IsMark(StartFrames(c)[i]) /\ StartFrames(c)[i].replay)
  BY <1>2, <1>3, <1>5, SentFit
<1>7. 1 \in Nat /\ \A d \in worker'.owed : (d.kind \in TurnKinds /\ d.outcome # "ok") \/ d \in worker.owed
  BY <1>2, <1>3
<1>8. QED BY <1>2, <1>4, <1>5, <1>6, <1>7, CallsSends

LEMMA CallsWorkerRefuse ==
  ASSUME CallInv, Types', WorkerRefuse
  PROVE  CallInv'
<1> DEFINE c == toWorker[1].call
<1>1. Types /\ Down
  BY DEF CallInv
<1>2. /\ Handles(TurnKinds) /\ c \in CallSet /\ SendHub(RefuseFrames(c)) /\ UNCHANGED <<hub, calls, link>>
      /\ worker'.owed = worker.owed /\ worker'.steers = worker.steers
  BY <1>1, WorkerRefuseStep
<1>3. c.outcome # "ok" /\ c.kind \in TurnKinds
  BY <1>1, <1>2, HeadFits, HandlesShift
<1>4. \A q \in DOMAIN toWorker' : q + 1 \in DOMAIN toWorker /\ toWorker[q + 1] = toWorker'[q]
  BY <1>1, <1>2, HandlesShift
<1> HIDE DEF c
<1>5. /\ RefuseFrames(c) \in Seq(HubFrames)
      /\ \A i \in 1 .. Len(RefuseFrames(c)) :
           RefuseFrames(c)[i] \in {Mark("started", {}), Mark("errored", c.inputs), Ack(c, TRUE)}
  <2>1. /\ RefuseFrames(c) \in Seq(HubFrames)
        /\ Len(RefuseFrames(c)) = 3 /\ RefuseFrames(c)[1] = Mark("started", {})
        /\ \/ RefuseFrames(c)[2] = Mark("errored", c.inputs) /\ RefuseFrames(c)[3] = Ack(c, TRUE)
           \/ RefuseFrames(c)[3] = Mark("errored", c.inputs) /\ RefuseFrames(c)[2] = Ack(c, TRUE)
    BY <1>1, <1>2, StartFramesTyped
  <2>2. \A i \in 1 .. Len(RefuseFrames(c)) : i = 1 \/ i = 2 \/ i = 3
    BY <2>1
  <2>3. QED BY <2>1, <2>2
<1>6. \A i \in 1 .. Len(RefuseFrames(c)) :
        /\ HubFrameFits(RefuseFrames(c)[i]) /\ ~Asked(RefuseFrames(c)[i])
        /\ ~(IsMark(RefuseFrames(c)[i]) /\ RefuseFrames(c)[i].replay)
  BY <1>2, <1>3, <1>5, SentFit
<1>7. 1 \in Nat
  OBVIOUS
<1>8. QED BY <1>2, <1>4, <1>5, <1>6, <1>7, CallsSends

LEMMA AckStartStep ==
  ASSUME Types, WorkerAckStart
  PROVE  \E c \in worker.owed :
           /\ c \in CallSet
           /\ worker' \in WorkerStates /\ worker'.owed = worker.owed \ {c} /\ worker'.steers = worker.steers
           /\ worker'.held = worker.held /\ worker'.on = worker.on /\ worker'.n = worker.n
           /\ worker'.op = worker.op /\ worker'.active = worker.active /\ worker'.marks = worker.marks
           /\ SendHub(<<Ack(c, TRUE)>>)
           /\ UNCHANGED <<provider, steers, box, fyi, queue, stored, origin, noticed, hub, calls, link, toWorker,
                          seen, told, unsure, faults>>
BY TypesConsequences DEF WorkerAckStart, WorkerStates, durable, ghosts

\* A step that sends one acknowledgement and leaves the commands.
LEMMA CallsAcks ==
  ASSUME CallInv, Types', NEW a \in Nat, UNCHANGED <<hub, calls, link>>,
         \A q \in DOMAIN toWorker' : q + a \in DOMAIN toWorker /\ toWorker[q + a] = toWorker'[q],
         NEW c \in CallSet, c.outcome # "ok", NEW b \in BOOLEAN, SendHub(<<Ack(c, b)>>),
         c.kind \in SteerKinds \/ (c.kind \in TurnKinds /\ b),
         worker'.steers \subseteq worker.steers, worker'.owed \subseteq worker.owed
  PROVE  CallInv'
<1>1. <<Ack(c, b)>> \in Seq(HubFrames) /\ Len(<<Ack(c, b)>>) = 1 /\ <<Ack(c, b)>>[1] = Ack(c, b)
  BY AckTyped
<1>2. HubFrameFits(Ack(c, b)) /\ ~Asked(Ack(c, b)) /\ ~IsMark(Ack(c, b))
  <2>1. CASE c.kind \in SteerKinds
    BY <2>1, SentFit
  <2>2. CASE c.kind \in TurnKinds /\ b
    BY <2>2, SentFit
  <2>3. QED BY <2>1, <2>2
<1> DEFINE ms == <<Ack(c, b)>>
<1>3. \A i \in 1 .. Len(ms) : HubFrameFits(ms[i]) /\ ~Asked(ms[i]) /\ ~(IsMark(ms[i]) /\ ms[i].replay)
  BY <1>1, <1>2
<1>4. ms \in Seq(HubFrames) /\ SendHub(ms)
  BY <1>1
<1> HIDE DEF ms
<1>5. QED BY <1>3, <1>4, CallsSends

LEMMA UnshiftedCommands ==
  ASSUME Types, UNCHANGED toWorker
  PROVE  0 \in Nat /\ \A q \in DOMAIN toWorker' : q + 0 \in DOMAIN toWorker /\ toWorker[q + 0] = toWorker'[q]
BY DEF Types

LEMMA CallsWorkerAckStart ==
  ASSUME CallInv, Types', WorkerAckStart
  PROVE  CallInv'
<1>1. Types /\ FramesFit
  BY DEF CallInv
<1>2. PICK c \in worker.owed :
        /\ c \in CallSet /\ worker'.owed = worker.owed \ {c} /\ worker'.steers = worker.steers
        /\ SendHub(<<Ack(c, TRUE)>>) /\ UNCHANGED <<hub, calls, link, toWorker>>
  BY <1>1, AckStartStep
<1>3. c.kind \in TurnKinds /\ c.outcome # "ok"
  BY <1>1 DEF FramesFit
<1>4. 0 \in Nat /\ \A q \in DOMAIN toWorker' : q + 0 \in DOMAIN toWorker /\ toWorker[q + 0] = toWorker'[q]
  BY <1>1, <1>2, UnshiftedCommands
<1>5. worker'.owed \subseteq worker.owed /\ worker'.steers \subseteq worker.steers
  BY <1>2
<1>6. QED BY <1>2, <1>3, <1>4, <1>5, CallsAcks

LEMMA CallsVendorSteer ==
  ASSUME CallInv, Types', VendorSteer
  PROVE  CallInv'
<1>1. Types /\ FramesFit
  BY DEF CallInv
<1>2. PICK s \in worker.steers :
        LET takes == worker.on /\ s.n = worker.n
        IN /\ s \in Steers /\ takes \in BOOLEAN /\ worker'.steers = worker.steers \ {s} /\ worker'.owed = worker.owed
           /\ SendHub(<<Ack(s.call, takes)>>) /\ UNCHANGED <<hub, calls, link, toWorker>>
  BY <1>1, VendorSteerStep
<1> DEFINE takes == worker.on /\ s.n = worker.n
<1>3. /\ takes \in BOOLEAN /\ SendHub(<<Ack(s.call, takes)>>) /\ UNCHANGED <<hub, calls, link, toWorker>>
      /\ worker'.owed \subseteq worker.owed /\ worker'.steers \subseteq worker.steers
  BY <1>2
<1>4. s.call.kind \in SteerKinds /\ s.call.outcome # "ok" /\ s.call \in CallSet
  BY <1>1, <1>2 DEF FramesFit, SteerFits, Steers
<1>5. 0 \in Nat /\ \A q \in DOMAIN toWorker' : q + 0 \in DOMAIN toWorker /\ toWorker[q + 0] = toWorker'[q]
  BY <1>1, <1>3, UnshiftedCommands
<1> HIDE DEF takes
<1>6. QED BY <1>3, <1>4, <1>5, CallsAcks

LEMMA CallsWorkerSteer ==
  ASSUME CallInv, Types', WorkerSteer
  PROVE  CallInv'
<1> DEFINE c == toWorker[1].call
<1>1. Types /\ FramesFit /\ Down
  BY DEF CallInv
<1>2. /\ Handles(SteerKinds) /\ c \in CallSet /\ UNCHANGED <<hub, calls, link>>
      /\ \/ /\ worker.on /\ toHub' = toHub
            /\ worker' = [worker EXCEPT !.steers = worker.steers \cup {[call |-> c, n |-> worker.n]}]
         \/ ~worker.on /\ SendHub(<<Ack(c, FALSE)>>) /\ worker' = worker
  BY <1>1, WorkerSteerStep
<1>3. /\ \A q \in DOMAIN toWorker' : q + 1 \in DOMAIN toWorker /\ toWorker[q + 1] = toWorker'[q]
      /\ 1 \in Nat /\ 1 \in DOMAIN toWorker /\ toWorker[1].t = "do" /\ c.kind \in SteerKinds /\ link
  BY <1>1, <1>2, HandlesShift
<1>4. c.outcome # "ok" /\ (c.kind = "confer" => c.inputs # {})
  BY <1>1, <1>3 DEF FramesFit, CommandFits
<1> HIDE DEF c
<1>5. CASE /\ worker.on /\ toHub' = toHub
           /\ worker' = [worker EXCEPT !.steers = worker.steers \cup {[call |-> c, n |-> worker.n]}]
  <2> DEFINE u == [call |-> c, n |-> worker.n]
  <2>1. SteerFits(u)
    BY <1>3, <1>4 DEF SteerFits
  <2>2. worker'.steers = worker.steers \cup {u} /\ worker'.owed = worker.owed
    BY <1>1, <1>5 DEF Types, WorkerStates
  <2> HIDE DEF u
  <2>3. \A s \in worker'.steers : SteerFits(s) \/ s \in worker.steers
    BY <2>1, <2>2
  <2>4. \A d \in worker'.owed : (d.kind \in TurnKinds /\ d.outcome # "ok") \/ d \in worker.owed
    BY <2>2
  <2>5. QED BY <1>2, <1>3, <1>5, <2>3, <2>4, CallsWorker
<1>6. CASE ~worker.on /\ SendHub(<<Ack(c, FALSE)>>) /\ worker' = worker
  BY <1>2, <1>3, <1>4, <1>6, CallsAcks
<1>7. QED BY <1>2, <1>5, <1>6

LEMMA CallsWorkerNotice ==
  ASSUME CallInv, Types', WorkerNotice
  PROVE  CallInv'
<1>1. Types /\ Down
  BY DEF CallInv
<1>2. /\ toWorker # << >> /\ DOMAIN toWorker' = 1 .. Len(toWorker) - 1 /\ DOMAIN toWorker = 1 .. Len(toWorker)
      /\ Len(toWorker) \in Nat \ {0}
      /\ \A i \in 1 .. Len(toWorker) - 1 : toWorker'[i] = toWorker[i + 1]
      /\ UNCHANGED <<hub, calls, worker, link, toHub>>
  BY <1>1, WorkerNoticeStep
<1>3. 1 \in Nat /\ \A q \in DOMAIN toWorker' : q + 1 \in DOMAIN toWorker /\ toWorker[q + 1] = toWorker'[q]
  BY <1>2
<1>4. link
  BY <1>1, <1>2 DEF Down, Types
<1>5. QED BY <1>2, <1>3, <1>4, CallsWorker

LEMMA CallsVendorEnd ==
  ASSUME CallInv, Types', VendorEnd
  PROVE  CallInv'
<1>1. Types
  BY DEF CallInv
<1>2. PICK k \in {"completed", "errored"} :
        /\ k \in Turns /\ worker'.owed = worker.owed /\ worker'.steers = worker.steers
        /\ SendHub(<<Mark(k, {})>>) /\ UNCHANGED <<hub, calls, link, toWorker>>
  BY <1>1, VendorEndStep
<1>3. <<Mark(k, {})>> \in Seq(HubFrames) /\ Len(<<Mark(k, {})>>) = 1 /\ <<Mark(k, {})>>[1] = Mark(k, {})
  BY <1>2, MarkSequences
<1>4. HubFrameFits(Mark(k, {})) /\ ~Asked(Mark(k, {})) /\ ~(IsMark(Mark(k, {})) /\ Mark(k, {}).replay)
  BY FrameFields DEF HubFrameFits, Asked, IsMark
<1> DEFINE ms == <<Mark(k, {})>>
<1>5. \A i \in 1 .. Len(ms) : HubFrameFits(ms[i]) /\ ~Asked(ms[i]) /\ ~(IsMark(ms[i]) /\ ms[i].replay)
  BY <1>3, <1>4
<1>6. ms \in Seq(HubFrames) /\ SendHub(ms)
  BY <1>2, <1>3
<1> HIDE DEF ms
<1>7. 0 \in Nat /\ \A q \in DOMAIN toWorker' : q + 0 \in DOMAIN toWorker /\ toWorker[q + 0] = toWorker'[q]
  BY <1>1, <1>2, UnshiftedCommands
<1>8. QED BY <1>2, <1>5, <1>6, <1>7, CallsSends

\* The worker answers a request: the asked frame moves from one sequence to the other.
LEMMA CallsMoves ==
  ASSUME CallInv, Types', NEW ks, Handles(ks), UNCHANGED <<hub, calls, link>>,
         worker'.steers = worker.steers, worker'.owed = worker.owed,
         AttachRuns' => AttachRuns, NEW l \in Nat, l \notin DOMAIN toHub,
         \A j \in DOMAIN toHub' :
           \/ j \in DOMAIN toHub /\ toHub[j] = toHub'[j]
           \/ /\ HubFrameFits(toHub'[j])
              /\ Asked(toHub'[j]) => /\ j = l /\ toHub'[j].call = toWorker[1].call /\ Asked(toWorker[1])
  PROVE  CallInv'
<1>1. Types /\ FramesFit /\ Down /\ Chains /\ Requests /\ StrayAttach
  BY DEF CallInv
<1>2. /\ \A q \in DOMAIN toWorker' : q \in Nat \ {0} /\ q + 1 \in DOMAIN toWorker /\ toWorker[q + 1] = toWorker'[q] /\ q + 1 # 1
      /\ 1 \in DOMAIN toWorker /\ link
  BY <1>1, HandlesShift
<1>3. FramesFit'
  BY <1>1, <1>2, FitsKept
<1>4. Down'
  BY <1>1, <1>2 DEF Down
<1>5. Chains'
  BY <1>1, ChainsKept
<1>6. Requests'
  <2>1. /\ \A q \in DOMAIN toWorker' : Asked(toWorker'[q]) => toWorker'[q].call \in calls'
        /\ \A j \in DOMAIN toHub' : Asked(toHub'[j]) => toHub'[j].call \in calls'
    BY <1>1, <1>2 DEF Requests
  <2>2. ASSUME NEW p \in DOMAIN toWorker', NEW q \in DOMAIN toWorker',
               Asked(toWorker'[p]), Asked(toWorker'[q]), toWorker'[p].call = toWorker'[q].call
        PROVE  p = q
    BY <1>1, <1>2, <2>2 DEF Requests
  <2>3. ASSUME NEW i \in DOMAIN toHub', NEW j \in DOMAIN toHub',
               Asked(toHub'[i]), Asked(toHub'[j]), toHub'[i].call = toHub'[j].call
        PROVE  i = j
    BY <1>1, <1>2, <2>3 DEF Requests
  <2>4. ASSUME NEW q \in DOMAIN toWorker', NEW j \in DOMAIN toHub',
               Asked(toWorker'[q]), Asked(toHub'[j]), toWorker'[q].call = toHub'[j].call
        PROVE  FALSE
    BY <1>1, <1>2, <2>4 DEF Requests
  <2>5. QED BY <2>1, <2>2, <2>3, <2>4 DEF Requests
<1>7. StrayAttach'
  BY <1>1, <1>2, StrayKept
<1>8. QED BY <1>3, <1>4, <1>5, <1>6, <1>7 DEF CallInv

\* The answer to a list says what the worker holds.
LEMMA WorkerListStep ==
  ASSUME Types, Down, WorkerList
  PROVE  LET c == toWorker[1].call
         IN /\ Handles(ListKinds) /\ c \in CallSet /\ c.kind \in ListKinds /\ link
            /\ Live(c) \in HubFrames /\ SendHub(<<Live(c)>>)
            /\ Live(c).t = "live" /\ Live(c).call = c /\ Live(c).held = worker.held
            /\ Live(c).on = IF provider = "claude" THEN worker.on ELSE worker.active
            /\ DOMAIN toHub' = 1 .. Len(toHub) + 1 /\ DOMAIN toHub = 1 .. Len(toHub) /\ Len(toHub) \in Nat
            /\ \A j \in DOMAIN toHub : toHub'[j] = toHub[j]
            /\ toHub'[Len(toHub) + 1] = Live(c)
            /\ UNCHANGED <<provider, steers, box, fyi, queue, stored, origin, noticed, hub, calls, worker, link,
                           seen, told, unsure, faults>>
<1> DEFINE c == toWorker[1].call
<1>1. /\ Handles(ListKinds)
      /\ UNCHANGED <<provider, steers, box, fyi, queue, stored, origin, noticed, hub, calls, worker, link,
                     seen, told, unsure, faults>>
  BY DEF WorkerList, durable, ghosts
<1>2. c \in CallSet /\ Head(toWorker) = toWorker[1] /\ c.kind \in ListKinds
  BY <1>1, HandlesElements
<1>3. link
  BY <1>1, HandlesShift
<1>4. SendHub(<<Live(c)>>)
  BY <1>2 DEF WorkerList
<1>5. /\ Live(c) \in HubFrames /\ Live(c).t = "live" /\ Live(c).call = c /\ Live(c).held = worker.held
      /\ Live(c).on = IF provider = "claude" THEN worker.on ELSE worker.active
  BY <1>2, LiveTyped, FramesTyped
<1> DEFINE d == Live(c)
<1> HIDE DEF d, c
<1>6. <<d>> \in Seq(HubFrames) /\ Len(<<d>>) = 1 /\ <<d>>[1] = d
  BY <1>5, ShortSequences DEF d
<1>7. /\ DOMAIN toHub' = 1 .. Len(toHub) + 1 /\ DOMAIN toHub = 1 .. Len(toHub) /\ Len(toHub) \in Nat
      /\ \A j \in DOMAIN toHub : toHub'[j] = toHub[j]
      /\ toHub'[Len(toHub) + 1] = d
  <2> DEFINE ms == <<d>>
  <2>1. ms \in Seq(HubFrames) /\ Len(ms) = 1 /\ ms[1] = d /\ SendHub(ms)
    BY <1>4, <1>6 DEF d
  <2> HIDE DEF ms
  <2>2. /\ link => /\ DOMAIN toHub' = 1 .. Len(toHub) + Len(ms)
                   /\ \A i \in 1 .. Len(toHub) : toHub'[i] = toHub[i]
                   /\ \A i \in 1 .. Len(ms) : toHub'[Len(toHub) + i] = ms[i]
        /\ DOMAIN toHub = 1 .. Len(toHub) /\ Len(toHub) \in Nat
    BY <2>1, SendHubElements
  <2>3. 1 \in 1 .. Len(ms)
    BY <2>1
  <2>4. QED BY <1>3, <2>1, <2>2, <2>3
<1>8. QED BY <1>1, <1>2, <1>3, <1>4, <1>5, <1>7 DEF c, d

LEMMA CallsWorkerList ==
  ASSUME CallInv, Types', WorkerList
  PROVE  CallInv'
<1> DEFINE c == toWorker[1].call
<1>1. Types /\ FramesFit /\ Down
  BY DEF CallInv
<1>2. /\ Handles(ListKinds) /\ c.kind \in ListKinds /\ UNCHANGED <<hub, calls, worker, link>>
      /\ Live(c).t = "live" /\ Live(c).call = c
      /\ DOMAIN toHub' = 1 .. Len(toHub) + 1 /\ DOMAIN toHub = 1 .. Len(toHub) /\ Len(toHub) \in Nat
      /\ \A j \in DOMAIN toHub : toHub'[j] = toHub[j]
      /\ toHub'[Len(toHub) + 1] = Live(c)
  BY <1>1, WorkerListStep
<1>3. /\ \A q \in DOMAIN toWorker' : q + 1 \in DOMAIN toWorker /\ toWorker[q + 1] = toWorker'[q]
      /\ 1 \in DOMAIN toWorker /\ toWorker[1].t = "do"
  BY <1>1, <1>2, HandlesShift
<1>4. c.outcome # "ok"
  BY <1>2, HeadFits
<1> DEFINE l == Len(toHub) + 1
<1>5. HubFrameFits(Live(c)) /\ (Asked(Live(c)) => Asked(toWorker[1]))
  BY <1>2, <1>3, <1>4 DEF HubFrameFits, Asked
<1>6. \A j \in DOMAIN toHub' : (j \in DOMAIN toHub /\ toHub[j] = toHub'[j]) \/ (j = l /\ toHub'[j] = Live(c))
  BY <1>2
<1>7. l \in Nat /\ l \notin DOMAIN toHub
  BY <1>2
<1>8. AttachRuns' => AttachRuns
  BY <1>2, <1>3, <1>6 DEF AttachRuns, IsMark
<1> HIDE DEF l
<1>9. QED BY <1>2, <1>5, <1>6, <1>7, <1>8, CallsMoves

\* What an attach sends: replayed markers, then the acknowledgement.
LEMMA WorkerAttachFrames ==
  ASSUME Types, Down, WorkerAttach
  PROVE  LET c == toWorker[1].call
         IN /\ Handles({"attach"}) /\ c \in CallSet /\ c.kind = "attach" /\ link
            /\ \E k \in worker.missed .. Len(worker.marks) :
                 LET l == Len(toHub) IN
                 /\ k \in Nat /\ l \in Nat /\ DOMAIN toHub = 1 .. l /\ DOMAIN toHub' = 1 .. l + k + 1
                 /\ Len(worker.marks) \in Nat
                 /\ \A j \in 1 .. l : toHub'[j] = toHub[j]
                 /\ \A i \in 1 .. k : /\ toHub'[l + i] = Replayed(k)[i]
                                      /\ Replayed(k)[i].t = "mark" /\ Replayed(k)[i].replay = TRUE
                                      /\ Replayed(k)[i].kind = worker.marks[Len(worker.marks) - k + i].kind
                                      /\ Replayed(k)[i].of = worker.marks[Len(worker.marks) - k + i].of
                                      /\ Len(worker.marks) - k + i \in 1 .. Len(worker.marks)
                 /\ toHub'[l + k + 1] = Ack(c, TRUE)
<1> DEFINE c == toWorker[1].call
           l == Len(toHub)
<1>1. /\ Handles({"attach"}) /\ c \in CallSet
      /\ \E k \in worker.missed .. Len(worker.marks) : SendHub(Append(Replayed(k), Ack(c, TRUE)))
  BY WorkerAttachStep
<1>2. c.kind = "attach" /\ link
  BY <1>1, HandlesShift
<1>3. PICK k \in worker.missed .. Len(worker.marks) : SendHub(Append(Replayed(k), Ack(c, TRUE)))
  BY <1>1
<1>4. /\ Replayed(k) \in Seq(HubFrames) /\ Len(Replayed(k)) = k /\ k \in Nat
      /\ \A j \in 1 .. k : /\ Replayed(k)[j].t = "mark" /\ Replayed(k)[j].replay = TRUE
                           /\ Len(worker.marks) - k + j \in 1 .. Len(worker.marks)
                           /\ Replayed(k)[j].kind = worker.marks[Len(worker.marks) - k + j].kind
                           /\ Replayed(k)[j].of = worker.marks[Len(worker.marks) - k + j].of
  BY ReplayedTyped
<1>5. Ack(c, TRUE) \in HubFrames /\ Len(worker.marks) \in Nat
  BY <1>1, FramesTyped, TypesConsequences, LenProperties
<1> DEFINE r == Replayed(k)
           a == Ack(c, TRUE)
           ms == Append(r, a)
<1>6. /\ ms \in Seq(HubFrames) /\ Len(ms) = k + 1
      /\ \A i \in 1 .. k : ms[i] = r[i]
      /\ ms[k + 1] = a
  <2>1. r \in Seq(HubFrames) /\ a \in HubFrames /\ Len(r) = k
    BY <1>4, <1>5
  <2> HIDE DEF r, a
  <2>2. QED BY <2>1, AppendElements
<1>7. SendHub(ms)
  BY <1>3
<1> HIDE DEF ms
<1>8. /\ l \in Nat /\ DOMAIN toHub = 1 .. l /\ DOMAIN toHub' = 1 .. l + (k + 1)
      /\ \A j \in 1 .. l : toHub'[j] = toHub[j]
      /\ \A i \in 1 .. k + 1 : toHub'[l + i] = ms[i]
  BY <1>2, <1>6, <1>7, SendHubElements
<1> HIDE DEF l, r, a
<1>9. /\ DOMAIN toHub' = 1 .. l + k + 1
      /\ \A i \in 1 .. k : toHub'[l + i] = r[i]
      /\ toHub'[l + k + 1] = a
  <2>1. l + (k + 1) = l + k + 1 /\ k + 1 \in 1 .. k + 1 /\ \A i \in 1 .. k : i \in 1 .. k + 1
    BY <1>4, <1>8
  <2>2. toHub'[l + (k + 1)] = ms[k + 1]
    BY <1>8, <2>1
  <2>3. QED BY <1>6, <1>8, <2>1, <2>2
<1>10. /\ k \in Nat /\ l \in Nat /\ DOMAIN toHub = 1 .. l /\ DOMAIN toHub' = 1 .. l + k + 1
       /\ Len(worker.marks) \in Nat
       /\ \A j \in 1 .. l : toHub'[j] = toHub[j]
       /\ \A i \in 1 .. k : /\ toHub'[l + i] = Replayed(k)[i]
                            /\ Replayed(k)[i].t = "mark" /\ Replayed(k)[i].replay = TRUE
                            /\ Replayed(k)[i].kind = worker.marks[Len(worker.marks) - k + i].kind
                            /\ Replayed(k)[i].of = worker.marks[Len(worker.marks) - k + i].of
                            /\ Len(worker.marks) - k + i \in 1 .. Len(worker.marks)
       /\ toHub'[l + k + 1] = Ack(c, TRUE)
  BY <1>4, <1>5, <1>8, <1>9 DEF r, a
<1>11. QED BY <1>1, <1>2, <1>10 DEF l

LEMMA CallsWorkerAttach ==
  ASSUME CallInv, Types', WorkerAttach
  PROVE  CallInv'
<1> DEFINE c == toWorker[1].call
           l == Len(toHub)
<1>1. Types /\ FramesFit /\ Down
  BY DEF CallInv
<1>2. /\ Handles({"attach"}) /\ c \in CallSet
      /\ worker'.owed = worker.owed /\ worker'.steers = worker.steers /\ UNCHANGED <<hub, calls, link>>
  BY <1>1, WorkerAttachStep
<1>3. /\ 1 \in DOMAIN toWorker /\ toWorker[1].t = "do" /\ c.kind = "attach" /\ c.outcome # "ok"
  BY <1>1, <1>2, HandlesShift, HeadFits
<1>4. PICK k \in worker.missed .. Len(worker.marks) :
        /\ k \in Nat /\ l \in Nat /\ DOMAIN toHub = 1 .. l /\ DOMAIN toHub' = 1 .. l + k + 1
        /\ \A j \in 1 .. l : toHub'[j] = toHub[j]
        /\ \A i \in 1 .. k : toHub'[l + i] = Replayed(k)[i] /\ Replayed(k)[i].t = "mark"
        /\ toHub'[l + k + 1] = Ack(c, TRUE)
  BY <1>1, WorkerAttachFrames
<1>5. AttachRuns
  BY <1>3 DEF AttachRuns, DoesAttach
<1>6. /\ Ack(c, TRUE).t = "ack" /\ Ack(c, TRUE).call = c
  BY FrameFields
<1>7. HubFrameFits(Ack(c, TRUE)) /\ (Asked(Ack(c, TRUE)) => Asked(toWorker[1]))
  BY <1>3, <1>6, KindFacts DEF TurnKinds, ListKinds, HubFrameFits, Asked
<1> HIDE DEF c, l
<1>8. \A j \in DOMAIN toHub' : \/ j \in DOMAIN toHub /\ toHub[j] = toHub'[j]
                               \/ toHub'[j].t = "mark"
                               \/ j = l + k + 1 /\ toHub'[j] = Ack(c, TRUE)
  <2>1. ASSUME NEW j \in DOMAIN toHub', j \notin 1 .. l, j # l + k + 1
        PROVE  toHub'[j].t = "mark"
    <3>1. j - l \in 1 .. k /\ j = l + (j - l)
      BY <1>4, <2>1
    <3>2. toHub'[l + (j - l)].t = "mark"
      BY <1>4, <3>1
    <3>3. QED BY <3>1, <3>2
  <2>2. QED BY <1>4, <2>1
<1>9. \A f : f.t = "mark" => HubFrameFits(f) /\ ~Asked(f)
  BY DEF HubFrameFits, Asked
<1> DEFINE e == l + k + 1
<1>10. e \in Nat /\ e \notin DOMAIN toHub
  BY <1>4
<1>11. \A j \in DOMAIN toHub' :
           \/ j \in DOMAIN toHub /\ toHub[j] = toHub'[j]
           \/ /\ HubFrameFits(toHub'[j])
              /\ Asked(toHub'[j]) => /\ j = e /\ toHub'[j].call = toWorker[1].call /\ Asked(toWorker[1])
  BY <1>6, <1>7, <1>8, <1>9 DEF c
<1> HIDE DEF e
<1>12. QED BY <1>2, <1>5, <1>10, <1>11, CallsMoves

LEMMA CallsHubBoots ==
  ASSUME CallInv, Types', HubBoots
  PROVE  CallInv'
<1>1. Types /\ FramesFit /\ Down /\ Chains /\ Requests /\ StrayAttach
  BY DEF CallInv
<1>2. /\ ~hub.up /\ UNCHANGED <<calls, worker, link, toHub, toWorker>> /\ hub' = [hub EXCEPT !.up = TRUE]
  BY DEF HubBoots, channel
<1>3. hub'.up /\ hub'.steering = hub.steering
  BY <1>1, <1>2 DEF Types, HubStates
<1>4. FramesFit'
  BY <1>1, <1>2 DEF FramesFit
<1>5. Down'
  BY <1>1, <1>2, <1>3 DEF Down
<1>6. Chains'
  BY <1>1, <1>2, <1>3 DEF Chains, AttachRuns
<1>7. Requests' /\ StrayAttach'
  BY <1>1, <1>2 DEF Requests, StrayAttach
<1>8. QED BY <1>4, <1>5, <1>6, <1>7 DEF CallInv

LEMMA CallsConnect ==
  ASSUME CallInv, Types', Connect
  PROVE  CallInv'
<1> DEFINE c == Call("first", {}, {})
<1>1. Types /\ FramesFit /\ Down
  BY DEF CallInv
<1>2. /\ hub.up /\ ~link /\ Settled = {} /\ link' = TRUE
      /\ calls' = calls \cup {c} /\ toWorker' = <<Do(c)>>
      /\ UNCHANGED <<worker, toHub>> /\ hub' = [hub EXCEPT !.fresh = hub.fresh \cup {"first"}]
  BY DEF Connect
<1>3. toHub = << >> /\ calls = {}
  BY <1>1, <1>2 DEF Down, Settled
<1>4. hub'.up /\ calls' = {c}
  BY <1>1, <1>2, <1>3 DEF Types, HubStates
<1>5. c \in CallSet /\ c.kind = "first" /\ c.outcome = "sent" /\ Do(c).t = "do" /\ Do(c).call = c /\ Do(c) \in WorkerFrames
  BY CallTyped, KindFacts, FramesTyped, FrameFields DEF Call
<1> HIDE DEF c
<1>6. DOMAIN toWorker' = {1} /\ toWorker'[1] = Do(c) /\ DOMAIN toHub' = {}
  BY <1>2, <1>3, <1>5, ShortSequences, EmptyChannels
<1>7. FramesFit'
  BY <1>1, <1>2, <1>5, <1>6 DEF FramesFit, CommandFits
<1>8. Down'
  BY <1>2, <1>4 DEF Down
<1>9. Chains'
  BY <1>4, <1>5, KindFacts DEF Chains
<1>10. Requests'
  BY <1>4, <1>5, <1>6 DEF Requests
<1>11. StrayAttach'
  BY <1>5, <1>6 DEF StrayAttach, DoesAttach
<1>12. QED BY <1>7, <1>8, <1>9, <1>10, <1>11 DEF CallInv

\* The socket closes: nothing is on it, and every call that was under way has failed.
LEMMA CallsClosed ==
  ASSUME CallInv, Types', Closed, hub'.up = hub.up, hub'.steering = hub.steering, calls' = Failed,
         hub.up => Settled = {}, \A s \in worker'.steers : SteerFits(s),
         \A c \in worker'.owed : c.kind \in TurnKinds /\ c.outcome # "ok"
  PROVE  CallInv'
<1>1. Types /\ FramesFit /\ Down /\ Chains
  BY DEF CallInv
<1>2. ~link' /\ toHub' = << >> /\ toWorker' = << >> /\ DOMAIN toHub' = {} /\ DOMAIN toWorker' = {}
  BY EmptyChannels DEF Closed
<1>3. FramesFit'
  BY <1>2 DEF FramesFit
<1>4. /\ \A d \in calls' : \E c \in calls : d.kind = c.kind /\ d = IF c.outcome = "sent" THEN Answered(c, "fail") ELSE c
      /\ \A c \in calls : c \in CallSet
  BY <1>1, FailedCalls DEF Types
<1>5. \A d \in calls' : d.outcome = "fail"
  BY <1>1, <1>4, AnsweredFields DEF Down, Settled
<1>6. Down'
  BY <1>1, <1>2, <1>4, <1>5 DEF Down
<1>7. AttachRuns' => AttachRuns
  BY <1>2, <1>4 DEF AttachRuns
<1>8. Chains'
  BY <1>1, <1>4, <1>7 DEF Chains
<1>9. Requests' /\ StrayAttach'
  BY <1>2 DEF Requests, StrayAttach
<1>10. QED BY <1>3, <1>6, <1>8, <1>9 DEF CallInv

\* A call given up keeps its kind, and it still did not go well.
LEMMA GivenUpFits ==
  ASSUME NEW cs, NEW c \in CallSet, c.outcome # "ok"
  PROVE  /\ GivenUp(c, cs) \in CallSet /\ GivenUp(c, cs).kind = c.kind /\ GivenUp(c, cs).inputs = c.inputs
         /\ GivenUp(c, cs).outcome # "ok"
BY GivenUpCall

LEMMA LostWorkerFits ==
  ASSUME Types, FramesFit, NEW cs, NEW w,
         w.owed = {GivenUp(c, cs) : c \in worker.owed},
         \A t \in w.steers : \E s \in worker.steers : t.call = GivenUp(s.call, cs)
  PROVE  /\ \A s \in w.steers : SteerFits(s)
         /\ \A c \in w.owed : c.kind \in TurnKinds /\ c.outcome # "ok"
<1>1. worker.owed \subseteq CallSet /\ \A s \in worker.steers : s.call \in CallSet
  BY TypesConsequences DEF Steers
<1>2. ASSUME NEW t \in w.steers PROVE SteerFits(t)
  BY <1>1, GivenUpFits DEF FramesFit, SteerFits
<1>3. ASSUME NEW d \in w.owed PROVE d.kind \in TurnKinds /\ d.outcome # "ok"
  BY <1>1, GivenUpFits DEF FramesFit
<1>4. QED BY <1>2, <1>3

LEMMA CallsDrop ==
  ASSUME CallInv, Types', Drop
  PROVE  CallInv'
<1>1. Types /\ FramesFit
  BY DEF CallInv
<1>2. /\ Closed /\ calls' = Failed /\ UNCHANGED hub /\ (hub.up => Settled = {})
      /\ worker' = [WorkerWithout(calls) EXCEPT !.missed = LostMarks]
  BY DEF Drop, Fault
<1>3. /\ worker'.owed = {GivenUp(c, calls) : c \in worker.owed}
      /\ \A t \in worker'.steers : \E s \in worker.steers : t.call = GivenUp(s.call, calls)
  BY <1>1, <1>2, LostWorker
<1>4. /\ \A s \in worker'.steers : SteerFits(s)
      /\ \A c \in worker'.owed : c.kind \in TurnKinds /\ c.outcome # "ok"
  BY <1>1, <1>3, LostWorkerFits
<1>5. QED BY <1>2, <1>4, CallsClosed

LEMMA CallsRespawn ==
  ASSUME CallInv, Types', Respawn
  PROVE  CallInv'
BY TypesConsequences, SpawnedTyped, CallsClosed DEF CallInv, Respawn, Fault

LEMMA CallsHubEnds ==
  ASSUME CallInv, Types', HubEnds
  PROVE  CallInv'
<1>1. Types /\ FramesFit
  BY DEF CallInv
<1>2. /\ Closed /\ calls' = {} /\ hub' = Booted(stored)
      /\ worker' = [WorkerWithout(calls) EXCEPT !.missed = LostMarks]
  BY DEF HubEnds
<1>3. /\ worker'.owed = {GivenUp(c, calls) : c \in worker.owed}
      /\ \A t \in worker'.steers : \E s \in worker.steers : t.call = GivenUp(s.call, calls)
  BY <1>1, <1>2, LostWorker
<1>4. /\ \A s \in worker'.steers : SteerFits(s)
      /\ \A c \in worker'.owed : c.kind \in TurnKinds /\ c.outcome # "ok"
  BY <1>1, <1>3, LostWorkerFits
<1>5. ~link' /\ toHub' = << >> /\ toWorker' = << >> /\ DOMAIN toHub' = {} /\ DOMAIN toWorker' = {}
  BY <1>2, EmptyChannels DEF Closed
<1>6. FramesFit'
  BY <1>4, <1>5 DEF FramesFit
<1>7. Down' /\ Chains' /\ Requests' /\ StrayAttach'
  BY <1>2, <1>5 DEF Down, Chains, Requests, StrayAttach
<1>8. QED BY <1>6, <1>7 DEF CallInv

LEMMA CallsTimeout ==
  ASSUME CallInv, Types', Timeout
  PROVE  CallInv'
<1>1. Types /\ FramesFit /\ Down /\ Chains /\ Requests /\ StrayAttach
  BY DEF CallInv
<1>2. PICK c \in calls :
        /\ c \in CallSet /\ c.outcome = "sent"
        /\ calls' = (calls \ {c}) \cup {Answered(c, "fail")}
        /\ toHub' = FramesWithout(toHub, {c})
        /\ toWorker' = FramesWithout(toWorker, {c})
        /\ worker' = WorkerWithout({c})
        /\ UNCHANGED <<hub, link>>
  BY <1>1, TimeoutStep
<1> DEFINE d == Answered(c, "fail")
<1>3. d.kind = c.kind /\ d.outcome = "fail" /\ d.inputs = c.inputs
  BY <1>2, AnsweredFields
<1>4. calls' = (calls \ {c}) \cup {d}
  BY <1>2
<1> HIDE DEF d
<1>5. toHub \in Seq(HubFrames) /\ toWorker \in Seq(WorkerFrames)
  BY <1>1 DEF Types
<1>6. /\ DOMAIN toHub' = DOMAIN toHub
      /\ \A j \in DOMAIN toHub :
              /\ toHub'[j].t = toHub[j].t /\ toHub[j] \in HubFrames
              /\ toHub[j].t = "mark" => toHub'[j] = toHub[j]
              /\ toHub[j].t = "ack" => toHub'[j].call = GivenUp(toHub[j].call, {c}) /\ toHub'[j].ok = toHub[j].ok
              /\ toHub[j].t = "live" => toHub'[j].call = GivenUp(toHub[j].call, {c})
  BY <1>2, <1>5, HubFramesWithout
<1>7. /\ DOMAIN toWorker' = DOMAIN toWorker
      /\ \A q \in DOMAIN toWorker :
              /\ toWorker'[q].t = toWorker[q].t /\ toWorker[q] \in WorkerFrames
              /\ toWorker[q].t = "do" => toWorker'[q].call = GivenUp(toWorker[q].call, {c})
  BY <1>2, <1>5, WorkerFramesWithout
<1>8. /\ \A j \in DOMAIN toHub : toHub[j].t \in {"ack", "live"} => toHub[j].call \in CallSet
      /\ \A q \in DOMAIN toWorker : toWorker[q].t = "do" => toWorker[q].call \in CallSet
  BY <1>6, <1>7, HubFrame, WorkerFrame
<1>9. \A e \in CallSet : /\ GivenUp(e, {c}).kind = e.kind /\ GivenUp(e, {c}).inputs = e.inputs
                         /\ (e.outcome # "ok" => GivenUp(e, {c}).outcome # "ok")
                         /\ GivenUp(e, {c}).outcome = "sent" => GivenUp(e, {c}) = e /\ e # c
                         /\ GivenUp(e, {c}).outcome = "fail" => e = c \/ e.outcome = "fail"
  <2>1. ASSUME NEW e \in CallSet
        PROVE  /\ GivenUp(e, {c}).kind = e.kind /\ GivenUp(e, {c}).inputs = e.inputs
               /\ (e.outcome # "ok" => GivenUp(e, {c}).outcome # "ok")
               /\ GivenUp(e, {c}).outcome = "sent" => GivenUp(e, {c}) = e /\ e # c
               /\ GivenUp(e, {c}).outcome = "fail" => e = c \/ e.outcome = "fail"
    BY <2>1, GivenUpCall
  <2>2. QED BY <2>1
<1>10. FramesFit'
  <2>1. ASSUME NEW j \in DOMAIN toHub' PROVE HubFrameFits(toHub'[j])
    BY <1>1, <1>6, <1>8, <1>9 DEF FramesFit, HubFrameFits
  <2>2. ASSUME NEW q \in DOMAIN toWorker' PROVE CommandFits(toWorker'[q])
    <3>1. CommandFits(toWorker[q]) /\ toWorker'[q].t = toWorker[q].t
      BY <1>1, <1>7 DEF FramesFit
    <3>2. ASSUME toWorker'[q].t = "do"
          PROVE  toWorker'[q].call.outcome # "ok" /\ (toWorker'[q].call.kind = "confer" => toWorker'[q].call.inputs # {})
      <4> DEFINE e == toWorker[q].call
      <4>1. e \in CallSet /\ e.outcome # "ok" /\ (e.kind = "confer" => e.inputs # {}) /\ toWorker'[q].call = GivenUp(e, {c})
        BY <1>7, <1>8, <3>1, <3>2 DEF CommandFits
      <4> HIDE DEF e
      <4>2. QED BY <1>9, <4>1
    <3>3. QED BY <3>2 DEF CommandFits
  <2>3. /\ worker'.owed = {GivenUp(e, {c}) : e \in worker.owed}
        /\ \A t \in worker'.steers : \E s \in worker.steers : t.call = GivenUp(s.call, {c})
    BY <1>1, <1>2, WorkerWithoutFields
  <2>4. /\ \A s \in worker'.steers : SteerFits(s)
        /\ \A e \in worker'.owed : e.kind \in TurnKinds /\ e.outcome # "ok"
    BY <1>1, <2>3, LostWorkerFits
  <2>5. QED BY <2>1, <2>2, <2>4 DEF FramesFit
<1>11. Down'
  BY <1>1, <1>2 DEF Down
<1>12. AttachRuns' => AttachRuns
  <2>1. \A q \in DOMAIN toWorker' : DoesAttach(toWorker'[q]) => q \in DOMAIN toWorker /\ DoesAttach(toWorker[q])
    <3>1. ASSUME NEW q \in DOMAIN toWorker', DoesAttach(toWorker'[q])
          PROVE  q \in DOMAIN toWorker /\ DoesAttach(toWorker[q])
      <4> DEFINE e == toWorker[q].call
      <4>1. /\ q \in DOMAIN toWorker /\ toWorker[q].t = "do" /\ toWorker'[q].call = GivenUp(e, {c}) /\ e \in CallSet
            /\ toWorker'[q].call.kind = "attach"
        BY <1>7, <1>8, <3>1 DEF DoesAttach
      <4> HIDE DEF e
      <4>2. e.kind = "attach"
        BY <1>9, <4>1
      <4>3. QED BY <4>1, <4>2 DEF DoesAttach, e
    <3>2. QED BY <3>1
  <2>2. \A j \in DOMAIN toHub' : IsMark(toHub'[j]) => j \in DOMAIN toHub /\ IsMark(toHub[j]) /\ toHub[j] = toHub'[j]
    BY <1>6 DEF IsMark
  <2>3. \A e \in calls' : e.kind \in AttachKinds => \E x \in calls : x.kind \in AttachKinds
    BY <1>2, <1>3, <1>4
  <2>4. QED BY <2>1, <2>2, <2>3 DEF AttachRuns
<1>13. Chains'
  BY <1>1, <1>2, <1>3, <1>4, <1>12 DEF Chains
<1>14. Requests'
  <2>1. 0 \in Nat /\ \A q \in DOMAIN toWorker' \cup DOMAIN toHub' : q + 0 = q
    BY DEF Types
  <2>2. \A q \in DOMAIN toWorker' : Asked(toWorker'[q]) =>
          Asked(toWorker[q]) /\ toWorker[q].call = toWorker'[q].call /\ toWorker'[q].call # c
    <3>1. ASSUME NEW q \in DOMAIN toWorker', Asked(toWorker'[q])
          PROVE  Asked(toWorker[q]) /\ toWorker[q].call = toWorker'[q].call /\ toWorker'[q].call # c
      <4> DEFINE e == toWorker[q].call
                 g == toWorker'[q].call
      <4>1. toWorker[q].t = "do" /\ g = GivenUp(e, {c}) /\ e \in CallSet
            /\ g.kind \in ListKinds \cup {"attach"} /\ g.outcome = "sent"
        BY <1>7, <1>8, <3>1, WorkerFrame DEF Asked
      <4> HIDE DEF e, g
      <4>2. g = e /\ e # c
        BY <1>9, <4>1
      <4>3. QED BY <4>1, <4>2 DEF e, g, Asked
    <3>2. QED BY <3>1
  <2>3. \A j \in DOMAIN toHub' : Asked(toHub'[j]) =>
          Asked(toHub[j]) /\ toHub[j].call = toHub'[j].call /\ toHub'[j].call # c
    <3>1. ASSUME NEW j \in DOMAIN toHub', Asked(toHub'[j])
          PROVE  Asked(toHub[j]) /\ toHub[j].call = toHub'[j].call /\ toHub'[j].call # c
      <4> DEFINE e == toHub[j].call
                 g == toHub'[j].call
      <4>1. toHub[j].t \in {"ack", "live"} /\ g = GivenUp(e, {c}) /\ e \in CallSet
            /\ g.kind \in ListKinds \cup {"attach"} /\ g.outcome = "sent"
        BY <1>6, <1>8, <3>1, HubFrame DEF Asked
      <4> HIDE DEF e, g
      <4>2. g = e /\ e # c
        BY <1>9, <4>1
      <4>3. QED BY <4>1, <4>2 DEF e, g, Asked
    <3>2. QED BY <3>1
  <2>4. /\ \A q \in DOMAIN toWorker' : Asked(toWorker'[q]) => toWorker'[q].call \in calls'
        /\ \A j \in DOMAIN toHub' : Asked(toHub'[j]) => toHub'[j].call \in calls'
    BY <1>1, <1>4, <1>6, <1>7, <2>2, <2>3 DEF Requests
  <2>5. QED BY <1>1, <1>6, <1>7, <2>1, <2>2, <2>3, <2>4, RequestsFewer
<1>15. StrayAttach'
  <2>1. ASSUME NEW q \in DOMAIN toWorker', DoesAttach(toWorker'[q]), toWorker'[q].call.outcome = "fail",
               NEW e \in calls', e.kind \in AttachKinds
        PROVE  e.kind = "attach" /\ e.outcome = "fail"
    <3>1. DoesAttach(toWorker[q]) /\ (toWorker[q].call = c \/ toWorker[q].call.outcome = "fail") /\ toWorker[q].call \in CallSet
      <4> DEFINE x == toWorker[q].call
      <4>1. toWorker[q].t = "do" /\ x \in CallSet /\ toWorker'[q].call = GivenUp(x, {c}) /\ toWorker'[q].call.kind = "attach"
        BY <1>7, <1>8, <2>1 DEF DoesAttach
      <4> HIDE DEF x
      <4>2. x.kind = "attach" /\ (x = c \/ x.outcome = "fail")
        BY <1>9, <2>1, <4>1
      <4>3. QED BY <4>1, <4>2 DEF x, DoesAttach
    <3>2. CASE toWorker[q].call = c
      BY <1>1, <1>2, <1>3, <1>4, <2>1, <3>1, <3>2, KindFacts DEF Chains, DoesAttach
    <3>3. CASE toWorker[q].call.outcome = "fail"
      BY <1>1, <1>2, <1>3, <1>4, <1>7, <2>1, <3>1, <3>3 DEF StrayAttach
    <3>4. QED BY <3>1, <3>2, <3>3
  <2>2. QED BY <2>1 DEF StrayAttach
<1>16. QED BY <1>10, <1>11, <1>13, <1>14, <1>15 DEF CallInv

LEMMA CallsInit ==
  ASSUME Init
  PROVE  CallInv
BY TypesInit, EmptyChannels, SpawnedTyped DEF Init, FramesFit, Down, Chains, Requests, StrayAttach, CallInv

LEMMA CallsStep ==
  ASSUME CallInv, Careful, [Next]_vars
  PROVE  CallInv'
<1>1. Types'
  BY TypesStep DEF CallInv
<1>2. CASE UNCHANGED vars
  BY <1>1, <1>2, CallsQuiet DEF vars, channel
<1>3. CASE Next
  <2>1. ASSUME NEW i \in Inputs, SendSteer(i) \/ SendFresh(i) PROVE CallInv'
    BY <1>1, <2>1, CallsSendSteer, CallsSendFresh
  <2>2. ASSUME NEW m \in Mail, Post(m) PROVE CallInv'
    BY <1>1, <2>2, CallsPost
  <2>3. CASE ReadInbox \/ Deliver \/ Thaw \/ Freeze \/ HubReply \/ HubMark
    BY <1>1, <2>3, CallsSimple, CallsDeliver, CallsHubReply, CallsHubMark
  <2>4. ASSUME NEW c \in calls,
               TurnReturns(c) \/ Confers(c) \/ StaysQueued(c) \/ KeptReturns(c)
               \/ MailTaken(c) \/ MailRefused(c) \/ Rechecked(c)
               \/ AttachFirst(c) \/ AttachReplayed(c) \/ AttachSecond(c) \/ AttachFails(c)
        PROVE  CallInv'
    BY <1>1, <2>4, CallsTurnReturns, CallsContinue, CallsMailTaken, CallsMailRefused,
       CallsRechecked, CallsAttachFirst, CallsAttachReplayed, CallsAttachSecond
  <2>5. CASE WorkerStart \/ WorkerRefuse \/ WorkerSteer \/ WorkerNotice \/ WorkerList \/ WorkerAttach
             \/ WorkerAckStart \/ VendorSteer \/ VendorEnd
    BY <1>1, <2>5, CallsWorkerStart, CallsWorkerRefuse, CallsWorkerSteer, CallsWorkerNotice, CallsWorkerList,
       CallsWorkerAttach, CallsWorkerAckStart, CallsVendorSteer, CallsVendorEnd
  <2>6. CASE HubBoots \/ Connect \/ Drop \/ Respawn \/ HubEnds \/ Timeout
    BY <1>1, <2>6, CallsHubBoots, CallsConnect, CallsDrop, CallsRespawn, CallsHubEnds, CallsTimeout
  <2>7. QED BY <1>3, <2>1, <2>2, <2>3, <2>4, <2>5, <2>6, Cases
<1>4. QED BY <1>2, <1>3
-----------------------------------------------------------------------------
(* Turns: what the hub can believe of the turn that runs.                  *)

Starts(f) == LiveMark(f) /\ f.kind = "started"
TakenSteer(f) == f.t = "ack" /\ f.ok /\ f.call.kind \in SteerKinds
\* Frames that only a turn that runs, or has run, brings forth.
Trace(f) == IsMark(f) \/ TakenSteer(f)
Witness(f) == (LiveMark(f) /\ f.kind # "started") \/ TakenSteer(f)
TakenConfer(f) == f.t = "ack" /\ f.ok /\ f.call.kind = "confer" /\ f.call.outcome = "sent"

\* An answer that makes the hub think that no turn runs.
Idle(c) == ~c.on \/ ~c.held
SaysIdle(f) == f.t = "live" /\ f.call.outcome = "sent" /\ Idle(f)
SaidIdle(c) == c.kind \in ListKinds /\ c.outcome = "ok" /\ Idle(c)
AsksList(f) == f.t = "do" /\ f.call.kind \in ListKinds /\ f.call.outcome = "sent"

\* The hub knows of no turn; a turn is on its way; one shows behind the j-th frame.
Rest == ~hub.busy /\ hub.status # "active"
Coming == \E q \in DOMAIN toWorker : DoesTurn(toWorker[q])
After(j) == worker.on \/ Coming \/ \E i \in DOMAIN toHub : i > j /\ Trace(toHub[i])
NoMarks(a, b) == \A i \in DOMAIN toHub : a < i /\ i < b => ~IsMark(toHub[i])

\* The answer to this call leaves the busy bit, which was set since, alone.
Outdated(c) == hub.busy /\ c.kind = "recheck" /\ "recheck" \notin hub.fresh

\* The last marker under way, and the last of the ring, say whether a turn runs.
MarksTrue ==
  \A j \in DOMAIN toHub :
    IsMark(toHub[j]) /\ NoMarks(j, Len(toHub) + 1) => (toHub[j].kind = "started" <=> worker.on)
RingTrue ==
  /\ worker.active = worker.on
  /\ worker.on => worker.held
  /\ worker.marks # << >> => (worker.marks[Len(worker.marks)].kind = "started" <=> worker.on)

\* A turn on its way is the only one, and nothing of an earlier one is left.
OneTurn ==
  \A q \in DOMAIN toWorker : DoesTurn(toWorker[q]) =>
    /\ hub.busy /\ ~worker.on /\ ~AttachRuns
    /\ \A j \in DOMAIN toHub : ~Trace(toHub[j])
    /\ \A p \in DOMAIN toWorker : DoesTurn(toWorker[p]) => p = q
FirstStart ==
  \A j \in DOMAIN toHub : Starts(toHub[j]) =>
    /\ hub.busy /\ ~AttachRuns
    /\ \A i \in DOMAIN toHub : i < j => ~Trace(toHub[i])

\* The hub is told of a turn before it is told what the turn did, or knows of it.
Evidence ==
  \A j \in DOMAIN toHub : Witness(toHub[j]) =>
    \/ \E i \in DOMAIN toHub : i < j /\ IsMark(toHub[i]) /\ toHub[i].kind = "started" /\ NoMarks(i, j)
    \/ NoMarks(0, j) /\ ~Rest
Knows == worker.on /\ NoMarks(0, Len(toHub) + 1) => ~Rest
StoredToo == hub.status = "active" /\ (worker.on \/ Coming) => stored = "active"

\* Contact is lost only with a turn that the hub knows.
Lost ==
  (~link \/ \E c \in calls : c.kind = "first") /\ worker.on =>
    hub.status = "active" /\ NoMarks(0, Len(toHub) + 1)

\* An answer that no turn runs is true, or outdated by a turn started since.
ListAhead ==
  \A p, q \in DOMAIN toWorker :
    AsksList(toWorker[p]) /\ p < q /\ DoesTurn(toWorker[q]) => Outdated(toWorker[p].call)
ListSays ==
  \A j \in DOMAIN toHub : SaysIdle(toHub[j]) /\ After(j) => Outdated(toHub[j].call) /\ NoMarks(0, j)
ListSaid == \A c \in calls : SaidIdle(c) /\ After(0) => Outdated(c)

\* A call that starts a turn fails only with the socket, and then no turn runs.
TurnsFail == \A c \in calls : c.kind \in TurnKinds /\ c.outcome = "fail" => ~link /\ ~worker.on

\* Mail has started the turn that runs or is on its way, and no operator input was added:
\* the hub does not take it for the operator's, nor would a hub that is restarted.
Tainted ==
  \/ worker.on /\ ~worker.op
  \/ \E q \in DOMAIN toWorker : DoesTurn(toWorker[q]) /\ toWorker[q].call.inputs = {}
Authority == Tainted => ~hub.opTurn /\ origin # "operator"
\* The authority that an accepted steer is about to confer was earned by the turn that runs.
Accepted ==
  \/ \E j \in DOMAIN toHub : TakenConfer(toHub[j])
  \/ \E c \in calls : c.kind = "confer" /\ c.outcome = "ok"
Earned == Accepted => ~Coming /\ (worker.on => worker.op)

TurnInv ==
  /\ MarksTrue /\ RingTrue /\ OneTurn /\ FirstStart /\ Evidence /\ Knows /\ StoredToo /\ Lost
  /\ ListAhead /\ ListSays /\ ListSaid /\ TurnsFail /\ Authority /\ Earned

\* With no turn running, on its way or on the socket, the hub may think what it likes.
LEMMA Calm ==
  ASSUME RingTrue', TurnsFail', ~worker'.on,
         \A q \in DOMAIN toWorker' : ~DoesTurn(toWorker'[q]),
         \A j \in DOMAIN toHub' : ~Trace(toHub'[j])
  PROVE  TurnInv'
<1>1. ~Coming' /\ ~Tainted' /\ Earned' /\ Authority' /\ OneTurn' /\ ListAhead' /\ StoredToo'
  BY DEF Coming, Tainted, Earned, Authority, OneTurn, ListAhead, StoredToo
<1>2. \A j \in DOMAIN toHub' : ~IsMark(toHub'[j]) /\ ~Starts(toHub'[j]) /\ ~Witness(toHub'[j])
  BY DEF Trace, Starts, Witness, LiveMark, IsMark
<1>3. MarksTrue' /\ FirstStart' /\ Evidence'
  BY <1>2 DEF MarksTrue, FirstStart, Evidence
<1>4. Knows' /\ Lost'
  BY DEF Knows, Lost
<1>5. ListSays' /\ ListSaid'
  BY <1>1 DEF ListSays, ListSaid, After
<1>6. QED BY <1>1, <1>3, <1>4, <1>5 DEF TurnInv

\* The same frame, its call perhaps given up.
Alike(g, f) ==
  /\ g.t = f.t
  /\ f.t = "mark" => g = f
  /\ f.t \in {"do", "ack", "live"} =>
       g.call.kind = f.call.kind /\ g.call.inputs = f.call.inputs /\ (g.call.outcome = "sent" => g = f)
  /\ f.t = "ack" => g.ok = f.ok

LEMMA AlikeFacts ==
  ASSUME NEW g, NEW f, Alike(g, f)
  PROVE  /\ IsMark(g) <=> IsMark(f)
         /\ IsMark(f) => g.kind = f.kind /\ g = f
         /\ Starts(g) <=> Starts(f)
         /\ Trace(g) <=> Trace(f)
         /\ Witness(g) <=> Witness(f)
         /\ TakenConfer(g) => TakenConfer(f)
         /\ SaysIdle(g) => SaysIdle(f) /\ g = f
         /\ DoesTurn(g) <=> DoesTurn(f)
         /\ DoesTurn(f) => g.call.inputs = f.call.inputs
         /\ AsksList(g) => AsksList(f) /\ g = f
         /\ Alike(f, f)
BY DEF Alike, IsMark, Starts, LiveMark, Trace, TakenSteer, Witness, TakenConfer, SaysIdle, DoesTurn, AsksList, Idle

LEMMA AlikeItself ==
  ASSUME NEW f
  PROVE  Alike(f, f)
BY DEF Alike

\* A list that waits to be answered, or says what it found, has its call.
LEMMA AskedLists ==
  ASSUME CallInv
  PROVE  /\ \A j \in DOMAIN toHub : SaysIdle(toHub[j]) => toHub[j].call \in calls /\ toHub[j].call.kind \in ListKinds
         /\ \A q \in DOMAIN toWorker : AsksList(toWorker[q]) => toWorker[q].call \in calls
<1>1. ASSUME NEW j \in DOMAIN toHub, SaysIdle(toHub[j])
      PROVE  toHub[j].call \in calls /\ toHub[j].call.kind \in ListKinds
  BY <1>1 DEF CallInv, FramesFit, SaysIdle, HubFrameFits, Asked, Requests
<1>2. ASSUME NEW q \in DOMAIN toWorker, AsksList(toWorker[q])
      PROVE  toWorker[q].call \in calls
  BY <1>2 DEF AsksList, Asked, CallInv, Requests
<1>3. QED BY <1>1, <1>2

\* A step that starts and ends no turn, lets the hub forget none, and sends nothing that
\* tells of one: the commands move up by at most what was handled, and new frames come last.
LEMMA TurnKept ==
  ASSUME CallInv, TurnInv, Types', NEW a \in Nat,
         worker'.on = worker.on, worker'.held = worker.held, worker'.active = worker.active,
         worker'.marks = worker.marks, worker.op => worker'.op, link' = link,
         AttachRuns' => AttachRuns \/ (~Coming /\ \A j \in DOMAIN toHub : ~Starts(toHub[j])),
         \A q \in DOMAIN toWorker' :
           \/ q + a \in DOMAIN toWorker /\ Alike(toWorker'[q], toWorker[q + a])
           \/ q + a > Len(toWorker) /\ ~DoesTurn(toWorker'[q]),
         \A j \in DOMAIN toHub : j \in DOMAIN toHub' /\ Alike(toHub'[j], toHub[j]),
         \A j \in DOMAIN toHub' :
           \/ j \in DOMAIN toHub
           \/ /\ j > Len(toHub) /\ ~Trace(toHub'[j]) /\ ~TakenConfer(toHub'[j])
              /\ SaysIdle(toHub'[j]) /\ (worker.on \/ \E q \in DOMAIN toWorker' : DoesTurn(toWorker'[q])) =>
                   /\ hub'.busy /\ toHub'[j].call.kind = "recheck" /\ "recheck" \notin hub'.fresh
                   /\ \A i \in DOMAIN toHub : ~IsMark(toHub[i]),
         hub.busy => hub'.busy, ~Rest => ~Rest',
         \/ "recheck" \in hub'.fresh => "recheck" \in hub.fresh
         \/ \A c \in calls : c.kind # "recheck",
         hub'.status = "active" /\ (worker.on \/ Coming) => stored' = "active",
         (~link \/ \E c \in calls' : c.kind = "first") /\ worker.on =>
           hub'.status = "active" /\ NoMarks(0, Len(toHub) + 1),
         hub'.opTurn => hub.opTurn \/ ~Tainted,
         origin' = "operator" => origin = "operator" \/ ~Tainted,
         \A c \in calls' : /\ SaidIdle(c) => c \in calls
                           /\ c.kind \in TurnKinds /\ c.outcome = "fail" => c \in calls
                           /\ c.kind = "confer" /\ c.outcome = "ok" => c \in calls
  PROVE  TurnInv'
<1>1. /\ DOMAIN toHub = 1 .. Len(toHub) /\ Len(toHub) \in Nat
      /\ DOMAIN toWorker = 1 .. Len(toWorker) /\ Len(toWorker) \in Nat
      /\ DOMAIN toHub' = 1 .. Len(toHub') /\ Len(toHub') \in Nat
      /\ DOMAIN toWorker' = 1 .. Len(toWorker') /\ Len(toWorker') \in Nat
  BY DEF CallInv, Types
<1>2. \A q \in DOMAIN toWorker' : DoesTurn(toWorker'[q]) =>
        /\ q + a \in DOMAIN toWorker /\ DoesTurn(toWorker[q + a])
        /\ toWorker[q + a].call.inputs = toWorker'[q].call.inputs
  BY AlikeFacts
<1>3. Coming' => Coming
  BY <1>2 DEF Coming
<1>4. \A j \in DOMAIN toHub' :
        /\ IsMark(toHub'[j]) \/ Trace(toHub'[j]) \/ Starts(toHub'[j]) \/ Witness(toHub'[j]) \/ TakenConfer(toHub'[j])
             => j \in DOMAIN toHub
        /\ j \notin DOMAIN toHub => j > Len(toHub)
  BY DEF Trace, Starts, Witness, LiveMark, IsMark
<1>5. \A j \in DOMAIN toHub :
        /\ j \in DOMAIN toHub'
        /\ IsMark(toHub'[j]) <=> IsMark(toHub[j])
        /\ IsMark(toHub[j]) => toHub'[j].kind = toHub[j].kind
        /\ Starts(toHub'[j]) <=> Starts(toHub[j])
        /\ Trace(toHub'[j]) <=> Trace(toHub[j])
        /\ Witness(toHub'[j]) <=> Witness(toHub[j])
        /\ TakenConfer(toHub'[j]) => TakenConfer(toHub[j])
        /\ SaysIdle(toHub'[j]) => SaysIdle(toHub[j]) /\ toHub'[j] = toHub[j]
  BY AlikeFacts
<1>6. \A i, j \in Nat : NoMarks(i, j) <=> NoMarks(i, j)'
  BY <1>4, <1>5 DEF NoMarks
<1>7. \A j \in Nat : j \in DOMAIN toHub' /\ NoMarks(j, Len(toHub) + 1)' => NoMarks(j, Len(toHub) + 1)
  BY <1>1, <1>5 DEF NoMarks
<1>8. MarksTrue'
  BY <1>1, <1>4, <1>5, <1>7 DEF MarksTrue, TurnInv
<1>9. RingTrue'
  BY DEF TurnInv, RingTrue
<1>10. ASSUME NEW q \in DOMAIN toWorker', DoesTurn(toWorker'[q])
       PROVE  /\ hub'.busy /\ ~worker'.on /\ ~AttachRuns'
              /\ \A j \in DOMAIN toHub' : ~Trace(toHub'[j])
              /\ \A p \in DOMAIN toWorker' : DoesTurn(toWorker'[p]) => p = q
  <2>1. q + a \in DOMAIN toWorker /\ DoesTurn(toWorker[q + a])
    BY <1>2, <1>10
  <2>2. /\ hub.busy /\ ~worker.on /\ ~AttachRuns
        /\ \A j \in DOMAIN toHub : ~Trace(toHub[j])
        /\ \A p \in DOMAIN toWorker : DoesTurn(toWorker[p]) => p = q + a
    BY <2>1 DEF TurnInv, OneTurn
  <2>3. Coming
    BY <2>1 DEF Coming
  <2>4. \A p \in DOMAIN toWorker' : DoesTurn(toWorker'[p]) => p + a = q + a
    BY <1>2, <2>2
  <2>5. \A p \in DOMAIN toWorker' : DoesTurn(toWorker'[p]) => p = q
    BY <1>1, <2>4
  <2>6. QED BY <1>4, <1>5, <2>2, <2>3, <2>5
<1>11. OneTurn'
  BY <1>10 DEF OneTurn
<1>12. FirstStart'
  BY <1>4, <1>5 DEF FirstStart, TurnInv
<1>13. Evidence'
  <2> SUFFICES ASSUME NEW j \in DOMAIN toHub', Witness(toHub'[j])
               PROVE  \/ \E i \in DOMAIN toHub' : i < j /\ IsMark(toHub'[i]) /\ toHub'[i].kind = "started" /\ NoMarks(i, j)'
                      \/ NoMarks(0, j)' /\ ~Rest'
    BY DEF Evidence
  <2>1. j \in DOMAIN toHub /\ Witness(toHub[j]) /\ j \in Nat
    BY <1>1, <1>4, <1>5
  <2>2. \/ \E i \in DOMAIN toHub : i < j /\ IsMark(toHub[i]) /\ toHub[i].kind = "started" /\ NoMarks(i, j)
        \/ NoMarks(0, j) /\ ~Rest
    BY <2>1 DEF TurnInv, Evidence
  <2>3. CASE \E i \in DOMAIN toHub : i < j /\ IsMark(toHub[i]) /\ toHub[i].kind = "started" /\ NoMarks(i, j)
    BY <1>1, <1>5, <1>6, <2>1, <2>3
  <2>4. CASE NoMarks(0, j) /\ ~Rest
    BY <1>6, <2>1, <2>4
  <2>5. QED BY <2>2, <2>3, <2>4
<1>14. Knows'
  BY <1>1, <1>5 DEF NoMarks, TurnInv, Knows
<1>15. StoredToo'
  BY <1>3 DEF StoredToo
<1>16. Lost'
  BY <1>1, <1>4, <1>5 DEF NoMarks, Lost
<1>17. \A c \in calls : Outdated(c) => Outdated(c)'
  BY DEF Outdated
<1>18. ListAhead'
  <2> SUFFICES ASSUME NEW p \in DOMAIN toWorker', NEW q \in DOMAIN toWorker',
                      AsksList(toWorker'[p]), p < q, DoesTurn(toWorker'[q])
               PROVE  Outdated(toWorker[p].call)'
    BY DEF ListAhead
  <2>1. q + a \in DOMAIN toWorker /\ DoesTurn(toWorker[q + a])
    BY <1>2
  <2>2. p + a \in DOMAIN toWorker /\ AsksList(toWorker[p + a]) /\ toWorker'[p] = toWorker[p + a]
    BY <1>1, <2>1, AlikeFacts
  <2>3. p + a < q + a
    BY <1>1
  <2>4. Outdated(toWorker[p + a].call)
    BY <2>1, <2>2, <2>3 DEF TurnInv, ListAhead
  <2>5. toWorker[p + a].call \in calls
    BY <2>2, AskedLists
  <2>6. QED BY <1>17, <2>2, <2>4, <2>5 DEF Outdated
<1>19. \A j \in DOMAIN toHub' : After(j)' => worker.on \/ Coming' \/ \E i \in DOMAIN toHub : i > j /\ Trace(toHub[i])
  BY <1>4, <1>5 DEF After
<1>20. ListSays'
  <2> SUFFICES ASSUME NEW j \in DOMAIN toHub', SaysIdle(toHub'[j]), After(j)'
               PROVE  Outdated(toHub[j].call)' /\ NoMarks(0, j)'
    BY DEF ListSays
  <2>1. CASE j \in DOMAIN toHub
    BY <1>1, <1>3, <1>5, <1>6, <1>17, <1>19, <2>1, AskedLists DEF After, TurnInv, ListSays, Outdated
  <2>2. CASE j \notin DOMAIN toHub
    BY <1>1, <1>4, <1>5, <1>19, <2>2 DEF Coming, Outdated, NoMarks
  <2>3. QED BY <2>1, <2>2
<1>21. ListSaid'
  BY <1>3, <1>4, <1>5, <1>17 DEF ListSaid, After, TurnInv
<1>22. TurnsFail'
  BY DEF TurnInv, TurnsFail
<1>23. Tainted' => Tainted
  BY <1>2 DEF Tainted
<1>24. Authority'
  BY <1>23 DEF TurnInv, Authority
<1>25. Earned'
  BY <1>3, <1>4, <1>5 DEF Accepted, TurnInv, Earned
<1>26. QED
  BY <1>8, <1>9, <1>11, <1>12, <1>13, <1>14, <1>15, <1>16, <1>18, <1>20, <1>21, <1>22, <1>24, <1>25 DEF TurnInv

\* At rest there is no turn, none on its way, and nothing of an earlier one on the socket.
LEMMA RestLemma ==
  ASSUME CallInv, TurnInv, Careful, HubTick, Rest
  PROVE  /\ ~worker.on
         /\ \A q \in DOMAIN toWorker : ~DoesTurn(toWorker[q])
         /\ \A j \in DOMAIN toHub : ~Trace(toHub[j])
<1>1. ~AttachRuns /\ ~hub.busy
  BY NotAttaching DEF CallInv, Rest
<1>2. \A q \in DOMAIN toWorker : ~DoesTurn(toWorker[q])
  BY <1>1 DEF TurnInv, OneTurn
<1>3. \A j \in DOMAIN toHub : ~Starts(toHub[j])
  BY <1>1 DEF TurnInv, FirstStart
<1>4. \A j \in DOMAIN toHub : IsMark(toHub[j]) => LiveMark(toHub[j])
  BY <1>1 DEF AttachRuns, IsMark, LiveMark
<1>5. \A j \in DOMAIN toHub : ~Witness(toHub[j])
  BY <1>3, <1>4 DEF TurnInv, Evidence, Starts
<1>6. \A j \in DOMAIN toHub : ~Trace(toHub[j])
  BY <1>3, <1>4, <1>5 DEF Trace, Witness, Starts
<1>7. ~worker.on
  BY <1>6 DEF TurnInv, Knows, NoMarks, Trace
<1>8. QED BY <1>2, <1>6, <1>7

\* A step of the hub alone that adds at most a command which starts no turn.
LEMMA TurnQuiet ==
  ASSUME CallInv, TurnInv, Types', UNCHANGED <<toHub, worker, link>>,
         AttachRuns' => AttachRuns,
         \A q \in DOMAIN toWorker' :
           \/ q \in DOMAIN toWorker /\ toWorker'[q] = toWorker[q]
           \/ q > Len(toWorker) /\ ~DoesTurn(toWorker'[q]),
         hub.busy => hub'.busy, ~Rest => ~Rest',
         \/ "recheck" \in hub'.fresh => "recheck" \in hub.fresh
         \/ \A c \in calls : c.kind # "recheck",
         hub'.status = "active" /\ (worker.on \/ Coming) => stored' = "active",
         hub'.status = hub.status \/ (link /\ \A c \in calls' : c.kind # "first"),
         hub'.opTurn => hub.opTurn \/ ~Tainted,
         origin' = "operator" => origin = "operator" \/ ~Tainted,
         \A c \in calls' : c \in calls \/ (c.kind \notin TurnKinds \cup {"first"} /\ c.outcome # "ok")
  PROVE  TurnInv'
<1>1. 0 \in Nat /\ DOMAIN toWorker' \subseteq Nat /\ DOMAIN toHub \subseteq Nat
  BY DEF CallInv, Types
<1>2. \A q \in DOMAIN toWorker' :
        \/ q + 0 \in DOMAIN toWorker /\ Alike(toWorker'[q], toWorker[q + 0])
        \/ q + 0 > Len(toWorker) /\ ~DoesTurn(toWorker'[q])
  BY <1>1, AlikeItself
<1>3. \A j \in DOMAIN toHub : j \in DOMAIN toHub' /\ Alike(toHub'[j], toHub[j])
  BY AlikeItself
<1>4. \A j \in DOMAIN toHub' : j \in DOMAIN toHub
  OBVIOUS
<1>5. (~link \/ \E c \in calls' : c.kind = "first") /\ worker.on =>
        hub'.status = "active" /\ NoMarks(0, Len(toHub) + 1)
  BY DEF TurnInv, Lost
<1>6. \A c \in calls' : /\ SaidIdle(c) => c \in calls
                        /\ c.kind \in TurnKinds /\ c.outcome = "fail" => c \in calls
                        /\ c.kind = "confer" /\ c.outcome = "ok" => c \in calls
  BY DEF SaidIdle
<1>7. QED BY <1>1, <1>2, <1>3, <1>4, <1>5, <1>6, TurnKept

\* The hub, at rest, asks for a turn: nothing else is under way.
LEMMA TurnIssued ==
  ASSUME CallInv, TurnInv, Types', Careful, HubTick, Rest,
         NEW k \in TurnKinds, NEW is \in SUBSET Inputs, NEW ms \in SUBSET Mail, Issue(Call(k, is, ms)),
         UNCHANGED <<toHub, worker, link>>, hub'.busy, hub'.fresh = {}, hub'.status = hub.status,
         is = {} => ~hub'.opTurn /\ origin' # "operator"
  PROVE  TurnInv'
<1> DEFINE c == Call(k, is, ms)
<1>1. /\ ~worker.on
      /\ \A q \in DOMAIN toWorker : ~DoesTurn(toWorker[q])
      /\ \A j \in DOMAIN toHub : ~Trace(toHub[j])
  BY RestLemma
<1>2. Types /\ ~AttachRuns /\ Settled = {} /\ \A d \in calls : d.outcome = "sent"
  BY NotAttaching DEF CallInv
<1>3. k \in Kinds /\ k \notin AttachKinds /\ k \notin ListKinds /\ k # "attach" /\ k # "confer"
  BY KindFacts, KindSets
<1>4. c \in CallSet /\ c.kind = k /\ c.inputs = is /\ c.outcome = "sent"
  BY <1>3, CallTyped DEF Call
<1>5. RingTrue'
  BY DEF TurnInv, RingTrue
<1>6. CASE ~link
  BY <1>1, <1>5, <1>6, Calm DEF Issue, TurnsFail
<1>7. CASE link
  <2> DEFINE n == Len(toWorker) + 1
  <2> HIDE DEF c
  <2>1. /\ DOMAIN toWorker' = 1 .. n /\ n \in Nat /\ DOMAIN toWorker = 1 .. Len(toWorker) /\ Len(toWorker) \in Nat
        /\ \A i \in 1 .. Len(toWorker) : toWorker'[i] = toWorker[i]
        /\ toWorker'[n] = Do(c) /\ calls' = calls \cup {c}
    BY <1>2, <1>4, <1>7, IssueElements DEF c
  <2>2. Do(c).t = "do" /\ Do(c).call = c /\ DoesTurn(Do(c))
    BY <1>4, FrameFields DEF DoesTurn
  <2>3. \A q \in DOMAIN toWorker' : DoesTurn(toWorker'[q]) => q = n
    BY <1>1, <2>1
  <2>4. \A q \in DOMAIN toWorker' : q = n \/ (q \in DOMAIN toWorker /\ toWorker'[q] = toWorker[q])
    BY <2>1
  <2>5. ~AttachRuns'
    BY <1>2, <1>3, <1>4, <2>1, <2>2, <2>4 DEF DoesAttach, AttachRuns
  <2>6. \A j \in DOMAIN toHub : ~IsMark(toHub[j]) /\ ~Starts(toHub[j]) /\ ~Witness(toHub[j]) /\ ~TakenConfer(toHub[j])
    BY <1>1 DEF Trace, Starts, Witness, LiveMark, IsMark, TakenConfer, TakenSteer, SteerKinds
  <2>7. MarksTrue' /\ FirstStart' /\ Evidence'
    BY <2>6 DEF MarksTrue, FirstStart, Evidence
  <2>8. OneTurn'
    BY <1>1, <2>3, <2>5 DEF OneTurn
  <2>9. Knows' /\ Lost' /\ StoredToo'
    BY <1>1 DEF Knows, Lost, StoredToo, Rest
  <2>10. ListAhead'
    BY <1>2, <2>1, <2>3, <2>4, AskedLists, KindFacts DEF ListAhead, Outdated, AsksList, AttachRuns
  <2>11. ListSays'
    BY <1>2, <2>6, AskedLists, KindFacts DEF ListSays, Outdated, NoMarks, AttachRuns
  <2>12. ListSaid' /\ TurnsFail'
    BY <1>2, <1>4, <2>1 DEF ListSaid, SaidIdle, TurnsFail
  <2>13. Authority'
    BY <1>1, <1>4, <2>1, <2>2, <2>3 DEF Tainted, Authority
  <2>14. Earned'
    BY <1>2, <1>4, <2>1, <2>6 DEF Earned, Accepted
  <2>15. QED BY <1>5, <2>7, <2>8, <2>9, <2>10, <2>11, <2>12, <2>13, <2>14 DEF TurnInv
<1>8. QED BY <1>6, <1>7 DEF CallInv, Types

\* A step of the hub that leaves what it thinks of the turn.
LEMMA TurnSame ==
  ASSUME CallInv, TurnInv, Types', UNCHANGED <<toHub, worker, link, stored, origin>>,
         AttachRuns' => AttachRuns,
         \A q \in DOMAIN toWorker' :
           \/ q \in DOMAIN toWorker /\ toWorker'[q] = toWorker[q]
           \/ q > Len(toWorker) /\ ~DoesTurn(toWorker'[q]),
         hub'.busy = hub.busy, hub'.status = hub.status, hub'.opTurn = hub.opTurn,
         \/ "recheck" \in hub'.fresh => "recheck" \in hub.fresh
         \/ \A c \in calls : c.kind # "recheck",
         \A c \in calls' : c \in calls \/ (c.kind \notin TurnKinds \cup {"first"} /\ c.outcome # "ok")
  PROVE  TurnInv'
BY TurnQuiet DEF Rest, TurnInv, StoredToo

LEMMA SameCommands ==
  ASSUME Types, UNCHANGED <<toHub, toWorker>>, \A c \in calls' : c.kind \in AttachKinds => c \in calls
  PROVE  /\ AttachRuns' => AttachRuns
         /\ \A q \in DOMAIN toWorker' : q \in DOMAIN toWorker /\ toWorker'[q] = toWorker[q]
BY DEF AttachRuns

LEMMA OneMoreCommand ==
  ASSUME Types, UNCHANGED toHub, \A c \in calls' : c.kind \in AttachKinds => AttachRuns,
         NEW f \in WorkerFrames, toWorker' = toWorker \/ toWorker' = Append(toWorker, f),
         ~DoesTurn(f), DoesAttach(f) => AttachRuns
  PROVE  /\ AttachRuns' => AttachRuns
         /\ \A q \in DOMAIN toWorker' :
              \/ q \in DOMAIN toWorker /\ toWorker'[q] = toWorker[q]
              \/ q > Len(toWorker) /\ ~DoesTurn(toWorker'[q])
<1>1. toWorker \in Seq(WorkerFrames)
  BY DEF Types
<1>2. /\ DOMAIN toWorker = 1 .. Len(toWorker) /\ Len(toWorker) \in Nat
      /\ \A q \in DOMAIN toWorker' :
           \/ q \in DOMAIN toWorker /\ toWorker'[q] = toWorker[q]
           \/ q > Len(toWorker) /\ toWorker'[q] = f
  BY <1>1, AppendElements
<1>3. \A q \in DOMAIN toWorker' : DoesAttach(toWorker'[q]) => AttachRuns
  BY <1>2 DEF AttachRuns
<1>4. AttachRuns' => AttachRuns
  BY <1>3 DEF AttachRuns
<1>5. QED BY <1>2, <1>4

\* The hub makes a call that starts no turn and is no call of attachWorker().
LEMMA IssueQuiet ==
  ASSUME Types, UNCHANGED <<toHub, link>>, NEW k \in Kinds, k \notin TurnKinds, k \notin AttachKinds,
         NEW is \in SUBSET Inputs, NEW ms \in SUBSET Mail, Issue(Call(k, is, ms))
  PROVE  /\ AttachRuns' => AttachRuns
         /\ \A q \in DOMAIN toWorker' :
              \/ q \in DOMAIN toWorker /\ toWorker'[q] = toWorker[q]
              \/ q > Len(toWorker) /\ ~DoesTurn(toWorker'[q])
         /\ \A c \in calls' : c \in calls \/ (c.kind \notin TurnKinds \cup {"first"} /\ c.outcome # "ok")
<1> DEFINE d == Call(k, is, ms)
<1>1. d \in CallSet
  BY CallTyped
<1>2. d.kind = k /\ d.outcome = "sent"
  BY <1>1 DEF Call
<1> HIDE DEF d
<1>3. /\ Do(d) \in WorkerFrames /\ Do(d).call = d
      /\ Answered(d, "fail").kind = k /\ Answered(d, "fail").outcome = "fail"
  BY <1>1, <1>2, FramesTyped, FrameFields, AnsweredFields
<1>4. /\ toWorker' = toWorker \/ toWorker' = Append(toWorker, Do(d))
      /\ calls' = calls \cup {IF link THEN d ELSE Answered(d, "fail")}
  BY DEF Issue, d
<1>5. ~DoesTurn(Do(d)) /\ ~DoesAttach(Do(d))
  BY <1>2, <1>3, KindFacts DEF DoesTurn, DoesAttach
<1>6. \A c \in calls' : c \in calls \/ (c.kind \notin TurnKinds \cup {"first"} /\ c.outcome # "ok" /\ c.kind \notin AttachKinds)
  BY <1>2, <1>3, <1>4, KindFacts
<1>7. \A c \in calls' : c.kind \in AttachKinds => AttachRuns
  BY <1>6 DEF AttachRuns
<1>8. /\ AttachRuns' => AttachRuns
      /\ \A q \in DOMAIN toWorker' :
           \/ q \in DOMAIN toWorker /\ toWorker'[q] = toWorker[q]
           \/ q > Len(toWorker) /\ ~DoesTurn(toWorker'[q])
  BY <1>3, <1>4, <1>5, <1>7, OneMoreCommand
<1>9. QED BY <1>6, <1>8

\* Action by action.
LEMMA TurnSendSteer ==
  ASSUME CallInv, TurnInv, Types', NEW i \in Inputs, SendSteer(i)
  PROVE  TurnInv'
BY KindFacts, IssueQuiet, TurnSame DEF SendSteer, CallInv

LEMMA TurnSendFresh ==
  ASSUME CallInv, TurnInv, Types', Careful, NEW i \in Inputs, SendFresh(i)
  PROVE  TurnInv'
<1> DEFINE bu == hub.bundling \/ Pending # {}
           h == [hub EXCEPT !.opTurn = TRUE, !.bundling = bu]
<1>1. /\ HubTick /\ UNCHANGED <<toHub, worker, link>> /\ hub.status # "active" /\ ~hub.busy
      /\ hub' = SetBusy(h, TRUE) /\ Issue(Call("fresh", {i}, Pending))
  BY DEF SendFresh, StartTurn
<1>2. bu \in BOOLEAN /\ hub \in HubStates
  BY HubFields DEF CallInv, Types
<1>3. h \in HubStates /\ h.status = hub.status
  <2> HIDE DEF bu
  <2>1. QED BY <1>2 DEF HubStates
<1>4. hub'.busy /\ hub'.fresh = {} /\ hub'.status = hub.status
  <2> HIDE DEF h
  <2>1. QED BY <1>1, <1>3, SetBusyFields
<1>5. {i} \in SUBSET Inputs /\ Pending \in SUBSET Mail /\ "fresh" \in TurnKinds /\ {i} # {}
  BY DEF TurnKinds, Pending
<1>6. QED BY <1>1, <1>4, <1>5, TurnIssued DEF Rest

LEMMA DeliverTurns ==
  ASSUME CallInv, TurnInv, Types', Careful, HubTick, WakeSafe,
         NEW r \in HubStates, r.status = hub.status, r.busy = hub.busy, r.fresh = hub.fresh, r.opTurn = hub.opTurn,
         NEW b, NEW f, DeliverBus(r, b, f), UNCHANGED <<toHub, worker, link>>
  PROVE  TurnInv'
<1>1. Types
  BY DEF CallInv
<1>2. CASE DeliversNothing(r, b)
  BY <1>1, <1>2, SameCommands, TurnSame DEF DeliversNothing, NoCall
<1>3. CASE GivesUp(r, b)
  BY <1>3, RestLemma, Calm DEF GivesUp, NoCall, Rest, TurnInv, RingTrue, TurnsFail
<1>4. ASSUME NEW batch \in SUBSET queue, HandsOver(r, b, batch)
      PROVE  TurnInv'
  <2> DEFINE is == {e.input : e \in batch}
  <2>1. /\ hub' = SetBusy([r EXCEPT !.dispatching = TRUE, !.opTurn = TRUE], TRUE)
        /\ Issue(Call("deferred", is, {})) /\ Rest /\ \E e \in batch : TRUE
    BY <1>4 DEF HandsOver, Rest
  <2>2. hub'.busy /\ hub'.fresh = {} /\ hub'.status = hub.status
    BY <2>1, HandoffFields
  <2>3. is \in SUBSET Inputs /\ {} \in SUBSET Mail /\ is # {}
    BY <1>1, <2>1, QueueTyped
  <2>4. "deferred" \in TurnKinds
    BY DEF TurnKinds
  <2> HIDE DEF is
  <2>5. QED BY <2>1, <2>2, <2>3, <2>4, TurnIssued
<1>5. CASE Notices(r, b)
  BY <1>1, <1>5, NoticeFields, FramesTyped, FrameFields, OneMoreCommand, TurnSame DEF DoesTurn, DoesAttach,
     AttachRuns
<1>6. CASE SteersMail(r, b)
  <2>1. /\ hub' = [r EXCEPT !.steering = TRUE] /\ Issue(Call("mail", {}, PendingIn(b)))
        /\ UNCHANGED <<stored, origin>>
    BY <1>6 DEF SteersMail
  <2>2. hub'.status = hub.status /\ hub'.busy = hub.busy /\ hub'.fresh = hub.fresh /\ hub'.opTurn = hub.opTurn
    BY <2>1, SteeringFields
  <2>3. {} \in SUBSET Inputs /\ PendingIn(b) \in SUBSET Mail
    BY PendingMail DEF PendingIn
  <2>4. "mail" \in Kinds /\ "mail" \notin TurnKinds /\ "mail" \notin AttachKinds
    BY KindFacts
  <2>5. /\ AttachRuns' => AttachRuns
        /\ \A q \in DOMAIN toWorker' :
             \/ q \in DOMAIN toWorker /\ toWorker'[q] = toWorker[q]
             \/ q > Len(toWorker) /\ ~DoesTurn(toWorker'[q])
        /\ \A c \in calls' : c \in calls \/ (c.kind \notin TurnKinds \cup {"first"} /\ c.outcome # "ok")
    BY <1>1, <2>1, <2>3, <2>4, IssueQuiet
  <2>6. QED BY <2>1, <2>2, <2>5, TurnSame
<1>7. CASE WakesUp(r, b)
  <2>1. /\ hub' = SetBusy([r EXCEPT !.busTurn = TRUE], TRUE) /\ Issue(Call("bus", {}, PendingIn(b)))
        /\ origin' = "bus" /\ ~r.opTurn /\ r.status = "idle" /\ ~(provider = "claude" /\ r.busy)
    BY <1>7 DEF WakesUp
  <2>2. Rest
    BY <1>1, <2>1, TypesConsequences DEF WakeSafe, Careful, Rest
  <2>3. hub'.busy /\ hub'.fresh = {} /\ hub'.status = hub.status /\ ~hub'.opTurn
    BY <2>1, WakeFields
  <2>4. {} \in SUBSET Inputs /\ PendingIn(b) \in SUBSET Mail /\ "bus" \in TurnKinds
    BY PendingMail DEF PendingIn, TurnKinds
  <2>5. QED BY <2>1, <2>2, <2>3, <2>4, TurnIssued
<1>8. QED BY <1>1, <1>2, <1>3, <1>4, <1>5, <1>6, <1>7, DeliverCases

LEMMA TurnPost ==
  ASSUME CallInv, TurnInv, Types', Careful, NEW m \in Mail, Post(m)
  PROVE  TurnInv'
BY DeliverTurns DEF Post, CallInv, Types

LEMMA TurnDeliver ==
  ASSUME CallInv, TurnInv, Types', Careful, Deliver
  PROVE  TurnInv'
<1> DEFINE r == [hub EXCEPT !.due = FALSE]
<1>1. HubTick /\ WakeSafe /\ UNCHANGED <<toHub, worker, link>> /\ DeliverBus(r, box, fyi)
  BY DEF Deliver
<1>2. /\ r \in HubStates /\ r.status = hub.status /\ r.busy = hub.busy /\ r.fresh = hub.fresh
      /\ r.opTurn = hub.opTurn
  BY DEF CallInv, Types, HubStates
<1> HIDE DEF r
<1>3. QED BY <1>1, <1>2, DeliverTurns

LEMMA TurnSimple ==
  ASSUME CallInv, TurnInv, Types', ReadInbox \/ Freeze \/ Thaw \/ HubBoots
  PROVE  TurnInv'
<1>1. hub \in HubStates /\ Types
  BY DEF CallInv, Types
<1>2. /\ UNCHANGED <<toHub, toWorker, worker, link, calls, stored, origin>>
      /\ hub'.busy = hub.busy /\ hub'.status = hub.status /\ hub'.opTurn = hub.opTurn /\ hub'.fresh = hub.fresh
  BY <1>1 DEF ReadInbox, Freeze, Thaw, HubBoots, channel, durable, HubStates
<1>3. /\ AttachRuns' => AttachRuns
      /\ \A q \in DOMAIN toWorker' : q \in DOMAIN toWorker /\ toWorker'[q] = toWorker[q]
  BY <1>1, <1>2, SameCommands
<1>4. \A c \in calls' : c \in calls
  BY <1>2
<1>5. QED BY <1>2, <1>3, <1>4, TurnSame

\* Continuations.
LEMMA AsksQuiet ==
  ASSUME Types, UNCHANGED toHub, NEW c \in calls, NEW k \in Kinds, Asks(c, k),
         k \notin TurnKinds, k # "first", k \in AttachKinds => c.kind \in AttachKinds
  PROVE  /\ AttachRuns' => AttachRuns
         /\ \A q \in DOMAIN toWorker' :
              \/ q \in DOMAIN toWorker /\ toWorker'[q] = toWorker[q]
              \/ q > Len(toWorker) /\ ~DoesTurn(toWorker'[q])
         /\ \A d \in calls' : d \in calls \/ (d.kind \notin TurnKinds \cup {"first"} /\ d.outcome # "ok")
         /\ \A d \in calls' : d.kind = k \/ d \in calls \ {c}
<1> DEFINE d == Call(k, {}, {})
<1>1. d \in CallSet
  BY CallTyped
<1>2. d.kind = k /\ d.outcome = "sent"
  BY <1>1 DEF Call
<1>3. toWorker' = Append(toWorker, Do(d)) /\ calls' = (calls \ {c}) \cup {d}
  BY DEF Asks
<1> HIDE DEF d
<1>4. Do(d) \in WorkerFrames /\ Do(d).call = d
  BY <1>1, FramesTyped, FrameFields
<1>5. ~DoesTurn(Do(d)) /\ (DoesAttach(Do(d)) => AttachRuns)
  BY <1>2, <1>4, KindFacts DEF DoesTurn, DoesAttach, AttachRuns
<1>6. \A e \in calls' : e.kind \in AttachKinds => AttachRuns
  BY <1>2, <1>3 DEF AttachRuns
<1>7. /\ AttachRuns' => AttachRuns
      /\ \A q \in DOMAIN toWorker' :
           \/ q \in DOMAIN toWorker /\ toWorker'[q] = toWorker[q]
           \/ q > Len(toWorker) /\ ~DoesTurn(toWorker'[q])
  BY <1>3, <1>4, <1>5, <1>6, OneMoreCommand
<1>8. QED BY <1>2, <1>3, <1>7

\* The hub learns that no turn runs, and none does: nothing of one is under way.
LEMMA TurnOver ==
  ASSUME CallInv, TurnInv, UNCHANGED <<toHub, worker, link>>,
         ~worker.on, ~Coming, \A j \in DOMAIN toHub : ~Trace(toHub[j]),
         \A q \in DOMAIN toWorker' :
           \/ q \in DOMAIN toWorker /\ toWorker'[q] = toWorker[q]
           \/ q > Len(toWorker) /\ ~DoesTurn(toWorker'[q]),
         \A c \in calls' : c \in calls \/ c.kind \notin TurnKinds
  PROVE  TurnInv'
BY Calm DEF TurnInv, RingTrue, TurnsFail, Coming

LEMMA NotAfter ==
  ASSUME ~After(0), Types
  PROVE  ~worker.on /\ ~Coming /\ \A j \in DOMAIN toHub : ~Trace(toHub[j])
BY DEF Types, After

LEMMA TurnTurnReturns ==
  ASSUME CallInv, TurnInv, Types', NEW c \in calls, TurnReturns(c)
  PROVE  TurnInv'
<1> DEFINE r == IF c.outcome = "ok" THEN hub ELSE Unconfirmed(hub)
           bu == r.bundling /\ c.kind # "fresh"
           di == r.dispatching /\ c.kind # "deferred"
<1>1. /\ Continue(c) /\ Closes(c) /\ UNCHANGED <<toHub, toWorker, worker, link, origin>> /\ c.kind \in TurnKinds
      /\ hub' = [r EXCEPT !.bundling = bu, !.dispatching = di]
      /\ stored' = IF c.outcome = "ok" THEN stored ELSE "idle"
  BY DEF TurnReturns
<1>2. Types /\ hub \in HubStates /\ c \in CallSet
  BY DEF CallInv, Types
<1>3. calls' \subseteq calls
  BY <1>1, ClosedCalls
<1>4. CASE c.outcome = "ok"
  <2>1. /\ hub'.busy = hub.busy /\ hub'.status = hub.status /\ hub'.opTurn = hub.opTurn /\ hub'.fresh = hub.fresh
        /\ stored' = stored
    <3> HIDE DEF bu, di
    <3>1. QED BY <1>1, <1>2, <1>4 DEF HubStates
  <2>2. \A d \in calls' : d \in calls
    BY <1>3
  <2>3. /\ AttachRuns' => AttachRuns
        /\ \A q \in DOMAIN toWorker' : q \in DOMAIN toWorker /\ toWorker'[q] = toWorker[q]
    BY <1>1, <1>2, <2>2, SameCommands
  <2>4. QED BY <1>1, <2>1, <2>2, <2>3, TurnSame
<1>5. CASE c.outcome # "ok"
  BY <1>1, <1>2, <1>3, <1>5, ClosedCalls, CallTyped, EmptyChannels, TurnOver DEF TurnInv, TurnsFail, CallInv,
     Down, Coming
<1>6. QED BY <1>4, <1>5

LEMMA TurnConfers ==
  ASSUME CallInv, TurnInv, Types', NEW c \in calls, Confers(c)
  PROVE  TurnInv'
<1>1. /\ Continue(c) /\ Closes(c) /\ UNCHANGED <<toHub, toWorker, worker, link, stored>>
      /\ c.kind = "confer" /\ c.outcome = "ok"
      /\ hub' = [hub EXCEPT !.busTurn = FALSE, !.opTurn = TRUE]
  BY DEF Confers
<1>2. Types /\ hub \in HubStates
  BY DEF CallInv, Types
<1>3. ~Tainted
  BY <1>1 DEF TurnInv, Earned, Accepted, Tainted, Coming
<1>4. hub'.busy = hub.busy /\ hub'.status = hub.status /\ hub'.fresh = hub.fresh
  BY <1>1, <1>2 DEF HubStates
<1>5. \A d \in calls' : d \in calls
  BY <1>1, ClosedCalls
<1>6. /\ AttachRuns' => AttachRuns
      /\ \A q \in DOMAIN toWorker' : q \in DOMAIN toWorker /\ toWorker'[q] = toWorker[q]
  BY <1>1, <1>2, <1>5, SameCommands
<1>7. ~Rest => ~Rest'
  BY <1>4 DEF Rest
<1>8. hub'.status = "active" /\ (worker.on \/ Coming) => stored' = "active"
  BY <1>1, <1>4 DEF TurnInv, StoredToo
<1>9. QED BY <1>1, <1>3, <1>4, <1>5, <1>6, <1>7, <1>8, TurnQuiet

LEMMA TurnContinue ==
  ASSUME CallInv, TurnInv, Types', NEW c \in calls,
         StaysQueued(c) \/ KeptReturns(c) \/ AttachFails(c) \/ MailTaken(c)
  PROVE  TurnInv'
<1>1. Types /\ hub \in HubStates
  BY DEF CallInv, Types
<1>2. Continue(c) /\ Closes(c) /\ UNCHANGED <<toHub, toWorker, worker, link, stored, origin>>
  BY DEF StaysQueued, KeptReturns, AttachFails, MailTaken, durable
<1>3. hub'.busy = hub.busy /\ hub'.status = hub.status /\ hub'.opTurn = hub.opTurn /\ hub'.fresh = hub.fresh
  <2>1. CASE MailTaken(c)
    BY <1>1, <2>1, SteerEndsFields DEF MailTaken
  <2>2. CASE StaysQueued(c) \/ KeptReturns(c) \/ AttachFails(c)
    BY <1>1, <2>2 DEF StaysQueued, KeptReturns, AttachFails, HubStates
  <2>3. QED BY <2>1, <2>2
<1>4. \A d \in calls' : d \in calls
  BY <1>2, ClosedCalls
<1>5. /\ AttachRuns' => AttachRuns
      /\ \A q \in DOMAIN toWorker' : q \in DOMAIN toWorker /\ toWorker'[q] = toWorker[q]
  BY <1>1, <1>2, <1>4, SameCommands
<1>6. QED BY <1>2, <1>3, <1>4, <1>5, TurnSame

LEMMA TurnMailRefused ==
  ASSUME CallInv, TurnInv, Types', NEW c \in calls, MailRefused(c)
  PROVE  TurnInv'
<1>1. Types /\ hub \in HubStates
  BY DEF CallInv, Types
<1>2. Continue(c) /\ UNCHANGED <<toHub, worker, link, stored, origin>> /\ c.kind = "mail"
  BY DEF MailRefused, durable
<1>3. CASE link
  <2>1. Asks(c, "recheck") /\ hub' = [hub EXCEPT !.fresh = hub.fresh \cup {"recheck"}]
    BY <1>3 DEF MailRefused
  <2>2. hub'.busy = hub.busy /\ hub'.status = hub.status /\ hub'.opTurn = hub.opTurn
    BY <1>1, <2>1 DEF HubStates
  <2>3. \A d \in calls : d.kind # "recheck"
    BY <1>2, KindFacts DEF CallInv, Chains
  <2>4. "recheck" \in Kinds /\ "recheck" \notin TurnKinds /\ "recheck" # "first" /\ "recheck" \notin AttachKinds
    BY KindFacts
  <2>5. /\ AttachRuns' => AttachRuns
        /\ \A q \in DOMAIN toWorker' :
             \/ q \in DOMAIN toWorker /\ toWorker'[q] = toWorker[q]
             \/ q > Len(toWorker) /\ ~DoesTurn(toWorker'[q])
        /\ \A d \in calls' : d \in calls \/ (d.kind \notin TurnKinds \cup {"first"} /\ d.outcome # "ok")
    BY <1>1, <1>2, <2>1, <2>4, AsksQuiet
  <2>6. QED BY <1>2, <2>2, <2>3, <2>5, TurnSame
<1>4. CASE ~link
  <2>1. Closes(c) /\ hub' = SteerEnds(hub, FALSE, box) /\ UNCHANGED toWorker
    BY <1>4 DEF MailRefused
  <2>2. hub'.busy = hub.busy /\ hub'.status = hub.status /\ hub'.opTurn = hub.opTurn /\ hub'.fresh = hub.fresh
    BY <1>1, <2>1, SteerEndsFields
  <2>3. \A d \in calls' : d \in calls
    BY <1>2, <2>1, ClosedCalls
  <2>4. /\ AttachRuns' => AttachRuns
        /\ \A q \in DOMAIN toWorker' : q \in DOMAIN toWorker /\ toWorker'[q] = toWorker[q]
    BY <1>1, <1>2, <2>1, <2>3, SameCommands
  <2>5. QED BY <1>2, <2>1, <2>2, <2>3, <2>4, TurnSame
<1>5. QED BY <1>3, <1>4

LEMMA TurnRechecked ==
  ASSUME CallInv, TurnInv, Types', NEW c \in calls, Rechecked(c)
  PROVE  TurnInv'
<1> DEFINE r == IF c.outcome = "ok" THEN Repaired(hub, c) ELSE hub
           idle == c.outcome = "ok" /\ c.held /\ ~c.on /\ hub.status = "active"
<1>1. Types /\ hub \in HubStates
  BY DEF CallInv, Types
<1>2. /\ Continue(c) /\ Closes(c) /\ c.kind = "recheck" /\ c \in CallSet
      /\ UNCHANGED <<toHub, toWorker, worker, link, origin>>
      /\ stored' = IF idle THEN "idle" ELSE stored
      /\ hub'.status = (IF idle THEN "idle" ELSE hub.status)
      /\ hub'.busy = r.busy /\ hub'.fresh = r.fresh
      /\ hub'.opTurn => hub.opTurn
      /\ c.outcome # "ok" => hub'.opTurn = hub.opTurn
  BY <1>1, RecheckedStep
<1>3. \A d \in calls' : d \in calls
  BY <1>2, ClosedCalls
<1>4. /\ AttachRuns' => AttachRuns
      /\ \A q \in DOMAIN toWorker' : q \in DOMAIN toWorker /\ toWorker'[q] = toWorker[q]
  BY <1>1, <1>2, <1>3, SameCommands
<1>5. CASE c.outcome # "ok"
  BY <1>2, <1>3, <1>4, <1>5, TurnSame
<1>6. CASE c.outcome = "ok" /\ ~After(0)
  BY <1>1, <1>2, <1>3, <1>4, <1>6, NotAfter, TurnOver
<1>7. CASE c.outcome = "ok" /\ (After(0) \/ ~Idle(c)) /\ (Idle(c) => After(0))
  <2>1. /\ hub.busy => hub'.busy
        /\ "recheck" \in hub'.fresh => "recheck" \in hub.fresh
        /\ Idle(c) => hub'.busy
        /\ ~Idle(c) => hub'.status = hub.status /\ stored' = stored
    <3>1. hub.busy \in BOOLEAN /\ hub.fresh \in SUBSET ListKinds
      BY <1>1, HubFields
    <3>2. CASE Idle(c)
      <4>1. SaidIdle(c)
        BY <1>2, <1>7, <3>2 DEF SaidIdle, ListKinds
      <4>2. hub.busy /\ "recheck" \notin hub.fresh
        BY <1>7, <3>2, <4>1 DEF TurnInv, ListSaid, Outdated
      <4>3. r = hub
        BY <1>2, <1>7, <4>2 DEF Repaired
      <4>4. QED BY <1>2, <3>2, <4>2, <4>3
    <3>3. CASE ~Idle(c)
      <4>1. c.held /\ c.on
        BY <3>3 DEF Idle
      <4>2. r = Repaired(hub, c)
        BY <1>7
      <4>3. (r.busy = hub.busy \/ r.busy = TRUE) /\ (r.fresh = hub.fresh \/ r.fresh = {})
        BY <1>1, <1>2, <4>1, <4>2, RepairedFields
      <4>4. ~idle
        BY <4>1
      <4> HIDE DEF r, idle
      <4>5. QED BY <1>2, <3>1, <3>3, <4>3, <4>4
    <3>4. QED BY <3>2, <3>3
  <2>2. ~Rest => ~Rest'
    BY <2>1 DEF Rest
  <2>3. hub'.status = "active" /\ (worker.on \/ Coming) => stored' = "active"
    BY <1>2 DEF TurnInv, StoredToo
  <2>4. link /\ \A d \in calls' : d.kind # "first"
    BY <1>2, <1>3, <1>7, KindFacts DEF CallInv, Down, Chains, AttachRuns
  <2>5. QED BY <1>2, <1>3, <1>4, <2>1, <2>2, <2>3, <2>4, TurnQuiet
<1>8. QED BY <1>5, <1>6, <1>7

\* What attachWorker() is told is true: nothing can have started a turn since it asked.
LEMMA ListsTrue ==
  ASSUME CallInv, TurnInv, NEW c \in calls, c.kind \in {"first", "second"}, c.outcome = "ok", Idle(c)
  PROVE  ~worker.on /\ ~Coming /\ \A j \in DOMAIN toHub : ~Trace(toHub[j])
BY NotAfter DEF SaidIdle, ListKinds, TurnInv, ListSaid, Outdated, CallInv

LEMMA TurnAttachFirst ==
  ASSUME CallInv, TurnInv, Types', NEW c \in calls, AttachFirst(c)
  PROVE  TurnInv'
<1> DEFINE r == Repaired(hub, c)
<1>1. Types /\ Down /\ hub \in HubStates
  BY DEF CallInv, Types
<1>2. /\ c.kind = "first" /\ c.outcome = "ok" /\ c \in CallSet /\ link
      /\ UNCHANGED <<origin, worker, link, toHub>>
      /\ hub'.busy = r.busy
      /\ "recheck" \in hub'.fresh => "recheck" \in hub.fresh
      /\ \/ ~c.held /\ Asks(c, "second") /\ hub'.status = hub.status /\ hub'.opTurn = hub.opTurn
            /\ stored' = stored
         \/ c.held /\ c.on /\ Asks(c, "attach") /\ hub'.status = "active" /\ stored' = stored
            /\ hub'.opTurn = (hub.opTurn \/ origin = "operator")
         \/ c.held /\ ~c.on /\ Asks(c, "attach") /\ hub'.status = "idle" /\ stored' = "idle"
            /\ hub'.opTurn = FALSE
  BY <1>1, AttachFirstStep
<1>3. /\ c.kind \in AttachKinds
      /\ \A k \in {"second", "attach"} : k \in Kinds /\ k \notin TurnKinds /\ k # "first"
  BY <1>2, KindFacts
<1>4. PICK k \in {"second", "attach"} : Asks(c, k)
  BY <1>2
<1>5. /\ AttachRuns' => AttachRuns
      /\ \A q \in DOMAIN toWorker' :
           \/ q \in DOMAIN toWorker /\ toWorker'[q] = toWorker[q]
           \/ q > Len(toWorker) /\ ~DoesTurn(toWorker'[q])
      /\ \A d \in calls' : d \in calls \/ (d.kind \notin TurnKinds \cup {"first"} /\ d.outcome # "ok")
      /\ \A d \in calls' : d.kind = k \/ d \in calls \ {c}
  BY <1>1, <1>2, <1>3, <1>4, AsksQuiet
<1>6. CASE Idle(c)
  BY <1>2, <1>5, <1>6, ListsTrue, TurnOver
<1>7. CASE ~Idle(c)
  <2>1. c.held /\ c.on
    BY <1>7 DEF Idle
  <2>2. /\ hub'.status = "active" /\ stored' = stored
        /\ hub'.opTurn = (hub.opTurn \/ origin = "operator")
    BY <1>2, <2>1
  <2>3. hub.busy => hub'.busy
    <3>1. r.busy = hub.busy \/ r.busy = TRUE
      BY <1>1, <1>2, <2>1, RepairedFields
    <3> HIDE DEF r
    <3>2. QED BY <1>2, <3>1
  <2>4. ~Coming
    BY <1>3 DEF Coming, TurnInv, OneTurn, AttachRuns
  <2>5. worker.on => stored = "active"
    BY <1>2 DEF TurnInv, Lost, StoredToo
  <2>6. \A d \in calls' : d.kind # "first"
    BY <1>2, <1>3, <1>4, <1>5 DEF CallInv, Chains
  <2>7. ~Rest => ~Rest'
    BY <2>2 DEF Rest
  <2>8. hub'.opTurn => hub.opTurn \/ ~Tainted
    BY <2>2 DEF TurnInv, Authority
  <2>9. QED BY <1>2, <1>5, <2>2, <2>3, <2>4, <2>5, <2>6, <2>7, <2>8, TurnQuiet
<1>8. QED BY <1>6, <1>7

LEMMA TurnAttachReplayed ==
  ASSUME CallInv, TurnInv, Types', NEW c \in calls, AttachReplayed(c)
  PROVE  TurnInv'
<1>1. Types /\ hub \in HubStates
  BY DEF CallInv, Types
<1>2. /\ c.kind = "attach" /\ Asks(c, "second") /\ UNCHANGED <<toHub, worker, link, stored, origin>>
      /\ hub' = [hub EXCEPT !.fresh = hub.fresh \cup {"second"}]
  BY DEF AttachReplayed, durable
<1>3. /\ hub'.busy = hub.busy /\ hub'.status = hub.status /\ hub'.opTurn = hub.opTurn
      /\ "recheck" \in hub'.fresh => "recheck" \in hub.fresh
  BY <1>1, <1>2 DEF HubStates
<1>4. "second" \in Kinds /\ "second" \notin TurnKinds /\ "second" # "first" /\ c.kind \in AttachKinds
  BY <1>2, KindFacts
<1>5. /\ AttachRuns' => AttachRuns
      /\ \A q \in DOMAIN toWorker' :
           \/ q \in DOMAIN toWorker /\ toWorker'[q] = toWorker[q]
           \/ q > Len(toWorker) /\ ~DoesTurn(toWorker'[q])
      /\ \A d \in calls' : d \in calls \/ (d.kind \notin TurnKinds \cup {"first"} /\ d.outcome # "ok")
  BY <1>1, <1>2, <1>4, AsksQuiet
<1>6. QED BY <1>2, <1>3, <1>5, TurnSame

LEMMA TurnAttachSecond ==
  ASSUME CallInv, TurnInv, Types', NEW c \in calls, AttachSecond(c)
  PROVE  TurnInv'
<1> DEFINE r == Repaired(hub, c)
           stale == ~c.held /\ hub.status = "active"
<1>1. Types /\ Down /\ hub \in HubStates
  BY DEF CallInv, Types
<1>2. /\ Continue(c) /\ Closes(c) /\ c.kind = "second" /\ c.outcome = "ok" /\ c \in CallSet
      /\ UNCHANGED <<toHub, toWorker, worker, link, origin>>
      /\ stored' = IF stale THEN "idle" ELSE stored
      /\ hub'.status = (IF stale THEN "idle" ELSE hub.status)
      /\ hub'.busy = r.busy /\ hub'.fresh = r.fresh
      /\ hub'.opTurn => hub.opTurn
  BY <1>1, AttachSecondStep
<1>3. \A d \in calls' : d \in calls
  BY <1>2, ClosedCalls
<1>4. /\ AttachRuns' => AttachRuns
      /\ \A q \in DOMAIN toWorker' : q \in DOMAIN toWorker /\ toWorker'[q] = toWorker[q]
  BY <1>1, <1>2, <1>3, SameCommands
<1>5. CASE Idle(c)
  BY <1>2, <1>3, <1>4, <1>5, ListsTrue, TurnOver
<1>6. CASE ~Idle(c)
  <2>1. c.held /\ c.on
    BY <1>6 DEF Idle
  <2>2. (r.busy = hub.busy \/ r.busy = TRUE) /\ (r.fresh = hub.fresh \/ r.fresh = {})
    BY <1>1, <1>2, <2>1, RepairedFields
  <2>3. hub'.status = hub.status /\ stored' = stored
    BY <1>2, <2>1
  <2> HIDE DEF r, stale
  <2>4. (hub.busy => hub'.busy) /\ ("recheck" \in hub'.fresh => "recheck" \in hub.fresh)
    BY <1>2, <2>2
  <2>5. ~Rest => ~Rest'
    BY <2>3, <2>4 DEF Rest
  <2>6. hub'.status = "active" /\ (worker.on \/ Coming) => stored' = "active"
    BY <2>3 DEF TurnInv, StoredToo
  <2>7. QED BY <1>2, <1>3, <1>4, <2>3, <2>4, <2>5, <2>6, TurnQuiet
<1>7. QED BY <1>5, <1>6

\* A frame is read: what holds of the frames behind it moves up by one.
LEMMA ReadMoves ==
  ASSUME Types, Types', NEW k, Reads(k)
  PROVE  /\ \A j \in DOMAIN toHub' : j \in Nat \ {0} /\ j + 1 \in DOMAIN toHub /\ toHub'[j] = toHub[j + 1]
         /\ \A j \in DOMAIN toHub : j \in Nat \ {0} /\ (j # 1 => j - 1 \in DOMAIN toHub' /\ toHub'[j - 1] = toHub[j])
         /\ \A i, j \in Nat : NoMarks(i, j)' <=> NoMarks(i + 1, j + 1)
         /\ \A i \in Nat : NoMarks(i, Len(toHub) + 1)' <=> NoMarks(i + 1, Len(toHub) + 1)
         /\ \A i \in Nat : After(i)' => worker'.on \/ Coming' \/ \E j \in DOMAIN toHub : j > i + 1 /\ Trace(toHub[j])
         /\ 1 \in DOMAIN toHub /\ toHub[1].t = k /\ toHub[1] \in HubFrames /\ link
<1>1. /\ DOMAIN toHub = 1 .. Len(toHub) /\ Len(toHub) \in Nat \ {0} /\ Len(toHub') = Len(toHub) - 1
      /\ DOMAIN toHub' = 1 .. Len(toHub) - 1
      /\ \A i \in 1 .. Len(toHub) - 1 : toHub'[i] = toHub[i + 1]
      /\ 1 \in DOMAIN toHub /\ toHub[1].t = k /\ toHub[1] \in HubFrames /\ link
  BY ReadsElements
<1>2. \A j \in DOMAIN toHub' : j \in Nat \ {0} /\ j + 1 \in DOMAIN toHub /\ toHub'[j] = toHub[j + 1]
  BY <1>1
<1>3. \A j \in DOMAIN toHub : j \in Nat \ {0} /\ (j # 1 => j - 1 \in DOMAIN toHub' /\ toHub'[j - 1] = toHub[j])
  BY <1>1
<1>4. ASSUME NEW i \in Nat, NEW j \in Nat
      PROVE  NoMarks(i, j)' <=> NoMarks(i + 1, j + 1)
  <2>1. ASSUME NoMarks(i, j)', NEW x \in DOMAIN toHub, i + 1 < x, x < j + 1
        PROVE  ~IsMark(toHub[x])
    BY <1>3, <2>1 DEF NoMarks
  <2>2. ASSUME NoMarks(i + 1, j + 1), NEW x \in DOMAIN toHub', i < x, x < j
        PROVE  ~IsMark(toHub'[x])
    BY <1>2, <2>2 DEF NoMarks
  <2>3. QED BY <2>1, <2>2 DEF NoMarks
<1>5. ASSUME NEW i \in Nat
      PROVE  NoMarks(i, Len(toHub) + 1)' <=> NoMarks(i + 1, Len(toHub) + 1)
  <2>1. NoMarks(i, Len(toHub) + 1)' <=> \A x \in DOMAIN toHub' : i < x /\ x < Len(toHub) => ~IsMark(toHub'[x])
    BY <1>1 DEF NoMarks
  <2>2. QED
    BY <1>1, <1>4, <2>1 DEF NoMarks
<1>6. ASSUME NEW i \in Nat, After(i)'
      PROVE  worker'.on \/ Coming' \/ \E j \in DOMAIN toHub : j > i + 1 /\ Trace(toHub[j])
  <2>1. worker'.on \/ Coming' \/ \E x \in DOMAIN toHub' : x > i /\ Trace(toHub'[x])
    BY <1>6 DEF After
  <2>2. ASSUME NEW x \in DOMAIN toHub', x > i, Trace(toHub'[x])
        PROVE  \E j \in DOMAIN toHub : j > i + 1 /\ Trace(toHub[j])
    BY <1>2, <2>2
  <2>3. QED BY <2>1, <2>2
<1>7. QED BY <1>1, <1>2, <1>3, <1>4, <1>5, <1>6

LEMMA TurnHubReply ==
  ASSUME CallInv, TurnInv, Types', HubReply
  PROVE  TurnInv'
<1> DEFINE m == toHub[1]
           c == m.call
<1>1. Types /\ FramesFit
  BY DEF CallInv
<1>2. /\ \E k \in {"ack", "live"} : Reads(k) /\ m.t = k
      /\ c \in CallSet
      /\ UNCHANGED <<stored, origin, hub, toWorker, worker, link>>
      /\ \/ c \notin calls \ Settled /\ calls' = calls
         \/ /\ c \in calls /\ c.outcome = "sent"
            /\ \E d \in CallSet :
                 /\ calls' = (calls \ {c}) \cup {d}
                 /\ d.kind = c.kind /\ d.outcome # "sent"
                 /\ m.t = "live" => d.outcome = "ok" /\ d.held = m.held /\ d.on = m.on
                 /\ m.t = "ack" => d.outcome = IF m.ok THEN "ok" ELSE "fail"
  BY <1>1, ReplyStep
<1>3. PICK k \in {"ack", "live"} : Reads(k) /\ m.t = k
  BY <1>2
<1>4. /\ \A j \in DOMAIN toHub' : j \in Nat \ {0} /\ j + 1 \in DOMAIN toHub /\ toHub'[j] = toHub[j + 1]
      /\ \A j \in DOMAIN toHub : j \in Nat \ {0} /\ (j # 1 => j - 1 \in DOMAIN toHub' /\ toHub'[j - 1] = toHub[j])
      /\ \A i, j \in Nat : NoMarks(i, j)' <=> NoMarks(i + 1, j + 1)
      /\ \A i \in Nat : NoMarks(i, Len(toHub) + 1)' <=> NoMarks(i + 1, Len(toHub) + 1)
      /\ \A i \in Nat : After(i)' => worker'.on \/ Coming' \/ \E j \in DOMAIN toHub : j > i + 1 /\ Trace(toHub[j])
      /\ 1 \in DOMAIN toHub /\ link
  BY <1>1, <1>3, ReadMoves
<1>5. ~IsMark(m) /\ Coming' = Coming
  BY <1>2, <1>3 DEF IsMark, Coming
<1>6. HubFrameFits(m)
  BY <1>1, <1>4 DEF FramesFit
<1>7. \A d \in calls' \ calls : /\ c \in calls /\ c.outcome = "sent" /\ d.kind = c.kind
                                /\ m.t = "live" => d.outcome = "ok" /\ d.held = m.held /\ d.on = m.on
                                /\ m.t = "ack" => d.outcome = IF m.ok THEN "ok" ELSE "fail"
  BY <1>2
<1> HIDE DEF c, m
<1>8. \A n \in Nat : NoMarks(0, n) <=> NoMarks(1, n)
  BY <1>4, <1>5 DEF NoMarks, m
<1>9. MarksTrue'
  <2> SUFFICES ASSUME NEW j \in DOMAIN toHub', IsMark(toHub'[j]), NoMarks(j, Len(toHub) + 1)'
               PROVE  toHub'[j].kind = "started" <=> worker.on
    BY <1>2 DEF MarksTrue
  <2>1. j \in Nat /\ j + 1 \in DOMAIN toHub /\ toHub'[j] = toHub[j + 1] /\ NoMarks(j + 1, Len(toHub) + 1)
    BY <1>4
  <2>2. QED BY <2>1 DEF TurnInv, MarksTrue
<1>10. RingTrue'
  BY <1>2 DEF TurnInv, RingTrue
<1>11. AttachRuns' => AttachRuns
  BY <1>2, <1>4, <1>7 DEF AttachRuns
<1>12. OneTurn'
  BY <1>2, <1>4, <1>11 DEF OneTurn, TurnInv
<1>13. FirstStart'
  <2> SUFFICES ASSUME NEW j \in DOMAIN toHub', Starts(toHub'[j])
               PROVE  hub.busy /\ ~AttachRuns' /\ \A i \in DOMAIN toHub' : i < j => ~Trace(toHub'[i])
    BY <1>2 DEF FirstStart
  <2>1. j \in Nat /\ j + 1 \in DOMAIN toHub /\ Starts(toHub[j + 1])
    BY <1>4
  <2>2. hub.busy /\ ~AttachRuns /\ \A i \in DOMAIN toHub : i < j + 1 => ~Trace(toHub[i])
    BY <2>1 DEF TurnInv, FirstStart
  <2>3. ASSUME NEW i \in DOMAIN toHub', i < j
        PROVE  ~Trace(toHub'[i])
    BY <1>4, <2>1, <2>2, <2>3
  <2>4. QED BY <1>11, <2>2, <2>3
<1>14. Evidence'
  <2> SUFFICES ASSUME NEW j \in DOMAIN toHub', Witness(toHub'[j])
               PROVE  \/ \E i \in DOMAIN toHub' : i < j /\ IsMark(toHub'[i]) /\ toHub'[i].kind = "started" /\ NoMarks(i, j)'
                      \/ NoMarks(0, j)' /\ ~Rest
    BY <1>2 DEF Evidence, Rest
  <2>1. j \in Nat /\ j + 1 \in DOMAIN toHub /\ Witness(toHub[j + 1])
    BY <1>4
  <2>2. \/ \E i \in DOMAIN toHub : i < j + 1 /\ IsMark(toHub[i]) /\ toHub[i].kind = "started" /\ NoMarks(i, j + 1)
        \/ NoMarks(0, j + 1) /\ ~Rest
    BY <2>1 DEF TurnInv, Evidence
  <2>3. ASSUME NEW i \in DOMAIN toHub, i < j + 1, IsMark(toHub[i]), toHub[i].kind = "started", NoMarks(i, j + 1)
        PROVE  \E x \in DOMAIN toHub' : x < j /\ IsMark(toHub'[x]) /\ toHub'[x].kind = "started" /\ NoMarks(x, j)'
    <3>1. i # 1
      BY <1>5, <2>3 DEF m
    <3>2. i - 1 \in DOMAIN toHub' /\ toHub'[i - 1] = toHub[i] /\ i - 1 \in Nat /\ i - 1 < j /\ (i - 1) + 1 = i
      <4>1. i \in Nat \ {0} /\ i - 1 \in DOMAIN toHub' /\ toHub'[i - 1] = toHub[i]
        BY <1>4, <3>1
      <4>2. j \in Nat
        BY <2>1
      <4>3. QED BY <2>3, <4>1, <4>2
    <3>3. NoMarks(i - 1, j)' <=> NoMarks((i - 1) + 1, j + 1)
      BY <1>4, <2>1, <3>2
    <3>4. NoMarks(i - 1, j)'
      BY <2>3, <3>2, <3>3
    <3>5. QED BY <2>3, <3>2, <3>4
  <2>4. ASSUME NoMarks(0, j + 1), ~Rest
        PROVE  NoMarks(0, j)' /\ ~Rest
    <3>1. NoMarks(0, j)' <=> NoMarks(0 + 1, j + 1)
      BY <1>4, <2>1
    <3>2. j + 1 \in Nat /\ 0 + 1 = 1
      BY <2>1
    <3>3. QED BY <1>8, <2>4, <3>1, <3>2
  <2>5. QED BY <2>2, <2>3, <2>4
<1>15. NoMarks(0, Len(toHub) + 1)' <=> NoMarks(0, Len(toHub) + 1)
  <2>1. Len(toHub) \in Nat
    BY <1>1, TypesConsequences
  <2>2. NoMarks(0, Len(toHub) + 1)' <=> NoMarks(1, Len(toHub) + 1)
    BY <1>4
  <2>3. QED BY <1>8, <2>1, <2>2
<1>16. Knows' /\ StoredToo'
  BY <1>2, <1>5, <1>15 DEF TurnInv, Knows, StoredToo, Rest
<1>17. Lost'
  BY <1>2, <1>7, <1>15 DEF TurnInv, Lost
<1>18. ListAhead'
  BY <1>2 DEF TurnInv, ListAhead, Outdated
<1>19. ListSays'
  <2> SUFFICES ASSUME NEW j \in DOMAIN toHub', SaysIdle(toHub'[j]), After(j)'
               PROVE  hub.busy /\ toHub'[j].call.kind = "recheck" /\ "recheck" \notin hub.fresh /\ NoMarks(0, j)'
    BY <1>2 DEF ListSays, Outdated
  <2>1. j \in Nat /\ j + 1 \in DOMAIN toHub /\ toHub'[j] = toHub[j + 1]
    BY <1>4
  <2>2. After(j + 1)
    BY <1>2, <1>4, <1>5, <2>1 DEF After
  <2>3. Outdated(toHub[j + 1].call) /\ NoMarks(0, j + 1)
    BY <2>1, <2>2 DEF TurnInv, ListSays
  <2>4. NoMarks(0, j)'
    BY <1>4, <1>8, <2>1, <2>3
  <2>5. QED BY <2>1, <2>3, <2>4 DEF Outdated
<1>20. ListSaid'
  <2> SUFFICES ASSUME NEW d \in calls', SaidIdle(d), After(0)'
               PROVE  Outdated(d)
    BY <1>2 DEF ListSaid, Outdated
  <2>1. worker.on \/ Coming \/ \E j \in DOMAIN toHub : j > 1 /\ Trace(toHub[j])
    BY <1>2, <1>4, <1>5
  <2>2. After(1) /\ After(0)
    <3>1. \A j \in DOMAIN toHub : j > 1 => j > 0
      BY <1>4
    <3>2. QED BY <2>1, <3>1 DEF After
  <2>3. CASE d \in calls
    BY <2>2, <2>3 DEF TurnInv, ListSaid
  <2>4. CASE d \notin calls
    BY <1>3, <1>4, <1>6, <1>7, <2>2, <2>4 DEF SaidIdle, HubFrameFits, c, SaysIdle, Idle, TurnInv, ListSays,
       m, Outdated
  <2>5. QED BY <2>3, <2>4
<1>21. TurnsFail'
  <2> SUFFICES ASSUME NEW d \in calls', d.kind \in TurnKinds, d.outcome = "fail"
               PROVE  ~link /\ ~worker.on
    BY <1>2 DEF TurnsFail
  <2>1. CASE d \in calls
    BY <2>1 DEF TurnInv, TurnsFail
  <2>2. CASE d \notin calls
    BY <1>3, <1>6, <1>7, <2>2 DEF HubFrameFits, c
  <2>3. QED BY <2>1, <2>2
<1>22. Authority'
  BY <1>2 DEF TurnInv, Authority, Tainted
<1>23. Accepted' => Accepted
  <2>1. (\E j \in DOMAIN toHub' : TakenConfer(toHub'[j])) => \E j \in DOMAIN toHub : TakenConfer(toHub[j])
    BY <1>4
  <2>2. ASSUME NEW d \in calls', d.kind = "confer", d.outcome = "ok", d \notin calls
        PROVE  TakenConfer(toHub[1])
    BY <1>3, <1>6, <1>7, <2>2, KindFacts DEF HubFrameFits, c, TakenConfer, m
  <2>3. QED BY <1>4, <2>1, <2>2 DEF Accepted
<1>24. Earned'
  BY <1>2, <1>5, <1>23 DEF TurnInv, Earned
<1>25. QED
  BY <1>9, <1>10, <1>12, <1>13, <1>14, <1>16, <1>17, <1>18, <1>19, <1>20, <1>21, <1>22, <1>24 DEF TurnInv

\* What a marker at the head excludes.
LEMMA MarkAhead ==
  ASSUME CallInv, TurnInv, 1 \in DOMAIN toHub, IsMark(toHub[1]), link
  PROVE  /\ ~Coming
         /\ \A j \in DOMAIN toHub : j > 1 => ~Starts(toHub[j])
         /\ \A j \in DOMAIN toHub : j > 1 => ~NoMarks(0, j)
         /\ ~NoMarks(0, Len(toHub) + 1)
         /\ \A c \in calls : c.kind = "first" => ~worker.on
         /\ After(0)
<1>1. Trace(toHub[1]) /\ DOMAIN toHub = 1 .. Len(toHub) /\ Len(toHub) \in Nat
  BY DEF Trace, CallInv, Types
<1>2. ~Coming
  BY <1>1 DEF TurnInv, OneTurn, Coming
<1>3. \A j \in DOMAIN toHub : j > 1 => ~Starts(toHub[j])
  BY <1>1 DEF TurnInv, FirstStart
<1>4. \A j \in DOMAIN toHub : j > 1 => ~NoMarks(0, j)
  BY DEF NoMarks
<1>5. ~NoMarks(0, Len(toHub) + 1)
  BY <1>1 DEF NoMarks
<1>6. \A c \in calls : c.kind = "first" => ~worker.on
  BY <1>5 DEF TurnInv, Lost
<1>7. After(0)
  BY <1>1 DEF After
<1>8. QED BY <1>2, <1>3, <1>4, <1>5, <1>6, <1>7

\* The end of a turn is the last that the hub is told of it, if it was told before that no
\* turn runs.
LEMMA EndAhead ==
  ASSUME CallInv, TurnInv, 1 \in DOMAIN toHub, IsMark(toHub[1]), toHub[1].kind # "started", link,
         ~AttachRuns
  PROVE  ~worker.on /\ \A j \in DOMAIN toHub : j > 1 => ~Trace(toHub[j])
<1>1. /\ \A j \in DOMAIN toHub : j > 1 => ~Starts(toHub[j])
      /\ \A j \in DOMAIN toHub : j > 1 => ~NoMarks(0, j)
  BY MarkAhead
<1>2. \A j \in DOMAIN toHub : IsMark(toHub[j]) => LiveMark(toHub[j])
  BY DEF AttachRuns, IsMark, LiveMark
<1>3. \A j \in DOMAIN toHub : j > 1 => ~Witness(toHub[j])
  <2> SUFFICES ASSUME NEW j \in DOMAIN toHub, j > 1, Witness(toHub[j])
               PROVE  FALSE
    OBVIOUS
  <2>1. PICK i \in DOMAIN toHub : i < j /\ IsMark(toHub[i]) /\ toHub[i].kind = "started"
    BY <1>1 DEF TurnInv, Evidence
  <2>2. Starts(toHub[i])
    BY <1>2, <2>1 DEF Starts
  <2>3. i > 1
    BY <2>1 DEF CallInv, Types
  <2>4. QED BY <1>1, <2>2, <2>3
<1>4. \A j \in DOMAIN toHub : j > 1 => ~Trace(toHub[j])
  BY <1>1, <1>2, <1>3 DEF Trace, Witness, Starts
<1>5. NoMarks(1, Len(toHub) + 1)
  BY <1>4 DEF NoMarks, Trace
<1>6. ~worker.on
  BY <1>5 DEF TurnInv, MarksTrue
<1>7. QED BY <1>4, <1>6

LEMMA TurnHubMark ==
  ASSUME CallInv, TurnInv, Types', HubMark
  PROVE  TurnInv'
<1> DEFINE m == toHub[1]
           s == MarkStatus(m.kind)
<1>1. Types /\ Types'
  BY DEF CallInv
<1>2. /\ Reads("mark") /\ m \in Marks /\ m.kind \in Turns
      /\ hub'.status = s /\ hub'.busy = (m.kind = "started") /\ hub'.fresh = {}
      /\ hub'.opTurn => hub.opTurn
      /\ stored' = s
      /\ UNCHANGED <<origin, calls, toWorker, worker, link>>
  BY <1>1, HubMarkStep
<1>3. /\ \A j \in DOMAIN toHub' : j \in Nat \ {0} /\ j + 1 \in DOMAIN toHub /\ toHub'[j] = toHub[j + 1]
      /\ \A j \in DOMAIN toHub : j \in Nat \ {0} /\ (j # 1 => j - 1 \in DOMAIN toHub' /\ toHub'[j - 1] = toHub[j])
      /\ \A i, j \in Nat : NoMarks(i, j)' <=> NoMarks(i + 1, j + 1)
      /\ \A i \in Nat : NoMarks(i, Len(toHub) + 1)' <=> NoMarks(i + 1, Len(toHub) + 1)
      /\ \A i \in Nat : After(i)' => worker'.on \/ Coming' \/ \E j \in DOMAIN toHub : j > i + 1 /\ Trace(toHub[j])
      /\ 1 \in DOMAIN toHub /\ toHub[1].t = "mark" /\ link
  BY <1>1, <1>2, ReadMoves
<1>4. IsMark(m) /\ (s = "active" <=> m.kind = "started")
  BY <1>2, <1>3 DEF IsMark, MarkStatus, Turns
<1>5. /\ ~Coming
      /\ \A j \in DOMAIN toHub : j > 1 => ~Starts(toHub[j])
      /\ \A j \in DOMAIN toHub : j > 1 => ~NoMarks(0, j)
      /\ \A c \in calls : c.kind = "first" => ~worker.on
      /\ After(0)
  BY <1>3, <1>4, MarkAhead
<1> HIDE DEF m, s
<1>6. \A j \in DOMAIN toHub' : j \in Nat \ {0} /\ j + 1 \in DOMAIN toHub /\ j + 1 > 1 /\ toHub'[j] = toHub[j + 1] /\ j + 1 \in Nat
  BY <1>3
<1>7. ~Coming' /\ OneTurn' /\ ListAhead'
  BY <1>2, <1>5 DEF Coming, OneTurn, ListAhead
<1>8. FirstStart'
  BY <1>5, <1>6 DEF FirstStart
<1>9. MarksTrue'
  <2> SUFFICES ASSUME NEW j \in DOMAIN toHub', IsMark(toHub'[j]), NoMarks(j, Len(toHub) + 1)'
               PROVE  toHub'[j].kind = "started" <=> worker.on
    BY <1>2 DEF MarksTrue
  <2>1. j \in Nat /\ j + 1 \in DOMAIN toHub /\ toHub'[j] = toHub[j + 1] /\ NoMarks(j + 1, Len(toHub) + 1)
    BY <1>3
  <2>2. QED BY <2>1 DEF TurnInv, MarksTrue
<1>10. RingTrue' /\ TurnsFail' /\ Authority'
  BY <1>2 DEF TurnInv, RingTrue, TurnsFail, Authority, Tainted
<1>11. Earned'
  BY <1>2, <1>5, <1>6, <1>7 DEF Accepted, TurnInv, Earned
<1>12. Lost'
  BY <1>2, <1>3, <1>5 DEF Lost
<1>13. StoredToo'
  BY <1>2 DEF StoredToo
<1>14. Knows'
  BY <1>2, <1>3, <1>4 DEF Knows, Rest, m, TurnInv, MarksTrue
<1>15. ListSays'
  BY <1>2, <1>3, <1>5, <1>6, <1>7 DEF ListSays, After, TurnInv
<1>16. Evidence'
  <2> SUFFICES ASSUME NEW j \in DOMAIN toHub', Witness(toHub'[j])
               PROVE  \/ \E i \in DOMAIN toHub' : i < j /\ IsMark(toHub'[i]) /\ toHub'[i].kind = "started" /\ NoMarks(i, j)'
                      \/ NoMarks(0, j)' /\ ~Rest'
    BY DEF Evidence
  <2>1. j \in Nat /\ j + 1 \in DOMAIN toHub /\ Witness(toHub[j + 1]) /\ j + 1 > 1
    BY <1>6
  <2>2. PICK i \in DOMAIN toHub : i < j + 1 /\ IsMark(toHub[i]) /\ toHub[i].kind = "started" /\ NoMarks(i, j + 1)
    BY <1>5, <2>1 DEF TurnInv, Evidence
  <2>3. CASE i = 1
    <3>1. m.kind = "started" /\ NoMarks(0 + 1, j + 1)
      BY <2>2, <2>3 DEF m
    <3>2. NoMarks(0, j)'
      BY <1>3, <2>1, <3>1
    <3>3. QED BY <1>2, <3>1, <3>2 DEF Rest
  <2>4. CASE i # 1
    <3>1. i \in Nat \ {0} /\ i - 1 \in DOMAIN toHub' /\ toHub'[i - 1] = toHub[i]
      BY <1>3, <2>4
    <3>2. i - 1 \in Nat /\ i - 1 < j /\ (i - 1) + 1 = i
      BY <2>1, <2>2, <3>1
    <3>3. NoMarks(i - 1, j)' <=> NoMarks((i - 1) + 1, j + 1)
      BY <1>3, <2>1, <3>2
    <3>4. NoMarks(i - 1, j)'
      BY <2>2, <3>2, <3>3
    <3>5. QED BY <2>2, <3>1, <3>2, <3>4
  <2>5. QED BY <2>3, <2>4
<1>17. ListSaid'
  <2> SUFFICES ASSUME NEW c \in calls, SaidIdle(c), After(0)'
               PROVE  m.kind = "started" /\ c.kind = "recheck"
    BY <1>2 DEF ListSaid, Outdated
  <2>1. c.kind = "recheck"
    BY <1>5 DEF TurnInv, ListSaid, Outdated
  <2>2. ~AttachRuns
    BY <2>1, KindFacts DEF CallInv, Chains
  <2>3. worker.on \/ \E j \in DOMAIN toHub : j > 1 /\ Trace(toHub[j])
    BY <1>2, <1>3, <1>7
  <2>4. m.kind = "started"
    BY <1>3, <1>4, <2>2, <2>3, EndAhead DEF m
  <2>5. QED BY <2>1, <2>4
<1>18. QED
  BY <1>7, <1>8, <1>9, <1>10, <1>11, <1>12, <1>13, <1>14, <1>15, <1>16, <1>17 DEF TurnInv

\* The worker handles a command, starts no turn by it and sends nothing that tells of one.
LEMMA TurnSends ==
  ASSUME CallInv, TurnInv, Types', NEW a \in Nat, UNCHANGED <<hub, calls, link, stored, origin>>,
         \A q \in DOMAIN toWorker' : q + a \in DOMAIN toWorker /\ toWorker[q + a] = toWorker'[q],
         worker'.on = worker.on, worker'.held = worker.held, worker'.active = worker.active,
         worker'.marks = worker.marks, worker.op => worker'.op,
         \A j \in DOMAIN toHub : j \in DOMAIN toHub' /\ toHub'[j] = toHub[j],
         \A j \in DOMAIN toHub' :
           \/ j \in DOMAIN toHub
           \/ /\ j > Len(toHub) /\ ~Trace(toHub'[j]) /\ ~TakenConfer(toHub'[j])
              /\ SaysIdle(toHub'[j]) /\ (worker.on \/ \E q \in DOMAIN toWorker' : DoesTurn(toWorker'[q])) =>
                   /\ hub'.busy /\ toHub'[j].call.kind = "recheck" /\ "recheck" \notin hub'.fresh
                   /\ \A i \in DOMAIN toHub : ~IsMark(toHub[i])
  PROVE  TurnInv'
<1>1. \A q \in DOMAIN toWorker' : q + a \in DOMAIN toWorker /\ Alike(toWorker'[q], toWorker[q + a])
  BY AlikeItself
<1>2. \A j \in DOMAIN toHub : j \in DOMAIN toHub' /\ Alike(toHub'[j], toHub[j])
  BY AlikeItself
<1>3. AttachRuns' => AttachRuns
  BY DEF AttachRuns, Trace
<1>4. ~Rest => ~Rest'
  BY DEF Rest
<1>5. hub'.status = "active" /\ (worker.on \/ Coming) => stored' = "active"
  BY DEF TurnInv, StoredToo
<1>6. (~link \/ \E c \in calls' : c.kind = "first") /\ worker.on =>
        hub'.status = "active" /\ NoMarks(0, Len(toHub) + 1)
  BY DEF TurnInv, Lost
<1>7. \A c \in calls' : c \in calls
  OBVIOUS
<1>8. QED BY <1>1, <1>2, <1>3, <1>4, <1>5, <1>6, <1>7, TurnKept

\* The frames of one acknowledgement that tells of no turn.
LEMMA AckFrames ==
  ASSUME Types, Types', NEW c \in CallSet, NEW b \in BOOLEAN, SendHub(<<Ack(c, b)>>),
         c.kind \notin SteerKinds \/ ~b
  PROVE  /\ \A j \in DOMAIN toHub : j \in DOMAIN toHub' /\ toHub'[j] = toHub[j]
         /\ \A j \in DOMAIN toHub' :
              \/ j \in DOMAIN toHub
              \/ /\ j > Len(toHub) /\ ~Trace(toHub'[j]) /\ ~TakenConfer(toHub'[j]) /\ ~SaysIdle(toHub'[j])
<1>1. /\ <<Ack(c, b)>> \in Seq(HubFrames) /\ Len(<<Ack(c, b)>>) = 1 /\ <<Ack(c, b)>>[1] = Ack(c, b)
  BY AckTyped
<1>2. Ack(c, b).t = "ack" /\ Ack(c, b).call = c /\ Ack(c, b).ok = b
  BY FrameFields
<1>3. ~Trace(Ack(c, b)) /\ ~TakenConfer(Ack(c, b)) /\ ~SaysIdle(Ack(c, b))
  BY <1>2 DEF Trace, IsMark, TakenSteer, TakenConfer, SaysIdle, SteerKinds
<1> DEFINE ms == <<Ack(c, b)>>
<1>4. ms \in Seq(HubFrames) /\ SendHub(ms) /\ Len(ms) = 1 /\ ms[1] = Ack(c, b)
  BY <1>1
<1> HIDE DEF ms
<1>5. /\ \A j \in DOMAIN toHub' :
           \/ j \in DOMAIN toHub /\ toHub'[j] = toHub[j]
           \/ link /\ \E i \in 1 .. Len(ms) : j = Len(toHub) + i /\ toHub'[j] = ms[i]
      /\ DOMAIN toHub \subseteq DOMAIN toHub'
      /\ \A j \in DOMAIN toHub : toHub'[j] = toHub[j]
  BY <1>4, SentFrames
<1>6. Len(toHub) \in Nat
  BY TypesConsequences
<1>7. \A i \in 1 .. Len(ms) : i = 1 /\ ms[i] = Ack(c, b)
  BY <1>4
<1>8. \A j \in DOMAIN toHub' :
        j \in DOMAIN toHub \/ (j = Len(toHub) + 1 /\ toHub'[j] = Ack(c, b))
  BY <1>5, <1>7
<1>9. QED BY <1>3, <1>5, <1>6, <1>8

LEMMA TurnWorkerAckStart ==
  ASSUME CallInv, TurnInv, Types', WorkerAckStart
  PROVE  TurnInv'
<1>1. Types /\ FramesFit
  BY DEF CallInv
<1>2. PICK c \in worker.owed :
        /\ c \in CallSet
        /\ worker'.held = worker.held /\ worker'.on = worker.on
        /\ worker'.op = worker.op /\ worker'.active = worker.active /\ worker'.marks = worker.marks
        /\ SendHub(<<Ack(c, TRUE)>>)
        /\ UNCHANGED <<stored, origin, hub, calls, link, toWorker>>
  BY <1>1, AckStartStep
<1>3. c.kind \notin SteerKinds
  BY <1>1, KindFacts DEF FramesFit
<1>4. /\ \A j \in DOMAIN toHub : j \in DOMAIN toHub' /\ toHub'[j] = toHub[j]
      /\ \A j \in DOMAIN toHub' :
           \/ j \in DOMAIN toHub
           \/ /\ j > Len(toHub) /\ ~Trace(toHub'[j]) /\ ~TakenConfer(toHub'[j]) /\ ~SaysIdle(toHub'[j])
  BY <1>1, <1>2, <1>3, AckFrames
<1>5. 0 \in Nat /\ \A q \in DOMAIN toWorker' : q + 0 \in DOMAIN toWorker /\ toWorker[q + 0] = toWorker'[q]
  BY <1>1, <1>2, UnshiftedCommands
<1>6. QED BY <1>2, <1>4, <1>5, TurnSends

LEMMA TurnWorkerSteer ==
  ASSUME CallInv, TurnInv, Types', WorkerSteer
  PROVE  TurnInv'
<1>1. Types /\ Down
  BY DEF CallInv
<1> DEFINE c == toWorker[1].call
<1>2. /\ Handles(SteerKinds) /\ c \in CallSet
      /\ \/ /\ worker.on /\ toHub' = toHub
            /\ worker' = [worker EXCEPT !.steers = worker.steers \cup {[call |-> c, n |-> worker.n]}]
         \/ ~worker.on /\ SendHub(<<Ack(c, FALSE)>>) /\ worker' = worker
      /\ UNCHANGED <<stored, origin, hub, calls, link>>
  BY <1>1, WorkerSteerStep
<1>3. 1 \in Nat /\ \A q \in DOMAIN toWorker' : q + 1 \in DOMAIN toWorker /\ toWorker[q + 1] = toWorker'[q]
  BY <1>1, <1>2, HandlesShift
<1> HIDE DEF c
<1>4. /\ worker'.on = worker.on /\ worker'.held = worker.held /\ worker'.active = worker.active
      /\ worker'.marks = worker.marks /\ worker'.op = worker.op
  BY <1>1, <1>2 DEF Types, WorkerStates
<1>5. /\ \A j \in DOMAIN toHub : j \in DOMAIN toHub' /\ toHub'[j] = toHub[j]
      /\ \A j \in DOMAIN toHub' :
           \/ j \in DOMAIN toHub
           \/ /\ j > Len(toHub) /\ ~Trace(toHub'[j]) /\ ~TakenConfer(toHub'[j]) /\ ~SaysIdle(toHub'[j])
  BY <1>1, <1>2, AckFrames
<1>6. QED BY <1>2, <1>3, <1>4, <1>5, TurnSends

LEMMA TurnWorkerNotice ==
  ASSUME CallInv, TurnInv, Types', WorkerNotice
  PROVE  TurnInv'
<1>1. Types
  BY DEF CallInv
<1>2. /\ toWorker # << >>
      /\ DOMAIN toWorker' = 1 .. Len(toWorker) - 1
      /\ DOMAIN toWorker = 1 .. Len(toWorker) /\ Len(toWorker) \in Nat \ {0}
      /\ \A i \in 1 .. Len(toWorker) - 1 : toWorker'[i] = toWorker[i + 1]
      /\ UNCHANGED <<stored, origin, hub, calls, worker, link, toHub>>
  BY <1>1, WorkerNoticeStep
<1>3. 1 \in Nat /\ \A q \in DOMAIN toWorker' : q + 1 \in DOMAIN toWorker /\ toWorker[q + 1] = toWorker'[q]
  BY <1>2
<1>4. /\ \A j \in DOMAIN toHub : j \in DOMAIN toHub' /\ toHub'[j] = toHub[j]
      /\ \A j \in DOMAIN toHub' : j \in DOMAIN toHub
  BY <1>2
<1>5. QED BY <1>2, <1>3, <1>4, TurnSends

\* The worker answers truly; a turn that is on its way behind the list outdates the answer.
LEMMA TurnWorkerList ==
  ASSUME CallInv, TurnInv, Types', WorkerList
  PROVE  TurnInv'
<1> DEFINE c == toWorker[1].call
           l == Len(toHub)
<1>1. Types /\ Down
  BY DEF CallInv
<1>2. /\ Handles(ListKinds) /\ c.kind \in ListKinds
      /\ Live(c).t = "live" /\ Live(c).call = c /\ Live(c).held = worker.held
      /\ Live(c).on = IF provider = "claude" THEN worker.on ELSE worker.active
      /\ DOMAIN toHub' = 1 .. l + 1 /\ DOMAIN toHub = 1 .. l /\ l \in Nat
      /\ \A j \in DOMAIN toHub : toHub'[j] = toHub[j]
      /\ toHub'[l + 1] = Live(c)
      /\ UNCHANGED <<stored, origin, hub, calls, worker, link>>
  BY <1>1, WorkerListStep
<1>3. /\ \A q \in DOMAIN toWorker' : q \in Nat \ {0} /\ q + 1 \in DOMAIN toWorker /\ toWorker[q + 1] = toWorker'[q]
      /\ 1 \in DOMAIN toWorker /\ toWorker[1].t = "do"
  BY <1>1, <1>2, HandlesShift
<1>4. SaysIdle(Live(c)) => ~worker.on /\ c.outcome = "sent"
  <2>1. worker.active = worker.on /\ (worker.on => worker.held) /\ worker.on \in BOOLEAN
    BY <1>1, TypesConsequences DEF TurnInv, RingTrue
  <2> HIDE DEF c
  <2>2. QED BY <1>2, <2>1 DEF SaysIdle, Idle
<1>5. ASSUME SaysIdle(Live(c)), worker.on \/ \E q \in DOMAIN toWorker' : DoesTurn(toWorker'[q])
      PROVE  /\ hub.busy /\ c.kind = "recheck" /\ "recheck" \notin hub.fresh
             /\ \A i \in DOMAIN toHub : ~IsMark(toHub[i])
  <2>1. PICK q \in DOMAIN toWorker' : DoesTurn(toWorker'[q])
    BY <1>4, <1>5
  <2>2. q + 1 \in DOMAIN toWorker /\ DoesTurn(toWorker[q + 1]) /\ 1 < q + 1
    BY <1>3, <2>1
  <2>3. AsksList(toWorker[1])
    BY <1>2, <1>3, <1>4, <1>5 DEF AsksList
  <2>4. Outdated(c)
    BY <1>3, <2>2, <2>3 DEF TurnInv, ListAhead
  <2>5. \A i \in DOMAIN toHub : ~Trace(toHub[i])
    BY <2>2 DEF TurnInv, OneTurn
  <2>6. QED BY <2>4, <2>5 DEF Outdated, Trace
<1>6. ~Trace(Live(c)) /\ ~TakenConfer(Live(c))
  BY <1>2 DEF Trace, IsMark, TakenSteer, TakenConfer
<1> HIDE DEF c, l
<1>7. \A j \in DOMAIN toHub : j \in DOMAIN toHub' /\ toHub'[j] = toHub[j]
  BY <1>2
<1>8. \A j \in DOMAIN toHub' :
           \/ j \in DOMAIN toHub
           \/ /\ j > l /\ ~Trace(toHub'[j]) /\ ~TakenConfer(toHub'[j])
              /\ SaysIdle(toHub'[j]) /\ (worker.on \/ \E q \in DOMAIN toWorker' : DoesTurn(toWorker'[q])) =>
                   /\ hub'.busy /\ toHub'[j].call.kind = "recheck" /\ "recheck" \notin hub'.fresh
                   /\ \A i \in DOMAIN toHub : ~IsMark(toHub[i])
  BY <1>2, <1>5, <1>6
<1>9. 1 \in Nat /\ \A q \in DOMAIN toWorker' : q + 1 \in DOMAIN toWorker /\ toWorker[q + 1] = toWorker'[q]
  BY <1>3
<1>10. QED BY <1>2, <1>7, <1>8, <1>9, TurnSends DEF l

\* The worker handles a call that starts a turn: the marker of the start, behind which comes
\* the acknowledgement and, if the turn does not run, its end (x is the last marker's place).
LEMMA TurnBegins ==
  ASSUME CallInv, TurnInv, Types', Handles(TurnKinds), UNCHANGED <<hub, calls, link, stored, origin>>,
         RingTrue', worker'.on => (worker'.op <=> toWorker[1].call.inputs # {}),
         NEW ms \in Seq(HubFrames), SendHub(ms), 1 \in DOMAIN ms, Starts(ms[1]),
         NEW x \in DOMAIN ms, worker'.on <=> x = 1,
         x # 1 => LiveMark(ms[x]) /\ ms[x].kind # "started",
         \A i \in DOMAIN ms : i # 1 /\ i # x => ~Trace(ms[i]),
         \A i \in DOMAIN ms : ~TakenConfer(ms[i]) /\ ~SaysIdle(ms[i]) /\ ~TakenSteer(ms[i])
  PROVE  TurnInv'
<1> DEFINE l == Len(toHub)
<1>1. Types /\ Down /\ Types'
  BY DEF CallInv
<1>2. /\ \A q \in DOMAIN toWorker' : q \in Nat \ {0} /\ q + 1 \in DOMAIN toWorker /\ toWorker[q + 1] = toWorker'[q] /\ q + 1 # 1
      /\ 1 \in DOMAIN toWorker /\ toWorker[1].t = "do" /\ toWorker[1].call.kind \in TurnKinds /\ link
  BY <1>1, HandlesShift
<1>3. DoesTurn(toWorker[1])
  BY <1>2 DEF DoesTurn
<1>4. /\ hub.busy /\ ~worker.on /\ ~AttachRuns
      /\ \A j \in DOMAIN toHub : ~Trace(toHub[j])
      /\ \A p \in DOMAIN toWorker : DoesTurn(toWorker[p]) => p = 1
  BY <1>2, <1>3 DEF TurnInv, OneTurn
<1>5. Coming /\ \A j \in Nat : After(j)
  BY <1>2, <1>3 DEF Coming, After
<1>6. /\ DOMAIN toHub = 1 .. l /\ l \in Nat
      /\ Len(ms) \in Nat /\ DOMAIN ms = 1 .. Len(ms) /\ DOMAIN toHub' = 1 .. l + Len(ms) /\ Len(toHub') = l + Len(ms)
      /\ \A j \in 1 .. l : toHub'[j] = toHub[j]
      /\ \A i \in 1 .. Len(ms) : toHub'[l + i] = ms[i]
  BY <1>1, <1>2, SendHubElements
<1>7. \A q \in DOMAIN toWorker' : ~DoesTurn(toWorker'[q])
  BY <1>2, <1>4
<1> HIDE DEF l
<1>8. /\ \A j \in DOMAIN toHub' :
           \/ j \in DOMAIN toHub /\ toHub'[j] = toHub[j]
           \/ /\ j \notin DOMAIN toHub /\ j > l /\ j - l \in DOMAIN ms /\ j - l \in Nat \ {0}
              /\ j = l + (j - l) /\ toHub'[j] = ms[j - l]
      /\ \A i \in DOMAIN ms : l + i \in DOMAIN toHub' /\ toHub'[l + i] = ms[i] /\ i \in Nat \ {0}
  <2>1. ASSUME NEW j \in DOMAIN toHub', j \notin DOMAIN toHub
        PROVE  j > l /\ j - l \in DOMAIN ms /\ j - l \in Nat \ {0} /\ j = l + (j - l) /\ toHub'[j] = ms[j - l]
    BY <1>6, <2>1
  <2>2. ASSUME NEW i \in DOMAIN ms
        PROVE  l + i \in DOMAIN toHub' /\ toHub'[l + i] = ms[i] /\ i \in Nat \ {0}
    BY <1>6, <2>2
  <2>3. QED BY <1>6, <2>1, <2>2
<1>9. \A j \in DOMAIN toHub' : IsMark(toHub'[j]) => j \notin DOMAIN toHub /\ j - l \in {1, x}
  BY <1>4, <1>8 DEF Trace
<1>10. /\ IsMark(ms[1]) /\ LiveMark(ms[1]) /\ ms[1].kind = "started" /\ Trace(ms[1])
       /\ x # 1 => IsMark(ms[x]) /\ LiveMark(ms[x]) /\ ms[x].kind # "started"
  BY DEF Starts, LiveMark, IsMark, Trace
<1>11. MarksTrue'
  <2> SUFFICES ASSUME NEW j \in DOMAIN toHub', IsMark(toHub'[j]), NoMarks(j, Len(toHub) + 1)'
               PROVE  toHub'[j].kind = "started" <=> worker'.on
    BY DEF MarksTrue
  <2>1. j \notin DOMAIN toHub /\ j - l \in {1, x} /\ j = l + (j - l) /\ toHub'[j] = ms[j - l]
    BY <1>8, <1>9
  <2>2. j - l = x
    <3>1. l + x \in DOMAIN toHub' /\ toHub'[l + x] = ms[x] /\ l + x < Len(toHub') + 1 /\ x \in Nat \ {0} /\ l \in Nat
      BY <1>6, <1>8
    <3>2. ASSUME j - l = 1, x # 1
          PROVE  FALSE
      BY <1>10, <2>1, <3>1, <3>2 DEF NoMarks
    <3>3. QED BY <2>1, <3>2
  <2>3. toHub'[j] = ms[x]
    BY <2>1, <2>2
  <2>4. QED BY <1>10, <2>3
<1>12. ~AttachRuns'
  BY <1>2, <1>4, <1>8, <1>9, <1>10 DEF LiveMark, AttachRuns
<1>13. OneTurn' /\ ListAhead' /\ ~Coming'
  BY <1>7 DEF OneTurn, ListAhead, Coming
<1>14. FirstStart'
  <2> SUFFICES ASSUME NEW j \in DOMAIN toHub', Starts(toHub'[j])
               PROVE  \A i \in DOMAIN toHub' : i < j => ~Trace(toHub'[i])
    BY <1>4, <1>12 DEF FirstStart
  <2>1. IsMark(toHub'[j]) /\ toHub'[j].kind = "started"
    BY DEF Starts, LiveMark, IsMark
  <2>2. j \notin DOMAIN toHub /\ j - l \in {1, x} /\ j = l + (j - l) /\ toHub'[j] = ms[j - l]
    BY <1>8, <1>9, <2>1
  <2>3. j - l = 1
    BY <1>10, <2>1, <2>2
  <2>4. j = l + 1 /\ l \in Nat
    BY <1>6, <2>2, <2>3
  <2>5. \A i \in DOMAIN toHub' : i < j => i \in DOMAIN toHub /\ toHub'[i] = toHub[i]
    BY <1>6, <2>4
  <2>6. QED BY <1>4, <2>5
<1>15. Evidence'
  <2> SUFFICES ASSUME NEW j \in DOMAIN toHub', Witness(toHub'[j])
               PROVE  \E i \in DOMAIN toHub' : i < j /\ IsMark(toHub'[i]) /\ toHub'[i].kind = "started" /\ NoMarks(i, j)'
    BY DEF Evidence
  <2>1. Trace(toHub'[j])
    BY DEF Witness, Trace, LiveMark, IsMark
  <2>2. j \notin DOMAIN toHub /\ j - l \in DOMAIN ms /\ j = l + (j - l) /\ toHub'[j] = ms[j - l] /\ j - l \in Nat \ {0}
    BY <1>4, <1>8, <2>1
  <2>3. j - l = x /\ x # 1
    BY <1>10, <2>1, <2>2 DEF Witness, TakenSteer, IsMark
  <2>4. PICK n \in Nat : n = l + 1
    BY <1>6
  <2>5. n \in DOMAIN toHub' /\ IsMark(toHub'[n]) /\ toHub'[n].kind = "started"
    BY <1>8, <1>10, <2>4
  <2>6. n < j /\ l \in Nat /\ x \in Nat
    BY <1>6, <2>2, <2>3, <2>4
  <2>7. NoMarks(n, j)'
    <3> SUFFICES ASSUME NEW i \in DOMAIN toHub', n < i, i < j, IsMark(toHub'[i])
                 PROVE  FALSE
      BY DEF NoMarks
    <3>1. i - l \in {1, x} /\ i = l + (i - l)
      BY <1>8, <1>9
    <3>2. QED BY <2>2, <2>3, <2>4, <2>6, <3>1
  <2>8. QED BY <2>5, <2>6, <2>7
<1>16. Knows' /\ Lost'
  BY <1>2, <1>4, <1>6, <1>8, <1>10, KindFacts DEF NoMarks, AttachRuns, Knows, Lost
<1>17. StoredToo'
  BY <1>5 DEF TurnInv, StoredToo
<1>18. ListSays'
  <2> SUFFICES ASSUME NEW j \in DOMAIN toHub', SaysIdle(toHub'[j])
               PROVE  hub.busy /\ toHub'[j].call.kind = "recheck" /\ "recheck" \notin hub.fresh /\ NoMarks(0, j)'
    BY DEF ListSays, Outdated
  <2>1. j \in DOMAIN toHub /\ toHub'[j] = toHub[j] /\ j \in Nat
    BY <1>6, <1>8
  <2>2. Outdated(toHub[j].call)
    BY <1>5, <2>1 DEF TurnInv, ListSays
  <2>3. NoMarks(0, j)'
    BY <1>4, <1>6, <2>1 DEF NoMarks, Trace
  <2>4. QED BY <2>1, <2>2, <2>3 DEF Outdated
<1>19. ListSaid'
  BY <1>5 DEF TurnInv, ListSaid, Outdated
<1>20. TurnsFail'
  BY <1>2 DEF TurnInv, TurnsFail
<1>21. Authority'
  BY <1>2, <1>3, <1>7 DEF Tainted, TurnInv, Authority
<1>22. Earned'
  BY <1>5, <1>8 DEF Accepted, TurnInv, Earned
<1>23. QED
  BY <1>11, <1>13, <1>14, <1>15, <1>16, <1>17, <1>18, <1>19, <1>20, <1>21, <1>22 DEF TurnInv

LEMMA TurnFrames ==
  ASSUME NEW c \in CallSet, c.kind \in TurnKinds
  PROVE  /\ Starts(Mark("started", {}))
         /\ \A is : LiveMark(Mark("errored", is)) /\ Mark("errored", is).kind # "started"
         /\ ~Trace(Ack(c, TRUE))
         /\ \A f : f \in {Mark("started", {}), Mark("errored", c.inputs), Ack(c, TRUE)} =>
              ~TakenConfer(f) /\ ~SaysIdle(f) /\ ~TakenSteer(f)
<1>1. Ack(c, TRUE).t = "ack" /\ Ack(c, TRUE).call = c
  BY DEF Ack
<1>2. \A k, is : Mark(k, is).t = "mark" /\ Mark(k, is).kind = k /\ Mark(k, is).replay = FALSE
  BY DEF Mark
<1>3. c.kind \notin SteerKinds /\ c.kind # "confer"
  BY KindFacts
<1>4. Starts(Mark("started", {})) /\ \A is : LiveMark(Mark("errored", is)) /\ Mark("errored", is).kind # "started"
  BY <1>2 DEF Starts, LiveMark
<1>5. ~Trace(Ack(c, TRUE))
  BY <1>1, <1>3 DEF Trace, IsMark, TakenSteer
<1>6. ~TakenConfer(Ack(c, TRUE)) /\ ~SaysIdle(Ack(c, TRUE)) /\ ~TakenSteer(Ack(c, TRUE))
  <2>1. ~TakenSteer(Ack(c, TRUE))
    BY <1>1, <1>3 DEF TakenSteer
  <2>2. ~TakenConfer(Ack(c, TRUE))
    BY <1>1, <1>3 DEF TakenConfer
  <2>3. ~SaysIdle(Ack(c, TRUE))
    BY <1>1 DEF SaysIdle
  <2>4. QED BY <2>1, <2>2, <2>3
<1>7. \A k, is : ~TakenConfer(Mark(k, is)) /\ ~SaysIdle(Mark(k, is)) /\ ~TakenSteer(Mark(k, is))
  BY <1>2 DEF TakenSteer, TakenConfer, SaysIdle
<1>8. \A f : f \in {Mark("started", {}), Mark("errored", c.inputs), Ack(c, TRUE)} =>
        ~TakenConfer(f) /\ ~SaysIdle(f) /\ ~TakenSteer(f)
  BY <1>6, <1>7
<1>9. QED BY <1>4, <1>5, <1>8

LEMMA TurnWorkerStart ==
  ASSUME CallInv, TurnInv, Types', WorkerStart
  PROVE  TurnInv'
<1> DEFINE c == toWorker[1].call
           ms == StartFrames(c)
<1>1. Types /\ Down
  BY DEF CallInv
<1>2. /\ Handles(TurnKinds) /\ c \in CallSet
      /\ worker'.held = TRUE /\ worker'.on = TRUE /\ worker'.active = TRUE /\ worker'.op = (c.inputs # {})
      /\ worker'.marks # << >> /\ worker'.marks[Len(worker'.marks)] = Mark("started", {})
      /\ SendHub(ms)
      /\ UNCHANGED <<stored, origin, hub, calls, link>>
  BY <1>1, WorkerStartStep
<1>3. c.kind \in TurnKinds
  BY <1>1, <1>2, HandlesShift
<1>4. /\ ms \in Seq(HubFrames) /\ Len(ms) \in 1 .. 2 /\ ms[1] = Mark("started", {})
      /\ Len(ms) = 2 => ms[2] = Ack(c, TRUE)
  BY <1>1, <1>2, StartFramesTyped
<1>5. /\ Starts(Mark("started", {}))
      /\ ~Trace(Ack(c, TRUE))
      /\ \A f : f \in {Mark("started", {}), Mark("errored", c.inputs), Ack(c, TRUE)} =>
           ~TakenConfer(f) /\ ~SaysIdle(f) /\ ~TakenSteer(f)
  BY <1>2, <1>3, TurnFrames
<1>6. RingTrue'
  <2>1. Mark("started", {}).kind = "started"
    BY FrameFields
  <2>2. QED BY <1>2, <2>1 DEF RingTrue
<1>7. worker'.on => (worker'.op <=> toWorker[1].call.inputs # {})
  BY <1>2
<1> HIDE DEF c, ms
<1>8. DOMAIN ms = 1 .. Len(ms) /\ 1 \in DOMAIN ms /\ \A i \in DOMAIN ms : i = 1 \/ (i = 2 /\ Len(ms) = 2)
  BY <1>4
<1>9. \A i \in DOMAIN ms : ms[i] \in {Mark("started", {}), Ack(c, TRUE)} /\ (i # 1 => ms[i] = Ack(c, TRUE))
  BY <1>4, <1>8
<1>10. \A i \in DOMAIN ms : ~TakenConfer(ms[i]) /\ ~SaysIdle(ms[i]) /\ ~TakenSteer(ms[i])
  BY <1>5, <1>9
<1>11. \A i \in DOMAIN ms : i # 1 => ~Trace(ms[i])
  BY <1>5, <1>9
<1>12. Starts(ms[1])
  BY <1>4, <1>5
<1>13. QED BY <1>2, <1>4, <1>6, <1>7, <1>8, <1>10, <1>11, <1>12, TurnBegins

LEMMA TurnWorkerRefuse ==
  ASSUME CallInv, TurnInv, Types', WorkerRefuse
  PROVE  TurnInv'
<1> DEFINE c == toWorker[1].call
           ms == RefuseFrames(c)
<1>1. Types /\ Down
  BY DEF CallInv
<1>2. /\ Handles(TurnKinds) /\ c \in CallSet
      /\ worker'.held = TRUE /\ worker'.on = worker.on /\ worker'.active = FALSE
      /\ worker'.marks # << >> /\ worker'.marks[Len(worker'.marks)] = Mark("errored", c.inputs)
      /\ SendHub(ms)
      /\ UNCHANGED <<stored, origin, hub, calls, link>>
  BY <1>1, WorkerRefuseStep
<1>3. c.kind \in TurnKinds /\ 1 \in DOMAIN toWorker /\ toWorker[1].t = "do"
  BY <1>1, <1>2, HandlesShift
<1>4. ~worker.on
  BY <1>3 DEF TurnInv, OneTurn, DoesTurn
<1>5. /\ ms \in Seq(HubFrames) /\ Len(ms) = 3 /\ ms[1] = Mark("started", {})
      /\ \/ ms[2] = Mark("errored", c.inputs) /\ ms[3] = Ack(c, TRUE)
         \/ ms[3] = Mark("errored", c.inputs) /\ ms[2] = Ack(c, TRUE)
  BY <1>1, <1>2, StartFramesTyped
<1>6. /\ Starts(Mark("started", {}))
      /\ \A is : LiveMark(Mark("errored", is)) /\ Mark("errored", is).kind # "started"
      /\ ~Trace(Ack(c, TRUE))
      /\ \A f : f \in {Mark("started", {}), Mark("errored", c.inputs), Ack(c, TRUE)} =>
           ~TakenConfer(f) /\ ~SaysIdle(f) /\ ~TakenSteer(f)
  BY <1>2, <1>3, TurnFrames
<1> HIDE DEF c, ms
<1>7. RingTrue' /\ ~worker'.on
  BY <1>1, <1>2, <1>4, <1>6 DEF Types, WorkerStates, RingTrue
<1>8. DOMAIN ms = 1 .. 3 /\ 1 \in DOMAIN ms /\ 2 \in DOMAIN ms /\ 3 \in DOMAIN ms /\ \A i \in DOMAIN ms : i = 1 \/ i = 2 \/ i = 3
  BY <1>5
<1>9. \A i \in DOMAIN ms : ms[i] \in {Mark("started", {}), Mark("errored", c.inputs), Ack(c, TRUE)}
  BY <1>5, <1>8
<1>10. \A i \in DOMAIN ms : ~TakenConfer(ms[i]) /\ ~SaysIdle(ms[i]) /\ ~TakenSteer(ms[i])
  BY <1>6, <1>9
<1>11. \E x \in {2, 3} : /\ ms[x] = Mark("errored", c.inputs)
                        /\ \A i \in DOMAIN ms : i # 1 /\ i # x => ms[i] = Ack(c, TRUE)
  BY <1>5, <1>8
<1>12. PICK x \in {2, 3} : /\ ms[x] = Mark("errored", c.inputs)
                         /\ \A i \in DOMAIN ms : i # 1 /\ i # x => ms[i] = Ack(c, TRUE)
  BY <1>11
<1>13. \A i \in DOMAIN ms : i # 1 /\ i # x => ~Trace(ms[i])
  BY <1>6, <1>12
<1>14. x \in DOMAIN ms /\ x # 1 /\ LiveMark(ms[x]) /\ ms[x].kind # "started" /\ Starts(ms[1])
  BY <1>5, <1>6, <1>8, <1>12
<1>15. QED BY <1>2, <1>5, <1>7, <1>8, <1>10, <1>13, <1>14, TurnBegins
\* A set of numbers has a least one.
LEMMA LeastExists ==
  ASSUME NEW S \in SUBSET Nat, S # {}
  PROVE  \E m \in S : \A x \in S : m <= x
<1> DEFINE T == {1 .. x : x \in S}
<1>1. T \subseteq FiniteSubsetsOf(Nat) /\ T # {}
  <2>1. ASSUME NEW x \in S PROVE 1 .. x \in FiniteSubsetsOf(Nat)
    BY FS_Interval DEF FiniteSubsetsOf
  <2>2. QED BY <2>1
<1>2. PICK t \in T : \A y \in T : ~(<<y, t>> \in StrictSubsetOrdering(Nat))
  <2>1. IsWellFoundedOn(StrictSubsetOrdering(Nat), FiniteSubsetsOf(Nat))
    BY FS_StrictSubsetOrderingWellFounded
  <2> HIDE DEF T
  <2>2. QED BY <1>1, <2>1, WFMin
<1>3. PICK m \in S : t = 1 .. m
  OBVIOUS
<1>4. ASSUME NEW x \in S, ~(m <= x)
      PROVE  FALSE
  <2>1. m \in Nat /\ x \in Nat /\ x < m
    BY <1>4
  <2>2. 1 .. x \subseteq 1 .. m /\ m \in 1 .. m /\ m \notin 1 .. x
    BY <2>1
  <2>3. 1 .. x \in SUBSET Nat /\ 1 .. m \in SUBSET Nat
    BY <2>1
  <2>4. <<1 .. x, 1 .. m>> \in StrictSubsetOrdering(Nat)
    BY <2>2, <2>3 DEF StrictSubsetOrdering
  <2>5. QED BY <1>2, <1>3, <2>4
<1>5. QED BY <1>4

\* A bounded one has a greatest.
LEMMA GreatestExists ==
  ASSUME NEW n \in Nat, NEW S \in SUBSET (0 .. n), S # {}
  PROVE  \E m \in S : \A x \in S : x <= m
<1> DEFINE T == {n - x : x \in S}
<1>1. T \in SUBSET Nat /\ T # {}
  <2>1. \A x \in S : n - x \in Nat
    OBVIOUS
  <2>2. QED BY <2>1
<1>2. PICK t \in T : \A y \in T : t <= y
  <2> HIDE DEF T
  <2>1. QED BY <1>1, LeastExists
<1>3. PICK m \in S : t = n - m
  OBVIOUS
<1>4. \A x \in S : x <= m
  BY <1>2, <1>3
<1>5. QED BY <1>4


\* With a marker under way there is a last one.
LEMMA LastMark ==
  ASSUME Types, ~NoMarks(0, Len(toHub) + 1)
  PROVE  \E i \in DOMAIN toHub : IsMark(toHub[i]) /\ NoMarks(i, Len(toHub) + 1)
<1> DEFINE S == {i \in DOMAIN toHub : IsMark(toHub[i])}
<1>1. DOMAIN toHub = 1 .. Len(toHub) /\ Len(toHub) \in Nat
  BY DEF Types
<1>2. S \in SUBSET (0 .. Len(toHub)) /\ S # {}
  BY <1>1 DEF NoMarks
<1>3. PICK m \in S : \A x \in S : x <= m
  <2> HIDE DEF S
  <2>1. QED BY <1>1, <1>2, GreatestExists
<1>4. NoMarks(m, Len(toHub) + 1)
  BY <1>1, <1>3 DEF NoMarks
<1>5. QED BY <1>3, <1>4

\* One frame more on the socket, the n-th.
LEMMA OneFrameMore ==
  ASSUME Types, link, NEW f \in HubFrames, SendHub(<<f>>)
  PROVE  \E n \in Nat : /\ n = Len(toHub) + 1 /\ DOMAIN toHub' = 1 .. n /\ DOMAIN toHub = 1 .. Len(toHub)
                        /\ Len(toHub') = n /\ toHub'[n] = f /\ n \in DOMAIN toHub' /\ n \notin DOMAIN toHub
                        /\ \A j \in DOMAIN toHub : j < n /\ j \in DOMAIN toHub' /\ toHub'[j] = toHub[j]
                        /\ \A j \in DOMAIN toHub' : j = n \/ j \in DOMAIN toHub
<1> DEFINE ms == <<f>>
<1>1. ms \in Seq(HubFrames) /\ Len(ms) = 1 /\ ms[1] = f /\ SendHub(ms)
  BY ShortSequences
<1> HIDE DEF ms
<1>2. /\ Len(toHub') = Len(toHub) + 1 /\ DOMAIN toHub' = 1 .. Len(toHub) + 1
      /\ \A i \in 1 .. Len(toHub) : toHub'[i] = toHub[i]
      /\ toHub'[Len(toHub) + 1] = f
      /\ DOMAIN toHub = 1 .. Len(toHub) /\ Len(toHub) \in Nat
  <2>1. /\ Len(toHub') = Len(toHub) + Len(ms) /\ DOMAIN toHub' = 1 .. Len(toHub) + Len(ms)
        /\ \A i \in 1 .. Len(toHub) : toHub'[i] = toHub[i]
        /\ \A i \in 1 .. Len(ms) : toHub'[Len(toHub) + i] = ms[i]
        /\ DOMAIN toHub = 1 .. Len(toHub) /\ Len(toHub) \in Nat
    BY <1>1, SendHubElements
  <2>2. 1 \in 1 .. Len(ms)
    BY <1>1
  <2>3. toHub'[Len(toHub) + 1] = ms[1]
    BY <2>1, <2>2
  <2>4. QED BY <1>1, <2>1, <2>3
<1>3. DOMAIN toHub' = 1 .. Len(toHub') /\ Len(toHub) + 1 > Len(toHub)
  BY <1>2
<1>4. QED BY <1>2, <1>3

\* What holds while a turn runs, of which the worker tells one thing more: f, the n-th frame.
LEMMA WhileOn ==
  ASSUME CallInv, TurnInv, worker.on, UNCHANGED <<hub, calls, link, stored, origin, toWorker>>,
         NEW n \in Nat, n = Len(toHub) + 1, DOMAIN toHub' = 1 .. n, DOMAIN toHub = 1 .. Len(toHub),
         \A j \in DOMAIN toHub : j < n /\ j \in DOMAIN toHub' /\ toHub'[j] = toHub[j],
         \A j \in DOMAIN toHub' : j = n \/ j \in DOMAIN toHub,
         Witness(toHub'[n]), n \in DOMAIN toHub'
  PROVE  /\ ~Coming /\ ~Coming' /\ OneTurn' /\ FirstStart' /\ Evidence' /\ ListAhead' /\ ListSays' /\ ListSaid'
         /\ \A i \in DOMAIN toHub, j \in Nat : j <= n => (NoMarks(i, j) <=> NoMarks(i, j)')
<1>1. \A q \in DOMAIN toWorker : ~DoesTurn(toWorker[q])
  BY DEF TurnInv, OneTurn
<1>2. ~Coming /\ ~Coming' /\ OneTurn' /\ ListAhead'
  BY <1>1 DEF Coming, OneTurn, ListAhead
<1>3. \A i, j \in Nat : j <= n => (NoMarks(i, j) <=> NoMarks(i, j)')
  BY DEF NoMarks
<1>4. DOMAIN toHub \subseteq Nat /\ Types
  BY DEF CallInv
<1>5. toHub'[n].t \in {"mark", "ack"} /\ ~Starts(toHub'[n]) /\ ~SaysIdle(toHub'[n])
  BY DEF Witness, LiveMark, TakenSteer, Starts, SaysIdle
<1>6. FirstStart'
  <2> SUFFICES ASSUME NEW j \in DOMAIN toHub', Starts(toHub'[j])
               PROVE  hub.busy /\ ~AttachRuns' /\ \A i \in DOMAIN toHub' : i < j => ~Trace(toHub'[i])
    BY DEF FirstStart
  <2>1. j \in DOMAIN toHub /\ Starts(toHub[j])
    BY <1>5
  <2>2. hub.busy /\ ~AttachRuns /\ \A i \in DOMAIN toHub : i < j => ~Trace(toHub[i])
    BY <2>1 DEF TurnInv, FirstStart
  <2>3. \A i \in DOMAIN toHub' : i < j => i \in DOMAIN toHub /\ toHub'[i] = toHub[i]
    BY <1>4, <2>1
  <2>4. ~AttachRuns'
    <3>1. \A i \in DOMAIN toHub' : ~(IsMark(toHub'[i]) /\ toHub'[i].replay)
      BY <2>2 DEF Witness, LiveMark, TakenSteer, IsMark, AttachRuns
    <3>2. QED BY <2>2, <3>1 DEF AttachRuns
  <2>5. QED BY <2>2, <2>3, <2>4
<1>7. Evidence'
  <2> SUFFICES ASSUME NEW j \in DOMAIN toHub', Witness(toHub'[j])
               PROVE  \/ \E i \in DOMAIN toHub' : i < j /\ IsMark(toHub'[i]) /\ toHub'[i].kind = "started" /\ NoMarks(i, j)'
                      \/ NoMarks(0, j)' /\ ~Rest'
    BY DEF Evidence
  <2>0. j \in Nat /\ j <= n /\ Rest' = Rest
    BY DEF Rest
  <2>1. \/ \E i \in DOMAIN toHub : i < j /\ IsMark(toHub[i]) /\ toHub[i].kind = "started" /\ NoMarks(i, j)
        \/ NoMarks(0, j) /\ ~Rest
    <3>1. CASE j = n
      <4>1. CASE NoMarks(0, Len(toHub) + 1)
        BY <3>1, <4>1 DEF TurnInv, Knows
      <4>2. CASE ~NoMarks(0, Len(toHub) + 1)
        BY <1>4, <3>1, <4>2, LastMark DEF TurnInv, MarksTrue
      <4>3. QED BY <4>1, <4>2
    <3>2. CASE j # n
      BY <3>2 DEF TurnInv, Evidence
    <3>3. QED BY <3>1, <3>2
  <2>2. CASE \E i \in DOMAIN toHub : i < j /\ IsMark(toHub[i]) /\ toHub[i].kind = "started" /\ NoMarks(i, j)
    BY <1>3, <1>4, <2>0, <2>2
  <2>3. CASE NoMarks(0, j) /\ ~Rest
    BY <1>3, <2>0, <2>3
  <2>4. QED BY <2>1, <2>2, <2>3
<1>8. ListSays'
  BY <1>3, <1>4, <1>5 DEF ListSays, Outdated, TurnInv, After
<1>9. ListSaid'
  BY DEF TurnInv, ListSaid, After, Outdated
<1>10. QED BY <1>2, <1>3, <1>4, <1>6, <1>7, <1>8, <1>9

LEMMA TurnVendorSteer ==
  ASSUME CallInv, TurnInv, Types', VendorSteer
  PROVE  TurnInv'
<1>1. Types /\ FramesFit /\ Down
  BY DEF CallInv
<1>2. PICK s \in worker.steers :
        LET takes == worker.on /\ s.n = worker.n
        IN /\ s \in Steers /\ takes \in BOOLEAN
           /\ worker'.op = (worker.op \/ (takes /\ s.call.inputs # {}))
           /\ worker'.held = worker.held /\ worker'.on = worker.on
           /\ worker'.active = worker.active /\ worker'.marks = worker.marks
           /\ SendHub(<<Ack(s.call, takes)>>)
           /\ UNCHANGED <<stored, origin, hub, calls, link, toWorker>>
  BY <1>1, VendorSteerStep
<1> DEFINE takes == worker.on /\ s.n = worker.n
           f == Ack(s.call, takes)
<1>3. /\ s.call \in CallSet /\ s.call.kind \in SteerKinds /\ (s.call.kind = "confer" => s.call.inputs # {})
  BY <1>1, <1>2 DEF FramesFit, SteerFits, Steers
<1>4. /\ takes \in BOOLEAN /\ SendHub(<<f>>)
      /\ worker'.held = worker.held /\ worker'.on = worker.on
      /\ worker'.active = worker.active /\ worker'.marks = worker.marks
      /\ worker.op => worker'.op
      /\ takes /\ s.call.inputs # {} => worker'.op
      /\ UNCHANGED <<stored, origin, hub, calls, link, toWorker>>
  BY <1>2
<1>5. 0 \in Nat /\ \A q \in DOMAIN toWorker' : q + 0 \in DOMAIN toWorker /\ toWorker[q + 0] = toWorker'[q]
  BY <1>1, <1>4, UnshiftedCommands
<1>6. takes => worker.on
  OBVIOUS
<1>7. f \in HubFrames /\ f.t = "ack" /\ f.call = s.call /\ f.ok = takes
  <2> HIDE DEF takes
  <2>1. f \in Acks /\ Acks \subseteq HubFrames
    BY <1>3, <1>4, FramesTyped
  <2>2. QED BY <2>1 DEF Ack
<1> HIDE DEF takes, f
<1>8. CASE ~link
  BY <1>4, <1>5, <1>8, TurnSends DEF SendHub
<1>9. CASE link /\ ~takes
  BY <1>1, <1>3, <1>4, <1>5, <1>9, AckFrames, TurnSends DEF f
<1>10. CASE link /\ takes
  <2>1. PICK n \in Nat :
          /\ n = Len(toHub) + 1 /\ DOMAIN toHub' = 1 .. n /\ DOMAIN toHub = 1 .. Len(toHub)
          /\ Len(toHub') = n /\ toHub'[n] = f /\ n \in DOMAIN toHub' /\ n \notin DOMAIN toHub
          /\ \A j \in DOMAIN toHub : j < n /\ j \in DOMAIN toHub' /\ toHub'[j] = toHub[j]
          /\ \A j \in DOMAIN toHub' : j = n \/ j \in DOMAIN toHub
    BY <1>1, <1>4, <1>7, <1>10, OneFrameMore
  <2>2. worker.on /\ Witness(f) /\ ~IsMark(f)
    BY <1>3, <1>6, <1>7, <1>10 DEF Witness, TakenSteer, IsMark
  <2>3. /\ ~Coming /\ ~Coming' /\ OneTurn' /\ FirstStart' /\ Evidence' /\ ListAhead' /\ ListSays' /\ ListSaid'
        /\ \A i \in DOMAIN toHub, j \in Nat : j <= n => (NoMarks(i, j) <=> NoMarks(i, j)')
    BY <1>4, <2>1, <2>2, WhileOn
  <2>4. MarksTrue'
    BY <1>4, <2>1, <2>2 DEF MarksTrue, NoMarks, TurnInv
  <2>5. RingTrue'
    BY <1>4 DEF TurnInv, RingTrue
  <2>6. NoMarks(0, Len(toHub) + 1) <=> NoMarks(0, Len(toHub) + 1)'
    BY <2>1, <2>2 DEF NoMarks
  <2>7. Knows' /\ Lost' /\ StoredToo'
    BY <1>4, <2>3, <2>6 DEF TurnInv, Knows, Lost, StoredToo, Rest
  <2>8. TurnsFail'
    BY <1>4 DEF TurnInv, TurnsFail
  <2>9. Authority'
    BY <1>4 DEF TurnInv, Authority, Tainted
  <2>10. Earned'
    <3>1. CASE TakenConfer(f)
      BY <1>3, <1>4, <1>7, <1>10, <2>3, <3>1 DEF TakenConfer, Earned
    <3>2. CASE ~TakenConfer(f)
      BY <1>4, <2>1, <2>3, <3>2 DEF Accepted, TurnInv, Earned
    <3>3. QED BY <3>1, <3>2
  <2>11. QED BY <2>3, <2>4, <2>5, <2>7, <2>8, <2>9, <2>10 DEF TurnInv
<1>11. QED BY <1>8, <1>9, <1>10

LEMMA TurnVendorEnd ==
  ASSUME CallInv, TurnInv, Types', VendorEnd
  PROVE  TurnInv'
<1>1. Types /\ Down
  BY DEF CallInv
<1>2. PICK k \in {"completed", "errored"} :
        /\ worker.on /\ k \in Turns /\ k # "started"
        /\ worker'.held = worker.held /\ worker'.on = FALSE /\ worker'.active = FALSE
        /\ worker'.marks # << >> /\ worker'.marks[Len(worker'.marks)] = Mark(k, {})
        /\ SendHub(<<Mark(k, {})>>)
        /\ UNCHANGED <<stored, origin, hub, calls, link, toWorker>>
  BY <1>1, VendorEndStep
<1> DEFINE f == Mark(k, {})
<1>3. f \in HubFrames /\ f.t = "mark" /\ f.kind = k /\ f.replay = FALSE /\ f.kind # "started"
  BY <1>2, FramesTyped DEF Mark
<1>4. worker'.marks[Len(worker'.marks)] = f /\ SendHub(<<f>>)
  BY <1>2
<1> HIDE DEF f
<1>5. RingTrue'
  BY <1>2, <1>3, <1>4 DEF RingTrue
<1>6. CASE ~link
  BY <1>1, <1>2, <1>4, <1>5, <1>6, EmptyChannels, Calm DEF SendHub, Down, TurnsFail
<1>7. CASE link
  <2>1. PICK n \in Nat :
          /\ n = Len(toHub) + 1 /\ DOMAIN toHub' = 1 .. n /\ DOMAIN toHub = 1 .. Len(toHub)
          /\ Len(toHub') = n /\ toHub'[n] = f /\ n \in DOMAIN toHub' /\ n \notin DOMAIN toHub
          /\ \A j \in DOMAIN toHub : j < n /\ j \in DOMAIN toHub' /\ toHub'[j] = toHub[j]
          /\ \A j \in DOMAIN toHub' : j = n \/ j \in DOMAIN toHub
    BY <1>1, <1>3, <1>4, <1>7, OneFrameMore
  <2>2. Witness(f) /\ IsMark(f) /\ ~TakenConfer(f)
    BY <1>3 DEF Witness, LiveMark, IsMark, TakenConfer
  <2>3. /\ ~Coming /\ ~Coming' /\ OneTurn' /\ FirstStart' /\ Evidence' /\ ListAhead' /\ ListSays' /\ ListSaid'
    BY <1>2, <2>1, <2>2, WhileOn
  <2>4. MarksTrue'
    BY <1>2, <1>3, <2>1, <2>2 DEF MarksTrue, NoMarks
  <2>5. Knows' /\ Lost' /\ StoredToo'
    BY <1>2, <2>3 DEF Knows, Lost, StoredToo
  <2>6. TurnsFail'
    BY <1>2, <1>7 DEF TurnInv, TurnsFail
  <2>7. Authority'
    BY <1>2, <2>3 DEF Authority, Tainted, Coming
  <2>8. Earned'
    BY <1>2, <2>3 DEF Earned
  <2>9. QED BY <1>5, <2>3, <2>4, <2>5, <2>6, <2>7, <2>8 DEF TurnInv
<1>8. QED BY <1>1, <1>6, <1>7 DEF Types

\* While attachWorker() waits for the worker's attach, no list is asked.
LEMMA AttachAlone ==
  ASSUME CallInv, 1 \in DOMAIN toWorker, DoesAttach(toWorker[1])
  PROVE  AttachRuns /\ \A d \in calls : d.kind \notin ListKinds
<1> DEFINE c == toWorker[1].call
<1>1. AttachRuns
  BY DEF AttachRuns
<1>2. toWorker[1].t = "do" /\ c.kind = "attach" /\ c \in CallSet /\ c.outcome # "ok"
  BY WorkerFrame DEF CallInv, FramesFit, Types, DoesAttach, CommandFits
<1>3. c.outcome \in {"sent", "ok", "fail"}
  <2> HIDE DEF c
  <2>1. QED BY <1>2, CallTyped
<1>4. \A d \in calls : d.kind \in AttachKinds => d.kind = "attach"
  <2>1. CASE c.outcome = "sent"
    BY <1>2, <2>1, KindFacts DEF CallInv, Requests, Asked, Chains
  <2>2. CASE c.outcome = "fail"
    BY <2>2 DEF CallInv, StrayAttach
  <2>3. QED BY <1>2, <1>3, <2>1, <2>2
<1>5. \A d \in calls : d.kind # "recheck"
  BY <1>1, KindFacts DEF CallInv, Chains
<1>6. QED BY <1>1, <1>4, <1>5, KindFacts

\* The worker replays its last markers, which say whether a turn runs.
LEMMA TurnWorkerAttach ==
  ASSUME CallInv, TurnInv, Types', WorkerAttach
  PROVE  TurnInv'
<1> DEFINE c == toWorker[1].call
           l == Len(toHub)
           n == Len(worker.marks)
<1>1. Types /\ Down
  BY DEF CallInv
<1>2. /\ Handles({"attach"}) /\ c \in CallSet /\ c.kind = "attach" /\ link
      /\ \E k \in worker.missed .. n :
           /\ k \in Nat /\ l \in Nat /\ DOMAIN toHub = 1 .. l /\ DOMAIN toHub' = 1 .. l + k + 1 /\ n \in Nat
           /\ \A j \in 1 .. l : toHub'[j] = toHub[j]
           /\ \A i \in 1 .. k : /\ toHub'[l + i] = Replayed(k)[i]
                                /\ Replayed(k)[i].t = "mark" /\ Replayed(k)[i].replay = TRUE
                                /\ Replayed(k)[i].kind = worker.marks[n - k + i].kind
                                /\ Replayed(k)[i].of = worker.marks[n - k + i].of
                                /\ n - k + i \in 1 .. n
           /\ toHub'[l + k + 1] = Ack(c, TRUE)
  BY <1>1, WorkerAttachFrames
<1>3. /\ worker'.held = worker.held /\ worker'.on = worker.on /\ worker'.op = worker.op
      /\ worker'.active = worker.active /\ worker'.marks = worker.marks
      /\ UNCHANGED <<stored, origin, hub, calls, link>>
  BY <1>1, WorkerAttachStep
<1>4. /\ \A q \in DOMAIN toWorker' : q + 1 \in DOMAIN toWorker /\ toWorker[q + 1] = toWorker'[q]
      /\ 1 \in DOMAIN toWorker /\ toWorker[1].t = "do" /\ toWorker[1].call.kind \in {"attach"}
  BY <1>1, <1>2, HandlesShift
<1>5. AttachRuns /\ \A d \in calls : d.kind \notin ListKinds
  BY <1>4, AttachAlone DEF DoesAttach
<1>6. Ack(c, TRUE).t = "ack" /\ Ack(c, TRUE).call = c
  BY FrameFields
<1>7. ~Trace(Ack(c, TRUE)) /\ ~IsMark(Ack(c, TRUE)) /\ ~TakenConfer(Ack(c, TRUE)) /\ ~SaysIdle(Ack(c, TRUE)) /\ ~Witness(Ack(c, TRUE))
  <2>1. c.kind \notin SteerKinds /\ c.kind # "confer"
    BY <1>2, KindFacts
  <2> HIDE DEF c
  <2>2. ~IsMark(Ack(c, TRUE)) /\ ~LiveMark(Ack(c, TRUE)) /\ ~SaysIdle(Ack(c, TRUE))
    BY <1>6 DEF IsMark, LiveMark, SaysIdle
  <2>3. ~TakenSteer(Ack(c, TRUE))
    BY <1>6, <2>1 DEF TakenSteer
  <2>4. ~TakenConfer(Ack(c, TRUE))
    BY <1>6, <2>1 DEF TakenConfer
  <2>5. QED BY <2>2, <2>3, <2>4 DEF Trace, Witness
<1>8. PICK k \in worker.missed .. n :
           /\ k \in Nat /\ l \in Nat /\ DOMAIN toHub = 1 .. l /\ DOMAIN toHub' = 1 .. l + k + 1 /\ n \in Nat
           /\ \A j \in 1 .. l : toHub'[j] = toHub[j]
           /\ \A i \in 1 .. k : /\ toHub'[l + i] = Replayed(k)[i]
                                /\ Replayed(k)[i].t = "mark" /\ Replayed(k)[i].replay = TRUE
                                /\ Replayed(k)[i].kind = worker.marks[n - k + i].kind
                                /\ Replayed(k)[i].of = worker.marks[n - k + i].of
                                /\ n - k + i \in 1 .. n
           /\ toHub'[l + k + 1] = Ack(c, TRUE)
  BY <1>2
<1> HIDE DEF c, l, n
<1>9. k <= n /\ Len(toHub') = l + k + 1
  <2> DEFINE m == Len(toHub')
  <2>1. DOMAIN toHub' = 1 .. m /\ m \in Nat
    BY DEF Types
  <2> HIDE DEF m
  <2>2. k \in Nat /\ l \in Nat /\ 1 .. m = 1 .. l + k + 1 /\ n \in Nat
    BY <1>8, <2>1
  <2>3. l + k + 1 \in 1 .. l + k + 1 /\ 1 \in 1 .. l + k + 1
    BY <2>2
  <2>4. l + k + 1 <= m /\ m \in 1 .. m
    BY <2>1, <2>2, <2>3
  <2>5. m <= l + k + 1
    BY <2>2, <2>4
  <2>6. m = l + k + 1
    BY <2>1, <2>2, <2>4, <2>5
  <2>7. k <= n
    BY <1>8, <2>2
  <2>8. QED BY <2>6, <2>7 DEF m
<1>10. \A j \in DOMAIN toHub' :
         /\ j \in Nat
         /\ \/ j \in DOMAIN toHub /\ toHub'[j] = toHub[j] /\ j <= l
            \/ j > l /\ j <= l + k /\ IsMark(toHub'[j]) /\ toHub'[j].replay /\ j - l \in 1 .. k /\ j = l + (j - l)
            \/ j = l + k + 1 /\ toHub'[j] = Ack(c, TRUE)
  <2> SUFFICES ASSUME NEW j \in DOMAIN toHub'
               PROVE  /\ j \in Nat
                      /\ \/ j \in DOMAIN toHub /\ toHub'[j] = toHub[j] /\ j <= l
                         \/ j > l /\ j <= l + k /\ IsMark(toHub'[j]) /\ toHub'[j].replay /\ j - l \in 1 .. k /\ j = l + (j - l)
                         \/ j = l + k + 1 /\ toHub'[j] = Ack(c, TRUE)
    OBVIOUS
  <2>0. l \in Nat /\ k \in Nat /\ j \in Nat \ {0} /\ j <= l + k + 1
    BY <1>8
  <2>1. CASE j <= l
    <3>1. j \in 1 .. l
      BY <2>0, <2>1
    <3>2. QED BY <1>8, <2>0, <2>1, <3>1
  <2>2. CASE j > l /\ j <= l + k
    <3>1. j - l \in 1 .. k /\ j = l + (j - l)
      BY <2>0, <2>2
    <3>2. toHub'[l + (j - l)] = Replayed(k)[j - l] /\ Replayed(k)[j - l].t = "mark" /\ Replayed(k)[j - l].replay = TRUE
      BY <1>8, <3>1
    <3>3. IsMark(toHub'[j]) /\ toHub'[j].replay
      BY <3>1, <3>2 DEF IsMark
    <3>4. QED BY <2>0, <2>2, <3>1, <3>3
  <2>3. CASE j > l + k
    <3>1. j = l + k + 1
      BY <2>0, <2>3
    <3>2. QED BY <1>8, <2>0, <3>1
  <2>4. j <= l \/ (j > l /\ j <= l + k) \/ j > l + k
    BY <2>0
  <2>5. QED BY <2>1, <2>2, <2>3, <2>4
<1>11. /\ \A q \in DOMAIN toWorker : ~DoesTurn(toWorker[q])
       /\ \A j \in DOMAIN toHub : ~Starts(toHub[j])
  BY <1>5 DEF TurnInv, OneTurn, FirstStart
<1>12. \A q \in DOMAIN toWorker' : ~DoesTurn(toWorker'[q])
  BY <1>4, <1>11
<1>13. ~Coming' /\ OneTurn' /\ ListAhead'
  BY <1>12 DEF Coming, OneTurn, ListAhead
<1>14. \A j \in DOMAIN toHub' : Witness(toHub'[j]) \/ Starts(toHub'[j]) \/ TakenConfer(toHub'[j]) \/ SaysIdle(toHub'[j])
         => j \in DOMAIN toHub /\ toHub'[j] = toHub[j]
  BY <1>6, <1>7, <1>10 DEF IsMark, Witness, Starts, LiveMark, TakenSteer, TakenConfer, SaysIdle
<1>15. FirstStart'
  BY <1>11, <1>14 DEF FirstStart
<1>16. RingTrue' /\ TurnsFail'
  BY <1>3 DEF TurnInv, RingTrue, TurnsFail
<1>17. MarksTrue'
  <2> SUFFICES ASSUME NEW j \in DOMAIN toHub', IsMark(toHub'[j]), NoMarks(j, Len(toHub) + 1)'
               PROVE  toHub'[j].kind = "started" <=> worker.on
    BY <1>3 DEF MarksTrue
  <2>1. \A i \in DOMAIN toHub' : j < i => ~IsMark(toHub'[i])
    BY <1>8, <1>9 DEF NoMarks
  <2>2. CASE k = 0
    <3>1. j \in DOMAIN toHub /\ toHub'[j] = toHub[j]
      <4>1. toHub'[j] # Ack(c, TRUE)
        BY <1>7
      <4>2. j \in Nat /\ l \in Nat /\ l + k = l
        BY <1>8, <1>10, <2>2
      <4>3. ~(j > l /\ j <= l + k)
        BY <4>2
      <4>4. QED BY <1>10, <4>1, <4>3
    <3>2. NoMarks(j, Len(toHub) + 1)
      BY <1>8, <2>1 DEF NoMarks
    <3>3. QED BY <3>1, <3>2 DEF TurnInv, MarksTrue
  <2>3. CASE k > 0
    <3>1. k \in 1 .. k /\ l + k \in DOMAIN toHub' /\ n - k + k = n /\ n \in Nat \ {0}
      BY <1>8, <1>9, <2>3
    <3>2. toHub'[l + k].t = "mark" /\ toHub'[l + k].kind = worker.marks[n].kind
      BY <1>8, <3>1
    <3>3. ~(j < l + k)
      BY <2>1, <3>1, <3>2 DEF IsMark
    <3>4. j <= l + k
      <4>1. toHub'[j] # Ack(c, TRUE)
        BY <1>7
      <4>2. \/ j <= l
            \/ j <= l + k
        BY <1>10, <4>1
      <4>3. QED BY <1>8, <1>10, <4>2
    <3>5. j = l + k
      BY <1>8, <3>3, <3>4
    <3>6. worker.marks # << >>
      BY <3>1, EmptyChannels DEF n
    <3>7. worker.marks[n].kind = "started" <=> worker.on
      BY <3>6 DEF TurnInv, RingTrue, n
    <3>8. QED BY <3>2, <3>5, <3>7
  <2>4. QED BY <1>8, <2>2, <2>3
<1>18. \A i, j \in Nat : j <= l + 1 => (NoMarks(i, j) <=> NoMarks(i, j)')
  BY <1>8 DEF NoMarks
<1>19. Evidence'
  <2> SUFFICES ASSUME NEW j \in DOMAIN toHub', Witness(toHub'[j])
               PROVE  \/ \E i \in DOMAIN toHub' : i < j /\ IsMark(toHub'[i]) /\ toHub'[i].kind = "started" /\ NoMarks(i, j)'
                      \/ NoMarks(0, j)' /\ ~Rest'
    BY DEF Evidence
  <2>1. j \in DOMAIN toHub /\ Witness(toHub[j]) /\ j \in Nat /\ j <= l + 1 /\ Rest' = Rest
    BY <1>3, <1>8, <1>14 DEF Rest
  <2>2. CASE \E i \in DOMAIN toHub : i < j /\ IsMark(toHub[i]) /\ toHub[i].kind = "started" /\ NoMarks(i, j)
    BY <1>8, <1>18, <2>1, <2>2
  <2>3. CASE NoMarks(0, j) /\ ~Rest
    BY <1>18, <2>1, <2>3
  <2>4. QED BY <2>1, <2>2, <2>3 DEF TurnInv, Evidence
<1>20. Knows' /\ Lost' /\ StoredToo'
  <2>1. NoMarks(0, Len(toHub) + 1)' => NoMarks(0, Len(toHub) + 1)
    BY <1>8, <1>9 DEF NoMarks
  <2>2. Knows'
    BY <1>3, <2>1 DEF TurnInv, Knows, Rest
  <2>3. \A d \in calls : d.kind # "first"
    BY <1>5, KindFacts
  <2>4. Lost'
    BY <1>2, <1>3, <2>3 DEF Lost
  <2>5. QED BY <1>3, <1>13, <2>2, <2>4 DEF TurnInv, StoredToo
<1>21. ListSays'
  BY <1>5, <1>14, AskedLists DEF ListSays
<1>22. ListSaid'
  BY <1>3, <1>5 DEF ListSaid, SaidIdle
<1>23. Authority'
  BY <1>3, <1>12 DEF TurnInv, Authority, Tainted
<1>24. Earned'
  BY <1>3, <1>13, <1>14 DEF Accepted, TurnInv, Earned
<1>25. QED
  BY <1>13, <1>15, <1>16, <1>17, <1>19, <1>20, <1>21, <1>22, <1>23, <1>24 DEF TurnInv

\* The socket closes, or the hub goes, while the hub knows of the turn that runs, if any.
LEMMA TurnClosed ==
  ASSUME CallInv, TurnInv, Closed,
         worker'.held = worker.held, worker'.on = worker.on, worker'.active = worker.active,
         worker'.marks = worker.marks, worker'.op = worker.op,
         origin' = origin, hub'.opTurn => hub.opTurn,
         worker.on => /\ hub'.status = "active" /\ stored' = "active"
                      /\ \A c \in calls' : c.outcome = "fail" /\ c.kind \notin TurnKinds
  PROVE  TurnInv'
<1>1. ~link' /\ DOMAIN toHub' = {} /\ DOMAIN toWorker' = {}
  BY EmptyChannels DEF Closed
<1>2. RingTrue'
  BY DEF TurnInv, RingTrue
<1>3. CASE ~worker.on
  BY <1>1, <1>2, <1>3, Calm DEF TurnsFail
<1>4. CASE worker.on
  <2>1. MarksTrue' /\ FirstStart' /\ Evidence' /\ OneTurn' /\ ListAhead' /\ ListSays'
    BY <1>1 DEF MarksTrue, FirstStart, Evidence, OneTurn, ListAhead, ListSays
  <2>2. ~Rest'
    BY <1>4 DEF Rest
  <2>3. Knows' /\ StoredToo'
    BY <1>4, <2>2 DEF Knows, StoredToo
  <2>4. Lost'
    BY <1>1, <1>4 DEF Lost, NoMarks
  <2>5. ListSaid' /\ TurnsFail'
    BY <1>4 DEF ListSaid, SaidIdle, TurnsFail
  <2>6. Tainted' => Tainted
    BY <1>1 DEF Tainted
  <2>7. Authority'
    BY <2>6 DEF TurnInv, Authority
  <2>8. Earned'
    BY <1>1, <1>4 DEF Earned, Accepted
  <2>9. QED BY <1>2, <2>1, <2>3, <2>4, <2>5, <2>7, <2>8 DEF TurnInv
<1>5. QED BY <1>3, <1>4 DEF CallInv, Types, WorkerStates

\* What is open when contact is lost has failed.
LEMMA AllFailed ==
  ASSUME Types, Settled = {}
  PROVE  \A d \in Failed : d.outcome = "fail" /\ \E c \in calls : d.kind = c.kind
BY FailedCalls, AnsweredFields DEF Settled, Types

LEMMA TurnDrop ==
  ASSUME CallInv, TurnInv, Types', Careful, Drop
  PROVE  TurnInv'
<1>1. Types
  BY DEF CallInv
<1>2. /\ Closed /\ calls' = Failed /\ UNCHANGED <<hub, stored, origin>> /\ Settled = {} /\ TurnSafe
      /\ worker' = [WorkerWithout(calls) EXCEPT !.missed = LostMarks]
  BY DEF Drop, Fault, durable
<1>3. /\ worker'.held = worker.held /\ worker'.on = worker.on /\ worker'.active = worker.active
      /\ worker'.marks = worker.marks /\ worker'.op = worker.op
  BY <1>1, <1>2, LostWorker
<1>4. worker.on => hub.status = "active" /\ \A c \in calls : c.kind \notin TurnKinds
  BY <1>2 DEF TurnSafe, Careful
<1>5. worker.on => stored = "active"
  BY <1>4 DEF TurnInv, StoredToo
<1>6. worker.on => \A c \in calls' : c.outcome = "fail" /\ c.kind \notin TurnKinds
  BY <1>1, <1>2, <1>4, AllFailed
<1>7. QED BY <1>2, <1>3, <1>4, <1>5, <1>6, TurnClosed

LEMMA TurnHubEnds ==
  ASSUME CallInv, TurnInv, Types', Careful, HubEnds
  PROVE  TurnInv'
<1>1. Types
  BY DEF CallInv
<1>2. /\ Closed /\ calls' = {} /\ UNCHANGED <<stored, origin>> /\ TurnSafe /\ hub' = Booted(stored)
      /\ worker' = [WorkerWithout(calls) EXCEPT !.missed = LostMarks]
  BY DEF HubEnds, durable
<1>3. /\ worker'.held = worker.held /\ worker'.on = worker.on /\ worker'.active = worker.active
      /\ worker'.marks = worker.marks /\ worker'.op = worker.op
  BY <1>1, <1>2, LostWorker
<1>4. hub'.status = stored /\ ~hub'.opTurn
  BY <1>1, <1>2, BootedFields DEF Types
<1>5. worker.on => stored = "active"
  BY <1>2 DEF TurnSafe, Careful, TurnInv, StoredToo
<1>6. QED BY <1>2, <1>3, <1>4, <1>5, TurnClosed

LEMMA TurnRespawn ==
  ASSUME CallInv, TurnInv, Types', Respawn
  PROVE  TurnInv'
BY TypesConsequences, EmptyChannels, SpawnedTyped, Calm DEF CallInv, Respawn, Closed, RingTrue, TurnsFail

LEMMA TurnConnect ==
  ASSUME CallInv, TurnInv, Types', Connect
  PROVE  TurnInv'
<1> DEFINE c == Call("first", {}, {})
<1>1. Types /\ Down
  BY DEF CallInv
<1>2. /\ hub.up /\ ~link /\ Settled = {} /\ link' = TRUE
      /\ calls' = calls \cup {c} /\ toWorker' = <<Do(c)>>
      /\ UNCHANGED <<worker, toHub, stored, origin>> /\ hub' = [hub EXCEPT !.fresh = hub.fresh \cup {"first"}]
  BY DEF Connect, durable
<1>3. toHub = << >> /\ calls = {} /\ DOMAIN toHub = {}
  BY <1>1, <1>2, EmptyChannels DEF Down, Settled
<1>4. hub'.status = hub.status /\ hub'.opTurn = hub.opTurn /\ hub'.busy = hub.busy /\ calls' = {c}
  BY <1>1, <1>2, <1>3 DEF Types, HubStates
<1>5. c.kind = "first" /\ c.outcome = "sent" /\ Do(c).t = "do" /\ Do(c).call = c /\ Do(c) \in WorkerFrames
  BY CallTyped, KindFacts, FramesTyped, FrameFields DEF Call
<1> HIDE DEF c
<1>6. DOMAIN toWorker' = {1} /\ toWorker'[1] = Do(c)
  BY <1>2, <1>5, ShortSequences
<1>7. ~DoesTurn(Do(c))
  BY <1>5, KindFacts DEF DoesTurn
<1>8. \A q \in DOMAIN toWorker' : ~DoesTurn(toWorker'[q])
  BY <1>6, <1>7
<1>9. ~Coming' /\ OneTurn' /\ ListAhead'
  BY <1>8 DEF Coming, OneTurn, ListAhead
<1>10. MarksTrue' /\ FirstStart' /\ Evidence' /\ ListSays'
  BY <1>2, <1>3 DEF MarksTrue, FirstStart, Evidence, ListSays
<1>11. RingTrue'
  BY <1>2 DEF TurnInv, RingTrue
<1>12. worker.on => hub.status = "active"
  BY <1>2 DEF TurnInv, Lost
<1>13. Knows' /\ Lost' /\ StoredToo'
  BY <1>2, <1>3, <1>4, <1>9, <1>12 DEF TurnInv, Knows, Rest, Lost, NoMarks, StoredToo
<1>14. ListSaid' /\ TurnsFail'
  BY <1>4, <1>5, KindFacts DEF ListSaid, SaidIdle, TurnsFail
<1>15. Authority'
  BY <1>2, <1>4, <1>8 DEF TurnInv, Authority, Tainted
<1>16. Earned'
  BY <1>2, <1>3, <1>4, <1>5 DEF Earned, Accepted
<1>17. QED
  BY <1>9, <1>10, <1>11, <1>13, <1>14, <1>15, <1>16 DEF TurnInv

\* A frame whose call is given up is like it was.
LEMMA WithoutAlike ==
  ASSUME NEW c \in CallSet, NEW f \in HubFrames \cup WorkerFrames
  PROVE  Alike(FrameWithout(f, {c}), f)
<1> DEFINE g == FrameWithout(f, {c})
<1>1. CASE f.t \in {"do", "ack", "live"}
  <2>1. f.call \in CallSet /\ f \in Acks \cup Lives \cup [t : {"do"}, call : CallSet]
    BY <1>1 DEF HubFrames, WorkerFrames, Acks, Lives, Marks, Notice
  <2> DEFINE d == GivenUp(f.call, {c})
  <2>2. g = [f EXCEPT !.call = d]
    BY <1>1 DEF FrameWithout
  <2>3. d.kind = f.call.kind /\ d.inputs = f.call.inputs /\ (d.outcome = "sent" => d = f.call)
    BY <2>1, GivenUpCall
  <2> HIDE DEF d, g
  <2>4. g.t = f.t /\ g.call = d /\ (f.t = "ack" => g.ok = f.ok) /\ (d = f.call => g = f)
    BY <2>1, <2>2 DEF Acks, Lives
  <2>5. QED BY <1>1, <2>3, <2>4 DEF Alike, g
<1>2. CASE f.t \notin {"do", "ack", "live"}
  BY <1>2, AlikeItself DEF FrameWithout
<1>3. QED BY <1>1, <1>2

LEMMA TurnTimeout ==
  ASSUME CallInv, TurnInv, Types', Careful, Timeout
  PROVE  TurnInv'
<1>1. Types
  BY DEF CallInv
<1>2. PICK c \in calls :
        /\ c \in CallSet /\ c.outcome = "sent"
        /\ c.kind \in TurnKinds => "turnLost" \in Env
        /\ calls' = (calls \ {c}) \cup {Answered(c, "fail")}
        /\ toHub' = FramesWithout(toHub, {c})
        /\ toWorker' = FramesWithout(toWorker, {c})
        /\ worker' = WorkerWithout({c})
        /\ UNCHANGED <<hub, link, stored, origin>>
  BY <1>1, TimeoutStep
<1>3. c.kind \notin TurnKinds
  BY <1>2 DEF Careful
<1> DEFINE d == Answered(c, "fail")
<1>4. d.kind = c.kind /\ d.outcome = "fail" /\ calls' = (calls \ {c}) \cup {d}
  BY <1>2, AnsweredFields
<1> HIDE DEF d
<1>5. toHub \in Seq(HubFrames) /\ toWorker \in Seq(WorkerFrames)
  BY <1>1 DEF Types
<1>6. DOMAIN toHub' = DOMAIN toHub /\ DOMAIN toWorker' = DOMAIN toWorker /\ DOMAIN toWorker \subseteq Nat
  BY <1>1, <1>2, <1>5, HubFramesWithout, WorkerFramesWithout, TypesConsequences
<1>7. \A j \in DOMAIN toHub : Alike(toHub'[j], toHub[j])
  BY <1>2, <1>5, WithoutAlike DEF FramesWithout
<1>8. \A q \in DOMAIN toWorker : Alike(toWorker'[q], toWorker[q])
  BY <1>2, <1>5, WithoutAlike DEF FramesWithout
<1>9. /\ worker'.held = worker.held /\ worker'.on = worker.on /\ worker'.active = worker.active
      /\ worker'.marks = worker.marks /\ worker'.op = worker.op
  BY <1>1, <1>2, WorkerWithoutFields
<1>10. AttachRuns' => AttachRuns
  BY <1>4, <1>6, <1>7, <1>8 DEF Alike, DoesAttach, IsMark, AttachRuns
<1>11. /\ 0 \in Nat
       /\ \A q \in DOMAIN toWorker' : q + 0 \in DOMAIN toWorker /\ Alike(toWorker'[q], toWorker[q + 0])
  BY <1>6, <1>8
<1>12. /\ \A j \in DOMAIN toHub : j \in DOMAIN toHub' /\ Alike(toHub'[j], toHub[j])
       /\ \A j \in DOMAIN toHub' : j \in DOMAIN toHub
  BY <1>6, <1>7
<1>13. ~Rest => ~Rest'
  BY <1>2 DEF Rest
<1>14. hub'.status = "active" /\ (worker.on \/ Coming) => stored' = "active"
  BY <1>2 DEF TurnInv, StoredToo
<1>15. (~link \/ \E e \in calls' : e.kind = "first") /\ worker.on =>
         hub'.status = "active" /\ NoMarks(0, Len(toHub) + 1)
  BY <1>2, <1>4 DEF TurnInv, Lost
<1>16. \A e \in calls' : /\ SaidIdle(e) => e \in calls
                         /\ e.kind \in TurnKinds /\ e.outcome = "fail" => e \in calls
                         /\ e.kind = "confer" /\ e.outcome = "ok" => e \in calls
  BY <1>3, <1>4 DEF SaidIdle
<1>17. QED BY <1>2, <1>9, <1>10, <1>11, <1>12, <1>13, <1>14, <1>15, <1>16, TurnKept

LEMMA TurnStarts ==
  ASSUME Init
  PROVE  TurnInv
<1>1. /\ calls = {} /\ DOMAIN toHub = {} /\ DOMAIN toWorker = {}
      /\ worker.on = FALSE /\ worker.active = FALSE /\ worker.marks = << >>
  BY SpawnedTyped, EmptyChannels DEF Init
<1>2. ~Coming /\ ~Tainted /\ ~Accepted
  BY <1>1 DEF Coming, Tainted, Accepted
<1>3. MarksTrue /\ RingTrue /\ OneTurn /\ FirstStart /\ Evidence
  BY <1>1 DEF MarksTrue, RingTrue, OneTurn, FirstStart, Evidence
<1>4. Knows /\ StoredToo /\ Lost /\ ListAhead /\ ListSays /\ ListSaid /\ TurnsFail
  BY <1>1, <1>2 DEF Knows, StoredToo, Lost, ListAhead, ListSays, ListSaid, TurnsFail
<1>5. Authority /\ Earned
  BY <1>2 DEF Authority, Earned
<1>6. QED BY <1>3, <1>4, <1>5 DEF TurnInv

LEMMA TurnStep ==
  ASSUME CallInv, TurnInv, Careful, [Next]_vars
  PROVE  TurnInv'
<1>1. Types /\ Types'
  BY TypesStep DEF CallInv
<1>2. CASE UNCHANGED vars
  BY <1>1, <1>2, UnshiftedCommands, TurnSends DEF vars, channel, durable
<1>3. CASE Next
  <2>1. ASSUME NEW i \in Inputs, SendSteer(i) \/ SendFresh(i) PROVE TurnInv'
    BY <1>1, <2>1, TurnSendSteer, TurnSendFresh
  <2>2. ASSUME NEW m \in Mail, Post(m) PROVE TurnInv'
    BY <1>1, <2>2, TurnPost
  <2>3. CASE ReadInbox \/ Freeze \/ Thaw \/ HubBoots
    BY <1>1, <2>3, TurnSimple
  <2>4. CASE Deliver \/ HubReply \/ HubMark
    BY <1>1, <2>4, TurnDeliver, TurnHubReply, TurnHubMark
  <2>5. ASSUME NEW c \in calls,
               TurnReturns(c) \/ Confers(c) \/ StaysQueued(c) \/ KeptReturns(c)
               \/ MailTaken(c) \/ MailRefused(c) \/ Rechecked(c)
               \/ AttachFirst(c) \/ AttachReplayed(c) \/ AttachSecond(c) \/ AttachFails(c)
        PROVE  TurnInv'
    <3>1. CASE TurnReturns(c) \/ Confers(c) \/ StaysQueued(c) \/ KeptReturns(c) \/ AttachFails(c) \/ MailTaken(c)
      BY <1>1, <3>1, TurnTurnReturns, TurnConfers, TurnContinue
    <3>2. CASE MailRefused(c) \/ Rechecked(c) \/ AttachFirst(c) \/ AttachReplayed(c) \/ AttachSecond(c)
      BY <1>1, <3>2, TurnMailRefused, TurnRechecked, TurnAttachFirst, TurnAttachReplayed, TurnAttachSecond
    <3>3. QED BY <2>5, <3>1, <3>2
  <2>6. CASE WorkerStart \/ WorkerRefuse \/ WorkerSteer \/ WorkerNotice \/ WorkerList \/ WorkerAttach
    BY <1>1, <2>6, TurnWorkerStart, TurnWorkerRefuse, TurnWorkerSteer, TurnWorkerNotice, TurnWorkerList, TurnWorkerAttach
  <2>7. CASE WorkerAckStart \/ VendorSteer \/ VendorEnd
    BY <1>1, <2>7, TurnWorkerAckStart, TurnVendorSteer, TurnVendorEnd
  <2>8. CASE Connect \/ Drop \/ Respawn \/ HubEnds \/ Timeout
    BY <1>1, <2>8, TurnConnect, TurnDrop, TurnRespawn, TurnHubEnds, TurnTimeout
  <2>9. QED BY <1>3, <2>1, <2>2, <2>3, <2>4, <2>5, <2>6, <2>7, <2>8, Cases
<1>4. QED BY <1>2, <1>3

LEMMA AuthorityEarned ==
  ASSUME TurnInv
  PROVE  OperatorAuthorityEarned
BY DEF TurnInv, Authority, Tainted, OperatorAuthorityEarned

\* A turn that the hub takes for the operator's was given operator input, if no contact is lost
\* and nothing is started while the hub is not sure of the turn that runs (Careful): a reply,
\* a marker or a replay that arrives late, a restart or an accepted steer never leaves the
\* authority to a turn that mail has started (sessions.ts, operatorTurnSessions).
THEOREM OperatorAuthorityCorrect == Careful => (Spec => []OperatorAuthorityEarned)
<1> SUFFICES ASSUME Careful PROVE Spec => []OperatorAuthorityEarned
  OBVIOUS
<1>1. Init => CallInv /\ TurnInv
  BY CallsInit, TurnStarts
<1>2. CallInv /\ TurnInv /\ [Next]_vars => (CallInv /\ TurnInv)'
  BY CallsStep, TurnStep
<1>3. CallInv /\ TurnInv => OperatorAuthorityEarned
  BY AuthorityEarned
<1>4. QED BY <1>1, <1>2, <1>3, PTL DEF Spec
====
