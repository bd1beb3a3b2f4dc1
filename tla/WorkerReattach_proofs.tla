----------------------- MODULE WorkerReattach_proofs ------------------------
(***************************************************************************)
(* For every ring bound, environment and bound of WorkerReattach: the      *)
(* worker's ring, types, the durable replay cursor, and the operator's     *)
(* Stop.                                                                   *)
(*                                                                         *)
(* Then its exactly-once ingest, without the six interleavings that        *)
(* Ordinary excludes: no output is lost unseen, and the hub, the worker    *)
(* and the socket implement ExactlyOnceLog.                                *)
(***************************************************************************)
EXTENDS WorkerReattach, WorkerReattachLog, SequenceTheorems, TLAPS

-----------------------------------------------------------------------------
(* What the worker's ring promises for every bound, every kind of event    *)
(* and every cursor.                                                       *)

\* What append() preserves: the window is within its bound and within what was assigned.
WellFormed(r, Kinds) ==
  /\ r \in Rings(Kinds)
  /\ Len(r.kinds) <= MaxPerSession
  /\ Len(r.kinds) <= r.last

\* A forgotten session starts from a well-formed ring.
LEMMA EmptyRingWellFormed ==
  ASSUME NEW Kinds
  PROVE  WellFormed(EmptyRing, Kinds)
BY MaxPerSessionAssumption DEF WellFormed, EmptyRing, Rings

\* Trimming keeps the newest events, at most MaxPerSession of them.
LEMMA TrimmedWindow ==
  ASSUME NEW Kinds, NEW ks \in Seq(Kinds)
  PROVE  /\ Trimmed(ks) \in Seq(Kinds)
         /\ Len(Trimmed(ks)) = IF Len(ks) > MaxPerSession THEN MaxPerSession ELSE Len(ks)
         /\ \A i \in 1 .. Len(Trimmed(ks)) :
              Trimmed(ks)[i] = ks[Len(ks) - Len(Trimmed(ks)) + i]
<1>1. CASE Len(ks) > MaxPerSession
  BY <1>1, MaxPerSessionAssumption DEF Trimmed
<1>2. CASE ~(Len(ks) > MaxPerSession)
  BY <1>2, MaxPerSessionAssumption DEF Trimmed
<1>3. QED BY <1>1, <1>2

\* append() assigns the next wseq, retains the event it was given as the newest,
\* keeps every survivor under the wseq it had, and never exceeds the bound.
THEOREM AppendKeepsWindow ==
  ASSUME NEW Kinds, NEW r, WellFormed(r, Kinds), NEW k \in Kinds
  PROVE  LET s == RingAppend(r, k)
         IN  /\ WellFormed(s, Kinds)
             /\ s.last = r.last + 1
             /\ Len(s.kinds) > 0 /\ s.kinds[Len(s.kinds)] = k
             /\ \A i \in 1 .. Len(s.kinds) - 1 :
                  \E j \in 1 .. Len(r.kinds) :
                    s.kinds[i] = r.kinds[j] /\ WseqAt(s, i) = WseqAt(r, j)
<1> DEFINE s  == RingAppend(r, k)
           ks == Append(r.kinds, k)
           n  == Len(Trimmed(ks))
<1>0. r.kinds \in Seq(Kinds)
  BY DEF WellFormed, Rings
<1>1. /\ r.last \in Nat
      /\ Len(r.kinds) <= MaxPerSession /\ Len(r.kinds) <= r.last
  BY DEF WellFormed, Rings
<1>2. /\ ks \in Seq(Kinds) /\ Len(ks) = Len(r.kinds) + 1
      /\ ks[Len(r.kinds) + 1] = k
      /\ \A j \in 1 .. Len(r.kinds) : ks[j] = r.kinds[j]
  BY <1>0
<1>3. /\ Trimmed(ks) \in Seq(Kinds)
      /\ n = IF Len(r.kinds) + 1 > MaxPerSession THEN MaxPerSession ELSE Len(r.kinds) + 1
      /\ \A i \in 1 .. n : Trimmed(ks)[i] = ks[Len(r.kinds) + 1 - n + i]
  <2> HIDE DEF ks
  <2>1. /\ Trimmed(ks) \in Seq(Kinds)
        /\ Len(Trimmed(ks)) = IF Len(ks) > MaxPerSession THEN MaxPerSession ELSE Len(ks)
        /\ \A i \in 1 .. Len(Trimmed(ks)) :
             Trimmed(ks)[i] = ks[Len(ks) - Len(Trimmed(ks)) + i]
    BY <1>2, TrimmedWindow
  <2>2. QED BY <1>2, <2>1
<1>4. s = [last |-> r.last + 1, kinds |-> Trimmed(ks)]
  BY DEF RingAppend
<1>5. s.last = r.last + 1 /\ s.kinds = Trimmed(ks) /\ Len(s.kinds) = n
  BY <1>4
<1> HIDE DEF s, ks, n
<1>6. n \in Nat /\ n > 0 /\ n <= Len(r.kinds) + 1 /\ n <= MaxPerSession
  BY <1>1, <1>3, MaxPerSessionAssumption
<1>7. WellFormed(s, Kinds)
  BY <1>1, <1>3, <1>4, <1>5, <1>6 DEF Rings, WellFormed
<1>8. s.kinds[n] = k
  BY <1>1, <1>2, <1>3, <1>5, <1>6
<1>9. ASSUME NEW i \in 1 .. n - 1
      PROVE  \E j \in 1 .. Len(r.kinds) :
               s.kinds[i] = r.kinds[j] /\ WseqAt(s, i) = WseqAt(r, j)
  <2> DEFINE j == Len(r.kinds) + 1 - n + i
  <2>1. i \in 1 .. n /\ j \in 1 .. Len(r.kinds)
    BY <1>1, <1>6
  <2>2. s.kinds[i] = r.kinds[j]
    BY <1>2, <1>3, <1>5, <2>1
  <2>3. WseqAt(s, i) = WseqAt(r, j)
    BY <1>1, <1>5, <1>6 DEF WseqAt
  <2>4. QED BY <2>1, <2>2, <2>3
<1>10. QED BY <1>5, <1>6, <1>7, <1>8, <1>9 DEF s

-----------------------------------------------------------------------------
\* Survivors() returns the retained events past the cursor and nothing else: the
\* i-th carries the wseq it was appended with, and they run up to the newest one.
LEMMA SurvivorsWindow ==
  ASSUME NEW Kinds, NEW r, WellFormed(r, Kinds), NEW c \in Nat, Len(r.kinds) > 0
  PROVE  LET out == Survivors(r, c)
             lo  == IF HasGap(r, c) THEN OldestRetained(r) ELSE c + 1
         IN  /\ out \in Seq([wseq : Nat, kind : Kinds])
             /\ lo \in Nat /\ lo > c
             /\ Len(out) = IF lo > r.last THEN 0 ELSE r.last - lo + 1
             /\ \A i \in 1 .. Len(out) :
                  /\ out[i].wseq = lo + i - 1
                  /\ out[i].kind = r.kinds[lo + i - OldestRetained(r)]
                  /\ lo + i - OldestRetained(r) \in 1 .. Len(r.kinds)
<1> DEFINE out == Survivors(r, c)
           f   == FirstNewer(r, c)
           lo  == IF HasGap(r, c) THEN OldestRetained(r) ELSE c + 1
           m   == Len(r.kinds) - f + 1
<1>0. r.kinds \in Seq(Kinds)
  BY DEF WellFormed, Rings
<1>1. /\ r.last \in Nat /\ Len(r.kinds) \in Nat
      /\ Len(r.kinds) <= r.last /\ Len(r.kinds) > 0
  BY DEF WellFormed, Rings
<1>2. OldestRetained(r) = r.last - Len(r.kinds) + 1 /\ OldestRetained(r) \in Nat
  BY <1>1 DEF OldestRetained
<1>3. lo \in Nat /\ lo > c /\ lo >= OldestRetained(r)
  BY <1>2 DEF HasGap
<1>4. f = lo - OldestRetained(r) + 1 /\ f \in Nat /\ f >= 1
  BY <1>2, <1>3 DEF FirstNewer
<1>5. out = [i \in 1 .. m |-> [wseq |-> WseqAt(r, f + i - 1), kind |-> r.kinds[f + i - 1]]]
  BY DEF Survivors
<1> DEFINE Item(i) == [wseq |-> WseqAt(r, f + i - 1), kind |-> r.kinds[f + i - 1]]
           Item1(i) == /\ Item(i) \in [wseq : Nat, kind : Kinds]
                       /\ Item(i).wseq = lo + i - 1
                       /\ Item(i).kind = r.kinds[lo + i - OldestRetained(r)]
                       /\ lo + i - OldestRetained(r) \in 1 .. Len(r.kinds)
<1> HIDE DEF out, f, lo, m
<1>6. m \in Int /\ m = r.last - lo + 1
  BY <1>1, <1>3, <1>4 DEF m, OldestRetained
<1>7. ASSUME NEW i \in 1 .. m
      PROVE  Item1(i)
  <2>1. i \in Int /\ 1 <= i /\ i <= m
    BY <1>6
  <2>2. f + i - 1 \in 1 .. Len(r.kinds)
    BY <1>1, <1>4, <2>1 DEF m
  <2>3. r.kinds[f + i - 1] \in Kinds
    BY <1>0, <2>2
  <2>4. f + i - 1 = lo + i - OldestRetained(r)
    BY <1>2, <1>3, <1>4, <2>1
  <2>5. WseqAt(r, f + i - 1) = lo + i - 1 /\ WseqAt(r, f + i - 1) \in Nat
    <3>1. WseqAt(r, f + i - 1) = r.last - Len(r.kinds) + (f + i - 1)
      BY DEF WseqAt
    <3>2. f = lo - (r.last - Len(r.kinds) + 1) + 1
      BY <1>4 DEF OldestRetained
    <3>3. r.last - Len(r.kinds) + f = lo
      BY <1>1, <1>3, <1>4, <3>2
    <3>4. r.last - Len(r.kinds) + (f + i - 1) = (r.last - Len(r.kinds) + f) + i - 1
      BY <1>1, <1>4, <2>1
    <3>5. QED BY <1>3, <2>1, <3>1, <3>3, <3>4
  <2>6. QED BY <2>2, <2>3, <2>4, <2>5
<1>8. out = [i \in 1 .. m |-> Item(i)]
  BY <1>5
<1> HIDE DEF Item
<1>9. \A i \in 1 .. m : Item(i) \in [wseq : Nat, kind : Kinds]
  BY <1>7
<1>10. /\ out \in Seq([wseq : Nat, kind : Kinds])
       /\ Len(out) = IF lo > r.last THEN 0 ELSE r.last - lo + 1
       /\ \A i \in 1 .. Len(out) : i \in 1 .. m /\ out[i] = Item(i)
  <2>1. CASE m > 0
    <3>1. m \in Nat
      BY <1>6, <2>1
    <3>2. out \in Seq([wseq : Nat, kind : Kinds]) /\ Len(out) = m
      BY <1>8, <1>9, <3>1
    <3>3. \A i \in 1 .. m : out[i] = Item(i)
      BY <1>8
    <3>4. QED BY <1>1, <1>3, <1>6, <2>1, <3>2, <3>3
  <2>2. CASE ~(m > 0)
    <3>1. 1 .. m = {}
      BY <1>6, <2>2
    <3>2. out = << >>
      BY <1>8, <3>1
    <3>3. QED BY <1>1, <1>3, <1>6, <2>2, <3>2
  <2>3. QED BY <2>1, <2>2
<1>11. /\ out \in Seq([wseq : Nat, kind : Kinds])
       /\ lo \in Nat /\ lo > c
       /\ Len(out) = IF lo > r.last THEN 0 ELSE r.last - lo + 1
       /\ \A i \in 1 .. Len(out) :
            /\ out[i].wseq = lo + i - 1
            /\ out[i].kind = r.kinds[lo + i - OldestRetained(r)]
            /\ lo + i - OldestRetained(r) \in 1 .. Len(r.kinds)
  BY <1>3, <1>7, <1>10
<1>12. QED BY <1>11 DEF out, lo

\* since() hands a caller exactly what lies past its cursor: every wseq in the answer
\* is above the cursor, they strictly increase, and every assigned wseq above the
\* cursor is either there or covered by a sentinel at the front (wseqBuffer.ts:129-142).
THEOREM SinceIsComplete ==
  ASSUME NEW Kinds, NEW r, WellFormed(r, Kinds), NEW c \in Nat, Len(r.kinds) > 0
  PROVE  LET out == Since(r, c)
         IN  /\ \A i \in 1 .. Len(out) : out[i].wseq > c
             /\ \A i, j \in 1 .. Len(out) : i < j => out[i].wseq < out[j].wseq
             /\ \A w \in c + 1 .. r.last :
                  \E i \in 1 .. Len(out) :
                    \/ out[i].wseq = w /\ out[i].kind = r.kinds[w - OldestRetained(r) + 1]
                    \/ i = 1 /\ out[i].kind = "gap" /\ w <= out[i].wseq
<1> DEFINE out == Since(r, c)
           sv  == Survivors(r, c)
           old == OldestRetained(r)
           lo  == IF HasGap(r, c) THEN old ELSE c + 1
<1>1. /\ r.last \in Nat /\ old \in Nat /\ old >= 1 /\ old <= r.last
  BY DEF WellFormed, Rings, OldestRetained
<1>2. /\ sv \in Seq([wseq : Nat, kind : Kinds])
      /\ lo \in Nat /\ lo > c
      /\ Len(sv) = IF lo > r.last THEN 0 ELSE r.last - lo + 1
      /\ \A i \in 1 .. Len(sv) : sv[i].wseq = lo + i - 1 /\ sv[i].kind = r.kinds[lo + i - old]
  <2> HIDE DEF sv, lo, old
  <2>1. LET o == sv
            l == IF HasGap(r, c) THEN old ELSE c + 1
        IN  /\ o \in Seq([wseq : Nat, kind : Kinds])
            /\ l \in Nat /\ l > c
            /\ Len(o) = IF l > r.last THEN 0 ELSE r.last - l + 1
            /\ \A i \in 1 .. Len(o) :
                 /\ o[i].wseq = l + i - 1
                 /\ o[i].kind = r.kinds[l + i - old]
                 /\ l + i - old \in 1 .. Len(r.kinds)
    BY SurvivorsWindow DEF sv, old
  <2>2. lo = IF HasGap(r, c) THEN old ELSE c + 1
    BY DEF lo
  <2> HIDE DEF lo
  <2>3. QED BY <2>1, <2>2
<1>3. HasGap(r, c) => /\ out = <<GapSentinel(r)>> \o sv
                      /\ GapSentinel(r).wseq = old - 1 /\ GapSentinel(r).kind = "gap"
                      /\ lo = old /\ c + 1 < old
  BY DEF Since, GapSentinel, HasGap
<1>4. ~HasGap(r, c) => out = sv /\ lo = c + 1 /\ c + 1 >= old
  BY <1>1 DEF Since, HasGap
<1> HIDE DEF out, sv, lo, old
<1> DEFINE At(i, w) == \/ out[i].wseq = w /\ out[i].kind = r.kinds[w - old + 1]
                       \/ i = 1 /\ out[i].kind = "gap" /\ w <= out[i].wseq
<1>5. CASE HasGap(r, c)
  <2>1. /\ Len(out) = Len(sv) + 1 /\ out[1] = GapSentinel(r)
        /\ \A i \in 2 .. Len(out) : i - 1 \in 1 .. Len(sv) /\ out[i] = sv[i - 1]
    BY <1>2, <1>3, <1>5
  <2>2. Len(out) = r.last - old + 2
    BY <1>1, <1>2, <1>3, <1>5, <2>1
  <2>3. ASSUME NEW i \in 1 .. Len(out)
        PROVE  out[i].wseq = old + i - 2
    <3>1. CASE i = 1
      BY <3>1, <1>1, <1>3, <1>5, <2>1
    <3>2. CASE i # 1
      <4>1. i \in 2 .. Len(out) /\ i \in Int
        BY <3>2, <1>1, <2>2
      <4>2. out[i].wseq = lo + (i - 1) - 1
        BY <4>1, <2>1, <1>2
      <4>3. QED BY <4>1, <4>2, <1>1, <1>3, <1>5
    <3>3. QED BY <3>1, <3>2
  <2>4. ASSUME NEW w \in c + 1 .. r.last
        PROVE  \E i \in 1 .. Len(out) : At(i, w)
    <3>1. CASE w < old
      BY <1>1, <1>3, <1>5, <2>1, <2>2, <3>1
    <3>2. CASE w >= old
      <4>1. w - old + 2 \in 2 .. Len(out) /\ w \in Int
        BY <3>2, <1>1, <2>2
      <4>2. w - old + 1 \in 1 .. Len(sv) /\ out[w - old + 2] = sv[w - old + 1]
        BY <1>1, <2>1, <4>1
      <4>3. out[w - old + 2].kind = r.kinds[lo + (w - old + 1) - old]
        BY <4>2, <1>2
      <4>4. lo + (w - old + 1) - old = w - old + 1 /\ old + (w - old + 2) - 2 = w
        BY <4>1, <1>1, <1>3, <1>5
      <4>5. w - old + 2 \in 1 .. Len(out)
        BY <4>1, <1>1, <2>2
      <4>6. At(w - old + 2, w)
        BY <4>3, <4>4, <4>5, <2>3
      <4>7. QED BY <4>5, <4>6
    <3>3. QED BY <3>1, <3>2, <1>1
  <2>5. \A i \in 1 .. Len(out) : out[i].wseq > c
    BY <1>1, <1>3, <1>5, <2>2, <2>3
  <2>6. \A i, j \in 1 .. Len(out) : i < j => out[i].wseq < out[j].wseq
    BY <1>1, <2>2, <2>3
  <2>7. QED BY <2>4, <2>5, <2>6 DEF out, old
<1>6. CASE ~HasGap(r, c)
  <2>1. /\ out = sv /\ lo = c + 1 /\ c + 1 >= old
        /\ Len(out) = IF c + 1 > r.last THEN 0 ELSE r.last - c
    BY <1>1, <1>2, <1>4, <1>6
  <2>2. ASSUME NEW i \in 1 .. Len(out)
        PROVE  out[i].wseq = c + i /\ out[i].kind = r.kinds[c + 1 + i - old]
    <3>1. out[i].wseq = lo + i - 1 /\ out[i].kind = r.kinds[lo + i - old]
      BY <1>2, <2>1
    <3>2. QED BY <3>1, <2>1, <1>1
  <2>3. ASSUME NEW w \in c + 1 .. r.last
        PROVE  \E i \in 1 .. Len(out) : At(i, w)
    <3>1. w - c \in 1 .. Len(out) /\ c + (w - c) = w /\ c + 1 + (w - c) - old = w - old + 1
      BY <1>1, <2>1
    <3>2. out[w - c].wseq = w /\ out[w - c].kind = r.kinds[w - old + 1]
      BY <3>1, <2>2
    <3>3. QED BY <3>1, <3>2
  <2>4. \A i \in 1 .. Len(out) : out[i].wseq > c
    BY <1>1, <2>1, <2>2
  <2>5. \A i, j \in 1 .. Len(out) : i < j => out[i].wseq < out[j].wseq
    BY <1>1, <2>1, <2>2
  <2>6. QED BY <2>3, <2>4, <2>5 DEF out, old
<1>7. QED BY <1>5, <1>6

-----------------------------------------------------------------------------
(* Lemmas about messages, the ring and the journal.                        *)

\* Every message the worker or the hub builds is one of the protocol's.
LEMMA MessagesTyped ==
  /\ Welcome \in ToHubMsgs
  /\ \A e, w \in Nat, k \in {"text", "delta", "gap"} : EventMsg(e, w, k) \in ToHubMsgs
  /\ \A k \in Lifecycle, b \in BOOLEAN : TurnMsg(k, b) \in ToHubMsgs
  /\ \A r \in Runs, h, b \in BOOLEAN : LiveMsg(r, h, b) \in ToHubMsgs
  /\ \A n \in Nat : AckMsg(n) \in ToHubMsgs
  /\ \A r \in Runs : AttachAck(r) \in ToHubMsgs
  /\ \A r \in Runs : ListLive(r) \in ToWorkerMsgs
  /\ \A r \in Runs, c \in Nat \cup {NoCursor} : Attach(r, c) \in ToWorkerMsgs
  /\ \A n \in Nat : RunTurn(n) \in ToWorkerMsgs
  /\ StopSession \in ToWorkerMsgs
BY DEF Welcome, EventMsg, TurnMsg, LiveMsg, AckMsg, AttachAck, ListLive, Attach, RunTurn,
       StopSession, ToHubMsgs, ToWorkerMsgs, Lifecycle

\* What a received frame's type says of its fields.
LEMMA FrameFields ==
  ASSUME NEW m \in ToHubMsgs
  PROVE  /\ m.t = "event" => /\ m.era \in Nat /\ m.wseq \in Nat
                             /\ m.kind \in {"text", "delta", "gap"}
         /\ m.t = "turn" => m.kind \in Lifecycle /\ m.replay \in BOOLEAN
         /\ m.t = "live" => m.run \in Runs /\ m.held \in BOOLEAN /\ m.busy \in BOOLEAN
         /\ m.t = "ack" => m.call \in Nat
         /\ m.t = "attachAck" => m.run \in Runs
BY DEF ToHubMsgs

LEMMA CommandFields ==
  ASSUME NEW m \in ToWorkerMsgs
  PROVE  /\ m.t = "listLive" => m.run \in Runs
         /\ m.t = "attach" => m.run \in Runs /\ m.since \in Nat \cup {NoCursor}
         /\ m.t = "runTurn" => m.call \in Nat
BY DEF ToWorkerMsgs

\* emitEvent() keeps the session's ring well-formed.
LEMMA RingStep ==
  ASSUME WellFormed(ring, RingKinds), NEW k \in RingKinds
  PROVE  WellFormed(RingAppend(ring, k), RingKinds)
BY AppendKeepsWindow

\* What attach() re-sends is a sequence of messages, whatever the cursor.
LEMMA ReplayTyped ==
  ASSUME WellFormed(ring, RingKinds), Era \in Nat, NEW c \in Nat
  PROVE  Replay(c) \in Seq(ToHubMsgs)
<1> DEFINE Evs == [wseq : Nat, kind : RingKinds \cup {"gap"}]
           evs == Since(ring, c)
<1>1. evs \in Seq(Evs)
  <2>1. CASE ring.kinds = << >>
    BY <2>1 DEF Since
  <2>2. CASE ring.kinds # << >>
    <3>0. ring.kinds \in Seq(RingKinds)
      BY DEF WellFormed, Rings
    <3>1. Len(ring.kinds) > 0
      BY <2>2, <3>0
    <3>2. Survivors(ring, c) \in Seq([wseq : Nat, kind : RingKinds])
      BY <3>1, SurvivorsWindow
    <3>3. [wseq : Nat, kind : RingKinds] \subseteq Evs
      OBVIOUS
    <3>4. Survivors(ring, c) \in Seq(Evs)
      BY <3>2, <3>3, SeqMonotonic
    <3>5. OldestRetained(ring) - 1 \in Nat
      BY <3>0 DEF OldestRetained, WellFormed, Rings
    <3>6. <<GapSentinel(ring)>> \in Seq(Evs)
      BY <3>5 DEF GapSentinel
    <3>7. <<GapSentinel(ring)>> \o Survivors(ring, c) \in Seq(Evs)
      BY <3>4, <3>6, ConcatProperties
    <3>8. QED BY <2>2, <3>4, <3>7 DEF Since
  <2>3. QED BY <2>1, <2>2
<1>2. \A ev \in Evs : ReplayMessage(ev) \in ToHubMsgs
  BY MessagesTyped DEF ReplayMessage, RingKinds, Lifecycle
<1>3. Replay(c) = [i \in 1 .. Len(evs) |-> ReplayMessage(evs[i])]
  BY DEF Replay
<1> HIDE DEF evs
<1>4. Len(evs) \in Nat /\ \A i \in 1 .. Len(evs) : evs[i] \in Evs
  BY <1>1, ElementOfSeq, LenProperties
<1> HIDE DEF Evs
<1>5. \A i \in 1 .. Len(evs) : ReplayMessage(evs[i]) \in ToHubMsgs
  BY <1>2, <1>4
<1>6. QED BY <1>3, <1>4, <1>5

\* flushCommandOutputDelta() leaves a journal, a cursor and a guard.
LEMMA FlushTyped ==
  ASSUME DurableOK, HubOK
  PROVE  /\ Flushed \in Seq(Rows) /\ CursorFlushed \in Nat
         /\ GuardFlushed \in Nat \cup {NoGuard}
         /\ NoDelta \in Pendings
<1>1. DeltaRow(pending) \in Rows
  BY DEF HubOK, Pendings, DeltaRow, Rows
<1>2. Flushed \in Seq(Rows)
  BY <1>1 DEF DurableOK, Flushed
<1>3. CursorFlushed \in Nat
  BY <1>1 DEF DurableOK, CursorFlushed, Advance, Rows
<1>4. GuardFlushed \in Nat \cup {NoGuard}
  BY DEF HubOK, Pendings, GuardFlushed, Larger, NoGuard
<1>5. NoDelta \in Pendings
  BY DEF NoDelta, Pendings
<1>6. QED BY <1>2, <1>3, <1>4, <1>5

\* A row that is journaled advances the cursor to a wseq.
LEMMA AdvanceTyped ==
  ASSUME NEW c \in Nat, NEW row \in Rows
  PROVE  Advance(c, row) \in Nat
BY DEF Advance, Rows

LEMMA EventRowTyped ==
  ASSUME NEW e \in ToHubMsgs, e.t = "event"
  PROVE  EventRow(e) \in Rows
BY FrameFields DEF EventRow, Rows

LEMMA TouchedTyped ==
  ASSUME NEW rs \in [Runs -> RunStates]
  PROVE  Touched(rs) \in [Runs -> RunStates]
BY DEF Touched, RunStates

LEMMA IdleRunTyped ==
  /\ IdleRun \in RunStates /\ BootRuns \in [Runs -> RunStates]
  /\ \A pc \in RunPcs : busy \in BOOLEAN => Listing(pc) \in RunStates
BY DEF IdleRun, BootRuns, Listing, RunStates, RunPcs

-----------------------------------------------------------------------------
(* Type correctness.                                                       *)

\* The ring's window is part of the invariant: a replay reads it by position.
TypeInv == TypeOK /\ WellFormed(ring, RingKinds) /\ Era \in Nat \ {0}

LEMMA TypeInit == Init => TypeInv
<1> SUFFICES ASSUME Init PROVE TypeInv
  OBVIOUS
<1>1. DurableOK
  <2>1. << >> \in Seq(Rows)
    OBVIOUS
  <2>2. QED BY <2>1 DEF Init, DurableOK, Statuses
<1>2. HubOK
  BY IdleRunTyped DEF NoDelta, Pendings, Init, HubOK, Statuses, NoGuard
<1>3. WellFormed(ring, RingKinds)
  BY EmptyRingWellFormed DEF Init
<1>4. WorkerOK /\ Era = 1
  <2>1. produced = <<{}>> /\ <<{}>> \in Seq(SUBSET Nat)
    BY DEF Init
  <2>2. QED BY <1>3, <2>1 DEF Init, WorkerOK, WellFormed, Era
<1>5. ChannelOK
  <2>1. << >> \in Seq(ToHubMsgs) /\ << >> \in Seq(ToWorkerMsgs)
    OBVIOUS
  <2>2. QED BY <2>1 DEF Init, ChannelOK
<1>6. QED BY <1>1, <1>2, <1>3, <1>4, <1>5 DEF Init, TypeInv, TypeOK, Era

\* A group of variables that a step leaves alone keeps its types.
LEMMA UnchangedGroups ==
  ASSUME TypeInv
  PROVE  /\ UNCHANGED <<provider, durable>> => DurableOK'
         /\ UNCHANGED hub => HubOK'
         /\ UNCHANGED worker => WorkerOK' /\ WellFormed(ring, RingKinds)' /\ (Era \in Nat \ {0})'
         /\ UNCHANGED channel => ChannelOK'
BY DEF TypeInv, TypeOK, DurableOK, HubOK, WorkerOK, ChannelOK, durable, hub, worker, channel, Era

\* The next event of the current era is a wseq of that era.
LEMMA ProducedTyped ==
  ASSUME TypeInv
  PROVE  LET p == [produced EXCEPT ![Era] = @ \cup {ring.last + 1}]
         IN  p \in Seq(SUBSET Nat) /\ Len(p) = Len(produced)
BY ElementOfSeq, ExceptSeq DEF TypeInv, TypeOK, WorkerOK, Era, WellFormed, Rings

LEMMA ShortSequences ==
  ASSUME NEW S, NEW a \in S, NEW b \in S, NEW c \in S
  PROVE  <<a>> \in Seq(S) /\ <<a, b>> \in Seq(S) /\ <<a, b, c>> \in Seq(S)
OBVIOUS

\* What the worker sends extends a queue of messages.
LEMMA SendTyped ==
  ASSUME TypeInv, NEW ms \in Seq(ToHubMsgs), Send(ms)
  PROVE  toHub' \in Seq(ToHubMsgs)
BY ConcatProperties DEF TypeInv, TypeOK, ChannelOK, Send

LEMMA WorkerTypeStep ==
  ASSUME TypeInv, Emit \/ EndTurn \/ WorkerSystem \/ WorkerDeath
  PROVE  TypeInv'
<1> USE DEF TypeInv
<1>0. ring.last \in Nat /\ Era \in Nat /\ produced \in Seq(SUBSET Nat)
  BY DEF WellFormed, Rings, TypeOK, WorkerOK
<1>1. CASE Emit
  <2>1. PICK k \in {"text", "delta"} :
          ring' = RingAppend(ring, k) /\ Send(<<EventMsg(Era, ring.last + 1, k)>>)
    BY <1>1 DEF Emit
  <2>2. WellFormed(ring, RingKinds)'
    BY <2>1, RingStep DEF RingKinds
  <2>3. produced' \in Seq(SUBSET Nat) /\ (Era \in Nat \ {0})'
    BY <1>1, ProducedTyped DEF Emit, Era
  <2>4. <<EventMsg(Era, ring.last + 1, k)>> \in Seq(ToHubMsgs)
    BY <1>0, MessagesTyped, ShortSequences
  <2>5. toHub' \in Seq(ToHubMsgs)
    BY <2>1, <2>4, SendTyped
  <2>6. WorkerOK'
    BY <1>1, <2>2, <2>3 DEF Emit, TypeOK, WorkerOK, WellFormed
  <2>7. ChannelOK'
    BY <1>1, <2>5 DEF Emit, TypeOK, ChannelOK
  <2>8. QED BY <1>1, <2>2, <2>3, <2>6, <2>7, UnchangedGroups DEF Emit, TypeOK
<1>2. CASE EndTurn
  <2>1. PICK k \in Lifecycle : ring' = RingAppend(ring, k)
    BY <1>2 DEF EndTurn, Lifecycle
  <2>2. WellFormed(ring, RingKinds)'
    BY <2>1, RingStep DEF RingKinds, Lifecycle
  <2>3. toHub' \in Seq(ToHubMsgs)
    <3>1. AckMsg(accepting) \in ToHubMsgs /\ \A j \in Lifecycle : TurnMsg(j, FALSE) \in ToHubMsgs
      BY MessagesTyped DEF TypeOK, WorkerOK
    <3>2. CASE \E j \in {"completed", "errored"} : Send(<<TurnMsg(j, FALSE)>>)
      BY <3>1, <3>2, ShortSequences, SendTyped DEF Lifecycle
    <3>3. CASE Send(<<TurnMsg("errored", FALSE), AckMsg(accepting)>>)
      BY <3>1, <3>3, ShortSequences, SendTyped DEF Lifecycle
    <3>4. QED BY <1>2, <3>2, <3>3 DEF EndTurn
  <2>4. WorkerOK' /\ (Era \in Nat \ {0})'
    BY <1>2, <2>2 DEF EndTurn, TypeOK, WorkerOK, WellFormed, Era
  <2>5. ChannelOK'
    BY <1>2, <2>3 DEF EndTurn, TypeOK, ChannelOK
  <2>6. QED BY <1>2, <2>2, <2>4, <2>5, UnchangedGroups DEF EndTurn, TypeOK
<1>3. CASE ResumeThread
  <2>1. WellFormed(ring, RingKinds)'
    BY <1>3, RingStep DEF ResumeThread, RingKinds
  <2>2. produced' \in Seq(SUBSET Nat) /\ (Era \in Nat \ {0})'
    BY <1>3, ProducedTyped DEF ResumeThread, Era
  <2>3. toHub' \in Seq(ToHubMsgs)
    <3>1. EventMsg(Era, ring.last + 1, "text") \in ToHubMsgs /\ AckMsg(accepting) \in ToHubMsgs
      BY <1>0, MessagesTyped DEF TypeOK, WorkerOK
    <3>2. <<EventMsg(Era, ring.last + 1, "text"), AckMsg(accepting)>> \in Seq(ToHubMsgs)
      BY <3>1, ShortSequences
    <3>3. QED BY <1>3, <3>2, SendTyped DEF ResumeThread
  <2>4. WorkerOK'
    BY <1>3, <2>1, <2>2 DEF ResumeThread, TypeOK, WorkerOK, WellFormed
  <2>5. ChannelOK'
    BY <1>3, <2>3 DEF ResumeThread, TypeOK, ChannelOK
  <2>6. QED BY <1>3, <2>1, <2>2, <2>4, <2>5, UnchangedGroups DEF ResumeThread, TypeOK
<1>4. ASSUME NEW type, Command(type)
      PROVE  /\ Head(toWorker) \in ToWorkerMsgs /\ Head(toWorker).t = type
             /\ Tail(toWorker) \in Seq(ToWorkerMsgs)
  BY <1>4, HeadTailProperties DEF Command, TypeOK, ChannelOK
<1>5. CASE HandleListLive
  <2>1. LiveMsg(Head(toWorker).run, held, ReportedBusy) \in ToHubMsgs
    BY <1>4, <1>5, MessagesTyped, CommandFields DEF HandleListLive, ReportedBusy, TypeOK, WorkerOK
  <2>2. toHub' \in Seq(ToHubMsgs)
    BY <1>5, <2>1, SendTyped DEF HandleListLive
  <2>3. ChannelOK'
    BY <1>4, <1>5, <2>2 DEF HandleListLive, TypeOK, ChannelOK
  <2>4. QED BY <1>5, <2>3, UnchangedGroups DEF HandleListLive, TypeOK
<1>6. CASE HandleAttach
  <2> DEFINE c == Head(toWorker)
  <2>1. c.run \in Runs /\ c.since \in Nat \cup {NoCursor}
    BY <1>4, <1>6, CommandFields DEF HandleAttach
  <2>2. (IF c.since = NoCursor THEN << >> ELSE Replay(c.since)) \in Seq(ToHubMsgs)
    BY <1>0, <2>1, ReplayTyped
  <2>3. <<AttachAck(c.run)>> \in Seq(ToHubMsgs)
    BY <2>1, MessagesTyped
  <2>4. Send((IF c.since = NoCursor THEN << >> ELSE Replay(c.since)) \o <<AttachAck(c.run)>>)
    BY <1>6 DEF HandleAttach
  <2>5. toHub' \in Seq(ToHubMsgs)
    BY <2>2, <2>3, <2>4, SendTyped, ConcatProperties
  <2>6. synced' \in BOOLEAN
    BY <1>6 DEF HandleAttach, TypeOK, ChannelOK
  <2>7. ChannelOK'
    BY <1>4, <1>6, <2>5, <2>6 DEF HandleAttach, TypeOK, ChannelOK
  <2>8. QED BY <1>6, <2>7, UnchangedGroups DEF HandleAttach, TypeOK
<1>7. CASE HandleRunTurn
  <2>1. accepting' \in Nat
    BY <1>4, <1>7, CommandFields DEF HandleRunTurn
  <2>2. WellFormed(ring, RingKinds)'
    BY <1>7, RingStep DEF HandleRunTurn, RingKinds
  <2>3. TurnMsg("started", FALSE) \in ToHubMsgs /\ AckMsg(accepting') \in ToHubMsgs
    BY <2>1, MessagesTyped DEF Lifecycle
  <2>4. toHub' \in Seq(ToHubMsgs)
    BY <1>7, <2>3, ShortSequences, SendTyped DEF HandleRunTurn
  <2>5. WorkerOK' /\ (Era \in Nat \ {0})'
    BY <1>7, <2>1, <2>2 DEF HandleRunTurn, TypeOK, WorkerOK, WellFormed, Era
  <2>6. ChannelOK'
    BY <1>4, <1>7, <2>4 DEF HandleRunTurn, TypeOK, ChannelOK
  <2>7. QED BY <1>7, <2>2, <2>5, <2>6, UnchangedGroups DEF HandleRunTurn, TypeOK
<1>8. CASE RefuseRunTurn
  <2>1. Head(toWorker).call \in Nat
    BY <1>4, <1>8, CommandFields DEF RefuseRunTurn
  <2>2. WellFormed(ring, RingKinds)'
    BY <1>8, RingStep, AppendKeepsWindow DEF RingKinds, RefuseRunTurn
  <2>3. <<TurnMsg("started", FALSE), AckMsg(Head(toWorker).call), TurnMsg("errored", FALSE)>>
          \in Seq(ToHubMsgs)
    BY <2>1, MessagesTyped, ShortSequences DEF Lifecycle
  <2>4. toHub' \in Seq(ToHubMsgs)
    BY <1>8, <2>3, SendTyped DEF RefuseRunTurn
  <2>5. WorkerOK' /\ (Era \in Nat \ {0})'
    BY <1>8, <2>2 DEF RefuseRunTurn, TypeOK, WorkerOK, WellFormed, Era
  <2>6. ChannelOK'
    BY <1>4, <1>8, <2>4 DEF RefuseRunTurn, TypeOK, ChannelOK
  <2>7. QED BY <1>8, <2>2, <2>5, <2>6, UnchangedGroups DEF RefuseRunTurn, TypeOK
<1>9. CASE HandleStopSession
  <2>1. WellFormed(ring, RingKinds)'
    BY <1>9, EmptyRingWellFormed DEF HandleStopSession
  <2>2. produced' \in Seq(SUBSET Nat) /\ (Era \in Nat \ {0})'
    BY <1>0, <1>9, AppendProperties DEF HandleStopSession, Era
  <2>3. WorkerOK'
    BY <1>9, <2>1, <2>2 DEF HandleStopSession, TypeOK, WorkerOK, WellFormed
  <2>4. ChannelOK'
    BY <1>4, <1>9 DEF HandleStopSession, TypeOK, ChannelOK
  <2>5. QED BY <1>9, <2>1, <2>2, <2>3, <2>4, UnchangedGroups DEF HandleStopSession, TypeOK
<1>10. CASE Accept
  BY <1>10, MessagesTyped, UnchangedGroups DEF Accept, TypeOK, ChannelOK
<1>11. CASE WorkerDeath
  <2>1. WellFormed(ring, RingKinds)'
    BY <1>11, EmptyRingWellFormed DEF WorkerDeath
  <2>2. produced' \in Seq(SUBSET Nat) /\ (Era \in Nat \ {0})'
    BY <1>0, <1>11, AppendProperties DEF WorkerDeath, Era
  <2>3. WorkerOK'
    BY <1>11, <2>1, <2>2 DEF WorkerDeath, TypeOK, WorkerOK, WellFormed
  <2>4. ChannelOK'
    BY <1>11 DEF WorkerDeath, TypeOK, ChannelOK
  <2>5. QED BY <1>11, <2>1, <2>2, <2>3, <2>4, UnchangedGroups DEF WorkerDeath, TypeOK
<1>12. QED
  BY <1>1, <1>2, <1>3, <1>5, <1>6, <1>7, <1>8, <1>9, <1>10, <1>11 DEF WorkerSystem

\* The variables flushCommandOutputDelta() writes.
LEMMA FlushStep ==
  ASSUME TypeInv, FlushCommandOutputDelta
  PROVE  /\ journal' \in Seq(Rows) /\ cursor' \in Nat
         /\ guard' \in Nat \cup {NoGuard} /\ pending' \in Pendings
BY FlushTyped DEF TypeInv, TypeOK, FlushCommandOutputDelta

\* The variables the turnError of a failed call writes.
LEMMA UnconfirmedTyped ==
  ASSUME TypeInv, UnconfirmedTurn
  PROVE  /\ journal' \in Seq(Rows) /\ cursor' \in Nat
         /\ guard' \in Nat \cup {NoGuard} /\ pending' \in Pendings
         /\ status' \in Statuses /\ stored' \in Statuses /\ shown' \in Statuses
BY FlushStep DEF UnconfirmedTurn, TypeInv, TypeOK, DurableOK, HubOK, SetStatus, Statuses

\* A hub step that only adds a command to the socket keeps the channel's types.
LEMMA CommandQueued ==
  ASSUME TypeInv, NEW m \in ToWorkerMsgs
  PROVE  Append(toWorker, m) \in Seq(ToWorkerMsgs)
BY AppendProperties DEF TypeInv, TypeOK, ChannelOK

\* A received frame leaves the rest of the queue.
LEMMA FrameTyped ==
  ASSUME TypeInv, NEW type, Frame(type)
  PROVE  /\ Head(toHub) \in ToHubMsgs /\ Head(toHub).t = type
         /\ toHub' \in Seq(ToHubMsgs)
BY HeadTailProperties DEF Frame, TypeInv, TypeOK, ChannelOK

\* Steps of the hub's process and of the socket.
LEMMA LinkTypeStep ==
  ASSUME TypeInv, HubCrash \/ HubBoot \/ Connect \/ Drop \/ CallTimeout
  PROVE  TypeInv'
<1> USE DEF TypeInv
<1>0. << >> \in Seq(ToHubMsgs) /\ << >> \in Seq(ToWorkerMsgs)
  OBVIOUS
<1>1. CASE HubCrash
  <2>1. DurableOK' /\ WorkerOK' /\ WellFormed(ring, RingKinds)' /\ (Era \in Nat \ {0})'
    BY <1>1, UnchangedGroups DEF HubCrash
  <2>2. guard' \in Nat \cup {NoGuard} /\ pending' \in Pendings /\ run' \in [Runs -> RunStates]
    BY <1>1, FlushTyped, IdleRunTyped DEF HubCrash, ClearHubMemory, TypeOK
  <2>3. HubOK'
    BY <1>1, <2>2 DEF HubCrash, ClearHubMemory, TypeOK, HubOK
  <2>4. ChannelOK'
    BY <1>0, <1>1 DEF HubCrash, TypeOK, ChannelOK
  <2>5. faults' \in Nat /\ turns' \in Nat
    BY <1>1 DEF HubCrash, TypeOK
  <2>6. QED BY <2>1, <2>3, <2>4, <2>5 DEF TypeOK
<1>2. CASE HubBoot
  BY <1>2, UnchangedGroups DEF HubBoot, TypeOK, HubOK, DurableOK
<1>3. CASE Connect
  BY <1>0, <1>3, UnchangedGroups DEF Connect, TypeOK, ChannelOK
<1>4. CASE Drop
  <2>1. /\ journal' \in Seq(Rows) /\ cursor' \in Nat
        /\ guard' \in Nat \cup {NoGuard} /\ pending' \in Pendings
        /\ status' \in Statuses /\ stored' \in Statuses /\ shown' \in Statuses
        /\ busy' \in BOOLEAN
    BY <1>4, UnconfirmedTyped DEF Drop, TypeOK, DurableOK, HubOK
  <2>2. DurableOK'
    BY <1>4, <2>1 DEF Drop, TypeOK, DurableOK
  <2>3. run' \in [Runs -> RunStates]
    BY <1>4, IdleRunTyped DEF Drop, TypeOK, HubOK
  <2>4. HubOK'
    BY <1>4, <2>1, <2>3 DEF Drop, TypeOK, HubOK
  <2>5. ChannelOK'
    BY <1>0, <1>4 DEF Drop, TypeOK, ChannelOK
  <2>6. faults' \in Nat /\ turns' \in Nat
    BY <1>4 DEF Drop, TypeOK
  <2>7. QED BY <1>4, <2>2, <2>4, <2>5, <2>6, UnchangedGroups DEF Drop, TypeOK
<1>5. CASE CallTimeout
  <2>1. UnconfirmedTurn
    BY <1>5 DEF CallTimeout
  <2>2. DurableOK'
    BY <1>5, <2>1, UnconfirmedTyped DEF CallTimeout, TypeOK, DurableOK
  <2>3. run' \in [Runs -> RunStates]
    BY <1>5, TouchedTyped DEF CallTimeout, TypeOK, HubOK
  <2>4. HubOK'
    BY <1>5, <2>1, <2>3, UnconfirmedTyped DEF CallTimeout, TypeOK, HubOK
  <2>5. ChannelOK'
    BY <1>5 DEF CallTimeout, TypeOK, ChannelOK
  <2>6. QED BY <1>5, <2>2, <2>4, <2>5, UnchangedGroups DEF CallTimeout, TypeOK
<1>6. QED BY <1>1, <1>2, <1>3, <1>4, <1>5

-----------------------------------------------------------------------------
\* The hub handles a frame.
LEMMA FrameTypeStep ==
  ASSUME TypeInv, \/ RecvWelcome \/ RecvEvent \/ RecvTurn
                  \/ RecvLive \/ RecvAck \/ RecvAttachAck
  PROVE  TypeInv'
<1> USE DEF TypeInv
<1> DEFINE m == Head(toHub)
<1>1. CASE RecvWelcome
  BY <1>1, MessagesTyped, RunsAssumption, CommandQueued, FrameTyped, IdleRunTyped, UnchangedGroups DEF
     RecvWelcome, TypeOK, ChannelOK, HubOK, RunPcs
<1>2. CASE RecvEvent
  <2>1. Frame("event")
    BY <1>2 DEF RecvEvent
  <2>2. m \in ToHubMsgs /\ m.t = "event" /\ toHub' \in Seq(ToHubMsgs)
    BY <2>1, FrameTyped
  <2> HIDE DEF m
  <2>3. m.era \in Nat /\ m.wseq \in Nat /\ EventRow(m) \in Rows
    BY <2>2, FrameFields, EventRowTyped
  <2>4. /\ Flushed \in Seq(Rows) /\ CursorFlushed \in Nat
        /\ GuardFlushed \in Nat \cup {NoGuard} /\ NoDelta \in Pendings
    BY FlushTyped DEF TypeOK
  <2>5. /\ journal' \in Seq(Rows) /\ cursor' \in Nat
        /\ guard' \in Nat \cup {NoGuard} /\ pending' \in Pendings
    <3>1. CASE m.wseq <= Seen
      BY <1>2, <3>1 DEF RecvEvent, TypeOK, DurableOK, HubOK, m
    <3>2. CASE BufferDelta(m)
      <4>1. CASE /\ pending' = [pending EXCEPT !.wseq = m.wseq, !.of = @ \cup {m.wseq}]
                 /\ UNCHANGED <<journal, cursor, guard>>
        BY <4>1, <2>3 DEF TypeOK, DurableOK, HubOK, Pendings
      <4>2. CASE /\ journal' = Flushed /\ cursor' = CursorFlushed /\ guard' = GuardFlushed
                 /\ pending' = [era |-> m.era, wseq |-> m.wseq, of |-> {m.wseq}]
        BY <4>2, <2>3, <2>4 DEF Pendings
      <4>3. QED BY <3>2, <4>1, <4>2 DEF BufferDelta
    <3>3. CASE JournalEvent(m)
      BY <2>3, <2>4, <3>3, AppendProperties, AdvanceTyped DEF JournalEvent
    <3>4. QED BY <1>2, <3>1, <3>2, <3>3 DEF RecvEvent, m
  <2>6. DurableOK'
    BY <1>2, <2>5 DEF RecvEvent, TypeOK, DurableOK
  <2>7. HubOK'
    BY <1>2, <2>5 DEF RecvEvent, TypeOK, HubOK
  <2>8. ChannelOK'
    BY <1>2, <2>2 DEF RecvEvent, TypeOK, ChannelOK
  <2>9. QED BY <1>2, <2>6, <2>7, <2>8, UnchangedGroups DEF RecvEvent, TypeOK
<1>3. CASE RecvTurn
  <2>1. m.kind \in Lifecycle /\ m.replay \in BOOLEAN /\ toHub' \in Seq(ToHubMsgs)
    BY <1>3, FrameTyped, FrameFields DEF RecvTurn
  <2>2. FlushCommandOutputDelta
    BY <1>3 DEF RecvTurn
  <2>3. Outcomes(m) \subseteq Statuses
    BY <2>1 DEF Outcomes, Statuses, Lifecycle
  <2>4. status' \in Statuses /\ stored' \in Statuses /\ shown' \in Statuses
    <3>1. CASE status = "stopped"
      BY <1>3, <3>1 DEF RecvTurn, TypeOK, HubOK, DurableOK
    <3>2. CASE status # "stopped"
      BY <1>3, <2>3, <3>2 DEF RecvTurn, TypeOK, DurableOK
    <3>3. QED BY <3>1, <3>2
  <2>5. DurableOK'
    BY <1>3, <2>2, <2>4, FlushStep DEF RecvTurn, TypeOK, DurableOK
  <2>6. run' \in [Runs -> RunStates]
    BY <1>3, TouchedTyped DEF RecvTurn, TypeOK, HubOK
  <2>7. HubOK'
    BY <1>3, <2>2, <2>4, <2>6, FlushStep DEF RecvTurn, TypeOK, HubOK
  <2>8. ChannelOK'
    BY <1>3, <2>1 DEF RecvTurn, TypeOK, ChannelOK
  <2>9. QED BY <1>3, <2>5, <2>7, <2>8, UnchangedGroups DEF RecvTurn, TypeOK
<1>4. CASE RecvLive
  <2>1. m.run \in Runs /\ m.held \in BOOLEAN /\ m.busy \in BOOLEAN /\ toHub' \in Seq(ToHubMsgs)
    BY <1>4, FrameTyped, FrameFields DEF RecvLive
  <2>2. run' \in [Runs -> RunStates]
    BY <1>4, <2>1 DEF RecvLive, TypeOK, HubOK, RunStates, RunPcs
  <2>3. HubOK'
    BY <1>4, <2>2 DEF RecvLive, TypeOK, HubOK
  <2>4. ChannelOK'
    BY <1>4, <2>1 DEF RecvLive, TypeOK, ChannelOK
  <2>5. QED BY <1>4, <2>3, <2>4, UnchangedGroups DEF RecvLive, TypeOK
<1>5. CASE RecvAck
  BY <1>5, FrameTyped, UnchangedGroups DEF RecvAck, TypeOK, HubOK, ChannelOK
<1>6. CASE RecvAttachAck
  <2>1. m.run \in Runs /\ toHub' \in Seq(ToHubMsgs)
    BY <1>6, FrameTyped, FrameFields DEF RecvAttachAck
  <2>2. run' \in [Runs -> RunStates]
    BY <1>6, <2>1 DEF RecvAttachAck, TypeOK, HubOK, RunStates, RunPcs
  <2>3. HubOK'
    BY <1>6, <2>2 DEF RecvAttachAck, TypeOK, HubOK
  <2>4. ChannelOK'
    BY <1>6, <2>1 DEF RecvAttachAck, TypeOK, ChannelOK
  <2>5. QED BY <1>6, <2>3, <2>4, UnchangedGroups DEF RecvAttachAck, TypeOK
<1>7. QED BY <1>1, <1>2, <1>3, <1>4, <1>5, <1>6

-----------------------------------------------------------------------------
\* listLive()'s repair of the busy bits, and the next await, keep their types.
LEMMA AwaitTyped ==
  ASSUME TypeInv, NEW r \in Runs, NEW pc \in RunPcs, run[r].busy \in BOOLEAN,
         busy' = RepairedBusy(r), Await(r, pc)
  PROVE  busy' \in BOOLEAN /\ run' \in [Runs -> RunStates]
BY TouchedTyped, IdleRunTyped DEF RepairedBusy, TypeInv, TypeOK, HubOK, RunStates, RunsAfter, Await

\* The rows the sweep journals.
LEMMA SweepStaleTyped ==
  ASSUME TypeInv, SweepStale
  PROVE  /\ journal' \in Seq(Rows) /\ cursor' \in Nat
         /\ guard' \in Nat \cup {NoGuard} /\ pending' \in Pendings
         /\ status' \in Statuses /\ stored' \in Statuses /\ shown' \in Statuses
<1>1. /\ Flushed \in Seq(Rows) /\ CursorFlushed \in Nat /\ NoDelta \in Pendings
  BY FlushTyped DEF TypeInv, TypeOK
<1>2. ResetRow \in Rows /\ StaleRow \in Rows
  BY DEF ResetRow, StaleRow, Rows
<1>3. /\ << >> \in Seq(Rows) /\ <<ResetRow>> \in Seq(Rows) /\ <<ResetRow, StaleRow>> \in Seq(Rows)
  BY <1>2, ShortSequences
<1>4. journal' \in Seq(Rows)
  BY <1>1, <1>3, ConcatProperties DEF SweepStale
<1>5. cursor' \in Nat /\ guard' \in Nat \cup {NoGuard} /\ pending' \in Pendings
  BY <1>1 DEF SweepStale, Advance, ResetRow
<1>6. status' \in Statuses /\ stored' \in Statuses /\ shown' \in Statuses
  BY DEF SweepStale, SetStatus, Statuses, TypeInv, TypeOK, HubOK, DurableOK
<1>7. QED BY <1>4, <1>5, <1>6

\* A step of an attachWorker() call.
LEMMA AttachTypeStep ==
  ASSUME TypeInv, NEW r \in Runs, Reconcile(r) \/ Relist(r) \/ Sweep(r)
  PROVE  TypeInv'
<1> USE DEF TypeInv
<1>0. /\ run[r].busy \in BOOLEAN /\ run[r].held \in BOOLEAN
  BY DEF TypeOK, HubOK, RunStates
<1>1. CASE Reconcile(r)
  <2>1. PICK pc \in RunPcs, m \in ToWorkerMsgs :
          Await(r, pc) /\ toWorker' = Append(toWorker, m)
    BY <1>1, MessagesTyped DEF TypeOK, DurableOK, RunPcs, ClaimSession, PassOver, Reconcile
  <2>2. busy' \in BOOLEAN /\ run' \in [Runs -> RunStates]
    BY <1>0, <1>1, <2>1, AwaitTyped DEF Reconcile
  <2>3. /\ guard' \in Nat \cup {NoGuard}
        /\ status' \in Statuses /\ stored' \in Statuses /\ shown' \in Statuses
    <3>1. CASE ClaimSession(r)
      BY <3>1 DEF ClaimSession, SetStatus, Statuses, Larger, NoGuard, TypeOK, DurableOK, HubOK
    <3>2. CASE PassOver(r)
      BY <3>2 DEF PassOver, TypeOK, DurableOK, HubOK
    <3>3. QED BY <1>1, <3>1, <3>2 DEF Reconcile
  <2>4. DurableOK'
    BY <1>1, <2>3 DEF Reconcile, TypeOK, DurableOK
  <2>5. HubOK'
    BY <1>1, <2>2, <2>3 DEF Reconcile, TypeOK, HubOK
  <2>6. ChannelOK'
    BY <1>1, <2>1, CommandQueued DEF Reconcile, TypeOK, ChannelOK
  <2>7. QED BY <1>1, <2>4, <2>5, <2>6, UnchangedGroups DEF Reconcile, TypeOK
<1>2. CASE Relist(r)
  BY <1>2, IdleRunTyped, MessagesTyped, CommandQueued, UnchangedGroups DEF TypeOK, HubOK, RunPcs, Relist,
     ChannelOK
<1>3. CASE Sweep(r)
  <2>1. /\ journal' \in Seq(Rows) /\ cursor' \in Nat
        /\ guard' \in Nat \cup {NoGuard} /\ pending' \in Pendings
        /\ status' \in Statuses /\ stored' \in Statuses /\ shown' \in Statuses
    BY <1>3, SweepStaleTyped DEF Sweep, TypeOK, DurableOK, HubOK
  <2>2. busy' \in BOOLEAN
    BY <1>0, <1>3 DEF Sweep, RepairedBusy, TypeOK, HubOK
  <2>3. run' \in [Runs -> RunStates]
    BY <1>3, TouchedTyped, IdleRunTyped DEF RunsAfter, TypeOK, HubOK, Sweep
  <2>4. DurableOK'
    BY <1>3, <2>1 DEF Sweep, TypeOK, DurableOK
  <2>5. HubOK'
    BY <1>3, <2>1, <2>2, <2>3 DEF Sweep, TypeOK, HubOK
  <2>6. QED BY <1>3, <2>4, <2>5, UnchangedGroups DEF Sweep, TypeOK
<1>4. QED BY <1>1, <1>2, <1>3

\* Timers and operator requests.
LEMMA OperatorTypeStep ==
  ASSUME TypeInv, \/ ReconcileStale \/ FlushTimer
                  \/ SendTurn \/ SendTurnUnattached \/ Stop \/ Reopen \/ Handoff
  PROVE  TypeInv'
<1> USE DEF TypeInv
<1>1. CASE ReconcileStale
  BY <1>1, IdleRunTyped, MessagesTyped, CommandQueued, UnchangedGroups DEF TypeOK, HubOK, RunPcs,
     ReconcileStale, ChannelOK
<1>2. CASE FlushTimer
  BY <1>2, FlushStep, UnchangedGroups DEF FlushTimer, TypeOK, DurableOK, HubOK
<1>3. CASE SendTurn
  <2>1. run' \in [Runs -> RunStates]
    BY <1>3, TouchedTyped DEF SendTurn, TypeOK, HubOK
  <2>2. turns' \in Nat
    BY <1>3 DEF SendTurn, TypeOK
  <2>3. HubOK'
    BY <1>3, <2>1, <2>2 DEF SendTurn, TypeOK, HubOK
  <2>4. RunTurn(turns') \in ToWorkerMsgs
    BY <2>2, MessagesTyped
  <2>5. ChannelOK'
    BY <1>3, <2>4, CommandQueued DEF SendTurn, TypeOK, ChannelOK
  <2>6. QED BY <1>3, <2>2, <2>3, <2>5, UnchangedGroups DEF SendTurn, TypeOK
<1>4. CASE SendTurnUnattached
  BY <1>4, UnconfirmedTyped, UnchangedGroups DEF SendTurnUnattached, TypeOK, DurableOK, HubOK
<1>5. CASE Stop
  BY <1>5, UnchangedGroups DEF Stop, SetStatus, Statuses, TypeOK, DurableOK, HubOK
<1>6. CASE Reopen
  BY <1>6, UnchangedGroups DEF Reopen, SetStatus, Statuses, TypeOK, DurableOK, HubOK
<1>7. CASE Handoff
  <2>1. DurableOK'
    BY <1>7 DEF Handoff, SetStatus, Statuses, TypeOK, DurableOK
  <2>2. run' \in [Runs -> RunStates]
    BY <1>7, TouchedTyped DEF Handoff, TypeOK, HubOK
  <2>3. HubOK'
    BY <1>7, <2>2 DEF Handoff, SetStatus, Statuses, TypeOK, HubOK
  <2>4. StopSession \in ToWorkerMsgs
    BY MessagesTyped
  <2>5. ChannelOK'
    BY <1>7, <2>4, CommandQueued DEF Handoff, TypeOK, ChannelOK
  <2>6. QED BY <1>7, <2>1, <2>3, <2>5, UnchangedGroups DEF Handoff, TypeOK
<1>8. QED BY <1>1, <1>2, <1>3, <1>4, <1>5, <1>6, <1>7

LEMMA TypeStep == TypeInv /\ [Next]_vars => TypeInv'
<1> SUFFICES ASSUME TypeInv, [Next]_vars PROVE TypeInv'
  OBVIOUS
<1>1. CASE WorkerSystem
  BY <1>1, WorkerTypeStep
<1>2. CASE HubSystem
  BY <1>2, LinkTypeStep, FrameTypeStep, AttachTypeStep, OperatorTypeStep DEF HubSystem
<1>3. CASE Drop
  BY <1>3, LinkTypeStep
<1>4. CASE Environment
  BY <1>4, WorkerTypeStep, LinkTypeStep, OperatorTypeStep DEF Environment
<1>5. CASE UNCHANGED vars
  BY <1>5, UnchangedGroups DEF vars, TypeInv, TypeOK
<1>6. QED BY <1>1, <1>2, <1>3, <1>4, <1>5 DEF Next

\* Whatever the environment does, every variable of the hub, the worker and the socket
\* keeps its shape: a replay never reads outside the ring's window.
THEOREM TypeCorrect == Spec => []TypeOK
<1>1. TypeInv => TypeOK
  BY DEF TypeInv
<1>2. QED BY <1>1, TypeInit, TypeStep, PTL DEF Spec

-----------------------------------------------------------------------------
(* The durable replay cursor.                                              *)

\* The triggers on the events table keep the cursor at the high-water mark of the
\* rows since the latest reset marker, whichever row is appended.
LEMMA HighWaterAppend ==
  ASSUME NEW j \in Seq(Rows), NEW c \in Nat, HighWater(j, c), NEW row \in Rows
  PROVE  HighWater(Append(j, row), Advance(c, row))
<1> DEFINE k == Append(j, row)
<1>1. /\ k \in Seq(Rows) /\ Len(k) = Len(j) + 1 /\ k[Len(j) + 1] = row
      /\ \A i \in 1 .. Len(j) : k[i] = j[i]
      /\ DOMAIN k = 1 .. Len(j) + 1 /\ DOMAIN j = 1 .. Len(j)
      /\ Len(j) \in Nat
  OBVIOUS
<1>2. row.wseq \in Nat /\ row.kind \in {"event", "gap", "reset", "stale"}
  BY DEF Rows
<1> HIDE DEF k
<1>3. CASE row.kind = "reset"
  <2>1. ASSUME NEW i \in 1 .. Len(j) + 1
        PROVE  ~(IsWorkerRow(k[i]) /\ \A l \in i .. Len(k) : k[l].kind # "reset")
    BY <1>1, <1>3
  <2>2. SinceReset(k) = {}
    BY <1>1, <2>1 DEF SinceReset
  <2>3. QED BY <1>3, <2>2 DEF HighWater, Advance, k
<1>4. CASE row.kind # "reset"
  <2>1. ASSUME NEW i \in 1 .. Len(j)
        PROVE  (\A l \in i .. Len(k) : k[l].kind # "reset")
                 <=> (\A l \in i .. Len(j) : j[l].kind # "reset")
    BY <1>1, <1>4
  <2>2. SinceReset(k) = SinceReset(j) \cup (IF IsWorkerRow(row) THEN {row.wseq} ELSE {})
    <3>1. ASSUME NEW w \in SinceReset(k)
          PROVE  w \in SinceReset(j) \cup (IF IsWorkerRow(row) THEN {row.wseq} ELSE {})
      <4>1. PICK i \in DOMAIN k : /\ IsWorkerRow(k[i]) /\ w = k[i].wseq
                                  /\ \A l \in i .. Len(k) : k[l].kind # "reset"
        BY DEF SinceReset
      <4>2. CASE i = Len(j) + 1
        BY <1>1, <4>1, <4>2
      <4>3. CASE i # Len(j) + 1
        BY <1>1, <2>1, <4>1, <4>3 DEF SinceReset
      <4>4. QED BY <4>2, <4>3
    <3>2. ASSUME NEW w \in SinceReset(j)
          PROVE  w \in SinceReset(k)
      BY <1>1, <2>1 DEF SinceReset
    <3>3. IsWorkerRow(row) => row.wseq \in SinceReset(k)
      BY <1>1, <1>4 DEF SinceReset
    <3>4. QED BY <3>1, <3>2, <3>3
  <2>3. c \in SinceReset(j) \cup {0} /\ \A w \in SinceReset(j) : w <= c
    BY DEF HighWater
  <2>4. SinceReset(j) \subseteq Nat
    <3>1. ASSUME NEW w \in SinceReset(j) PROVE w \in Nat
      <4>1. PICK i \in DOMAIN j : w = j[i].wseq
        BY DEF SinceReset
      <4>2. j[i] \in Rows
        BY <1>1, <4>1, ElementOfSeq
      <4>3. QED BY <4>1, <4>2 DEF Rows
    <3>2. QED BY <3>1
  <2>5. CASE row.kind = "stale"
    BY <2>2, <2>3, <2>5 DEF Advance, IsWorkerRow, HighWater, k
  <2>6. CASE row.kind \in {"event", "gap"}
    <3>1. /\ SinceReset(k) = SinceReset(j) \cup {row.wseq}
          /\ Advance(c, row) = IF row.wseq >= c THEN row.wseq ELSE c
      BY <2>2, <2>6 DEF Advance, IsWorkerRow
    <3>2. CASE row.wseq >= c
      BY <1>2, <2>3, <2>4, <3>1, <3>2 DEF HighWater, k
    <3>3. CASE ~(row.wseq >= c)
      BY <1>2, <2>3, <2>4, <3>1, <3>3 DEF HighWater, k
    <3>4. QED BY <3>2, <3>3
  <2>7. QED BY <1>2, <1>4, <2>5, <2>6
<1>5. QED BY <1>3, <1>4

\* Flushing the pending command output moves journal and cursor together.
LEMMA HighWaterFlushed ==
  ASSUME TypeInv, CursorIsHighWater
  PROVE  HighWater(Flushed, CursorFlushed)
<1>1. /\ journal \in Seq(Rows) /\ cursor \in Nat /\ DeltaRow(pending) \in Rows
  BY DEF TypeInv, TypeOK, DurableOK, HubOK, Pendings, DeltaRow, Rows
<1>2. HighWater(Append(journal, DeltaRow(pending)), Advance(cursor, DeltaRow(pending)))
  BY <1>1, HighWaterAppend DEF CursorIsHighWater
<1>3. QED BY <1>2 DEF Flushed, CursorFlushed, CursorIsHighWater

\* The only ways a step changes the journal and its cursor.
LEMMA JournalMoves ==
  ASSUME TypeInv, Next
  PROVE  \/ UNCHANGED <<journal, cursor>>
         \/ journal' = Flushed /\ cursor' = CursorFlushed
         \/ \E row \in Rows :
              journal' = Append(Flushed, row) /\ cursor' = Advance(CursorFlushed, row)
         \/ SweepStale
<1>1. CASE WorkerSystem \/ Emit \/ EndTurn \/ WorkerDeath
  BY <1>1 DEF WorkerSystem, Emit, EndTurn, WorkerDeath, ResumeThread, HandleListLive, HandleAttach,
              HandleRunTurn, RefuseRunTurn, HandleStopSession, Accept, durable
<1>2. CASE \/ HubBoot \/ Connect \/ RecvWelcome \/ RecvLive \/ RecvAck \/ RecvAttachAck
           \/ ReconcileStale \/ HubCrash \/ SendTurn
  BY <1>2 DEF HubBoot, Connect, RecvWelcome, RecvLive, RecvAck, RecvAttachAck, ReconcileStale,
              HubCrash, SendTurn, durable
<1>3. CASE Stop \/ Reopen \/ Handoff
  BY <1>3 DEF Stop, Reopen, Handoff
<1>4. CASE RecvTurn \/ FlushTimer \/ CallTimeout \/ SendTurnUnattached
  BY <1>4 DEF RecvTurn, FlushTimer, CallTimeout, SendTurnUnattached, UnconfirmedTurn,
              FlushCommandOutputDelta
<1>5. CASE Drop
  BY <1>5 DEF Drop, UnconfirmedTurn, FlushCommandOutputDelta
<1>6. CASE RecvEvent
  BY <1>6, FrameTyped, EventRowTyped DEF RecvEvent, BufferDelta, JournalEvent
<1>7. ASSUME NEW r \in Runs, Reconcile(r) \/ Relist(r) \/ Sweep(r)
      PROVE  UNCHANGED <<journal, cursor>> \/ SweepStale
  BY <1>7 DEF Reconcile, Relist, Sweep, durable
<1>8. QED
  BY <1>1, <1>2, <1>3, <1>4, <1>5, <1>6, <1>7 DEF Next, HubSystem, Environment

LEMMA CursorStep == TypeInv /\ CursorIsHighWater /\ [Next]_vars => CursorIsHighWater'
<1> SUFFICES ASSUME TypeInv, CursorIsHighWater, [Next]_vars PROVE CursorIsHighWater'
  OBVIOUS
<1>1. CASE UNCHANGED <<journal, cursor>>
  BY <1>1 DEF CursorIsHighWater, HighWater, SinceReset, IsWorkerRow
<1>2. CASE journal' = Flushed /\ cursor' = CursorFlushed
  BY <1>2, HighWaterFlushed DEF CursorIsHighWater
<1>3. Flushed \in Seq(Rows) /\ CursorFlushed \in Nat
  BY FlushTyped DEF TypeInv, TypeOK
<1>4. CASE \E row \in Rows :
             journal' = Append(Flushed, row) /\ cursor' = Advance(CursorFlushed, row)
  BY <1>3, <1>4, HighWaterFlushed, HighWaterAppend DEF CursorIsHighWater
<1>5. CASE SweepStale
  <2> DEFINE c == Advance(CursorFlushed, ResetRow)
  <2>1. ResetRow \in Rows /\ StaleRow \in Rows /\ c = 0 /\ c \in Nat /\ Advance(c, StaleRow) = c
    BY DEF ResetRow, StaleRow, Rows, Advance
  <2>2. HighWater(Append(Flushed, ResetRow), c) /\ Append(Flushed, ResetRow) \in Seq(Rows)
    BY <1>3, <2>1, HighWaterFlushed, HighWaterAppend, AppendProperties
  <2> HIDE DEF c
  <2>3. HighWater(Append(Append(Flushed, ResetRow), StaleRow), c)
    BY <2>1, <2>2, HighWaterAppend
  <2>4. /\ Flushed \o << >> = Flushed /\ Flushed \o <<ResetRow>> = Append(Flushed, ResetRow)
        /\ Flushed \o <<ResetRow, StaleRow>> = Append(Append(Flushed, ResetRow), StaleRow)
    BY <1>3, <2>1
  <2>5. \/ journal' = Flushed /\ cursor' = CursorFlushed
        \/ journal' = Append(Flushed, ResetRow) /\ cursor' = 0
        \/ journal' = Append(Append(Flushed, ResetRow), StaleRow) /\ cursor' = 0
    BY <1>5, <2>4 DEF SweepStale, Advance, ResetRow
  <2>6. QED BY <2>1, <2>2, <2>3, <2>5, HighWaterFlushed DEF CursorIsHighWater
<1>6. QED BY <1>1, <1>2, <1>4, <1>5, JournalMoves DEF vars, durable

\* The cursor a successor hub resumes from is the highest worker wseq journaled since the
\* latest reset marker, for every ring bound and under every fault, including the
\* behaviours in which output is lost or repeated: what breaks then is not the cursor.
THEOREM CursorCorrect == Spec => []CursorIsHighWater
<1>1. Init => CursorIsHighWater
  BY DEF CursorIsHighWater, Init, SinceReset, HighWater
<1>2. QED BY <1>1, TypeInit, TypeStep, CursorStep, PTL DEF Spec

-----------------------------------------------------------------------------
(* The operator's Stop.                                                    *)

\* Memory, the snapshot and what clients were told agree on being stopped.
StopInv ==
  /\ stored = "stopped" <=> shown = "stopped"
  /\ hubUp => (status = "stopped" <=> stored = "stopped")

\* What a step other than Reopen may do to the three copies of the status.
Stays ==
  /\ stored = "stopped" => stored' = "stopped"
  /\ shown = "stopped" => shown' = "stopped"
  /\ hubUp /\ status = "stopped" => status' = "stopped"

LEMMA StopStep ==
  ASSUME TypeInv, StopInv, Next
  PROVE  StopInv' /\ (Reopen \/ Stays)
<1> USE DEF StopInv, Stays
<1>1. CASE WorkerSystem \/ Emit \/ EndTurn \/ WorkerDeath
  BY <1>1 DEF WorkerSystem, Emit, EndTurn, WorkerDeath, ResumeThread, HandleListLive, HandleAttach,
              HandleRunTurn, RefuseRunTurn, HandleStopSession, Accept, durable, hub
<1>2. CASE HubCrash \/ HubBoot
  BY <1>2 DEF HubCrash, HubBoot, durable
<1>3. CASE \/ Connect \/ RecvWelcome \/ RecvLive \/ RecvAck \/ RecvAttachAck
           \/ ReconcileStale \/ SendTurn \/ FlushTimer \/ RecvEvent
  BY <1>3 DEF Connect, RecvWelcome, RecvLive, RecvAck, RecvAttachAck, ReconcileStale,
              SendTurn, FlushTimer, RecvEvent, durable, hub
<1>4. CASE UnconfirmedTurn /\ hubUp /\ UNCHANGED hubUp
  BY <1>4 DEF UnconfirmedTurn, SetStatus
<1>5. CASE CallTimeout \/ SendTurnUnattached
  BY <1>4, <1>5 DEF CallTimeout, SendTurnUnattached, HubTick
<1>6. CASE Drop
  BY <1>4, <1>6 DEF Drop, HubTick
<1>7. CASE RecvTurn
  <2>1. hubUp /\ UNCHANGED hubUp
    BY <1>7 DEF RecvTurn, Frame
  <2>2. CASE status = "stopped"
    BY <1>7, <2>1, <2>2 DEF RecvTurn
  <2>3. CASE status # "stopped"
    BY <1>7, <2>1, <2>3, FrameTyped, FrameFields DEF RecvTurn, Outcomes, Lifecycle
  <2>4. QED BY <2>2, <2>3
<1>8. ASSUME NEW r \in Runs, Reconcile(r) \/ Relist(r) \/ Sweep(r)
      PROVE  StopInv' /\ Stays
  <2>1. CASE Relist(r)
    BY <2>1 DEF Relist, durable
  <2>2. CASE Reconcile(r)
    BY <2>2 DEF Reconcile, ClaimSession, SetStatus, PassOver
  <2>3. CASE Sweep(r)
    BY <2>3 DEF Sweep, SweepStale, SetStatus
  <2>4. QED BY <1>8, <2>1, <2>2, <2>3
<1>9. CASE Stop \/ Handoff
  BY <1>9 DEF Stop, Handoff, SetStatus
<1>10. CASE Reopen
  BY <1>10 DEF Reopen, SetStatus
<1>11. QED
  BY <1>1, <1>2, <1>3, <1>5, <1>6, <1>7, <1>8, <1>9, <1>10 DEF Next, HubSystem, Environment

\* Only the operator's Reopen ends a Stop: no terminal event, replay, re-attach, sweep,
\* failed call or restart of either process does, whatever the environment.
THEOREM StopIsFinal == Spec => StopHolds
<1>1. Init => StopInv
  BY DEF Init, StopInv
<1>2. TypeInv /\ StopInv /\ [Next]_vars => StopInv'
  BY StopStep DEF vars, durable, hub, StopInv
<1>3. TypeInv /\ StopInv /\ [Next]_vars =>
        [ /\ stored = "stopped" /\ stored' # "stopped" => Reopen
          /\ shown = "stopped" /\ shown' # "stopped" => Reopen
          /\ hubUp /\ status = "stopped" /\ status' # "stopped" => Reopen ]_vars
  BY StopStep DEF Stays
<1>4. QED BY <1>1, <1>2, <1>3, TypeInit, TypeStep, PTL DEF Spec, StopHolds

-----------------------------------------------------------------------------
(* The exactly-once ingest, without the six interleavings that Ordinary    *)
(* excludes.                                                               *)

\* What the theorem assumes of the environment: drops, crashes, respawns, stops, hand-offs,
\* timeouts and coalesced frames may all happen.
Ordinary ==
  Env \cap {"gapEmit", "earlyTurn", "busTurn", "slowResume", "retiredRuns", "coldStart"} = {}

-----------------------------------------------------------------------------
(* The inductive invariant: processes and socket.                          *)

\* What is on the socket goes with its state, and a hub without a welcome has asked nothing.
SocketOK ==
  /\ link \notin {"open", "workerGone"} => toHub = << >>
  /\ link \in {"hello", "open", "workerGone"} => hubUp
  /\ attached => link \in {"open", "workerGone"}
  /\ ~attached /\ link # "hubGone" => toWorker = << >>
  /\ ~attached => calling = 0 /\ \A r \in Runs : run[r].pc \in {"none", "ready"}
  /\ ~attached => \A i \in DOMAIN toHub : toHub[i].t \in {"welcome", "event", "turn"}
  /\ \A i \in DOMAIN toHub : toHub[i].t = "welcome" => i = 1 /\ ~attached
  /\ run["attached"].pc # "ready"

\* A hub that is down remembers nothing; a worker that nobody reaches runs nothing; a session
\* that was handed off stays stopped.
ProcessesOK ==
  /\ ~hubUp => guard = NoGuard /\ pending = NoDelta
  /\ link = "workerGone" => ~held /\ turn = "none" /\ ring.last = 0
  /\ retired => stored = "stopped" /\ (hubUp => status = "stopped")

ListPcs == {"listing", "relisting"}

RequestOf(i, r) == toWorker[i].t \in {"listLive", "attach"} /\ toWorker[i].run = r
AnswerOf(i, r)  == toHub[i].t \in {"live", "attachAck"} /\ toHub[i].run = r

\* A call of attachWorker() awaits at most one reply, of the kind that its place asks for.
RunOK(r) ==
  /\ \A i \in DOMAIN toWorker : RequestOf(i, r) =>
       run[r].pc \in IF toWorker[i].t = "listLive" THEN ListPcs ELSE {"attaching"}
  /\ \A i \in DOMAIN toHub : AnswerOf(i, r) =>
       run[r].pc \in IF toHub[i].t = "live" THEN ListPcs ELSE {"attaching"}
  /\ \A i, j \in DOMAIN toWorker : RequestOf(i, r) /\ RequestOf(j, r) => i = j
  /\ \A i, j \in DOMAIN toHub : AnswerOf(i, r) /\ AnswerOf(j, r) => i = j
  /\ \A i \in DOMAIN toWorker, j \in DOMAIN toHub : ~(RequestOf(i, r) /\ AnswerOf(j, r))

RunsOK == attached => \A r \in Runs : RunOK(r)

\* Where a call of attachWorker() has heard from the worker, or asked it a second time.
HeardPcs == {"listed", "attaching", "drained", "relisting", "relisted"}

\* A runTurn on an open link: not acknowledged, the hub's current call unless that was given
\* up, and ahead of everything that a call of attachWorker() asks.
CallOK(i) ==
  /\ \A j \in DOMAIN toWorker :
       /\ toWorker[j].t = "runTurn" /\ toWorker[j].call = toWorker[i].call => j = i
       /\ toWorker[j].t \in {"listLive", "attach"} => i < j
  /\ \A j \in DOMAIN toHub :
       /\ toHub[j].t \notin {"live", "attachAck"}
       /\ toHub[j].t = "ack" => toHub[j].call # toWorker[i].call
  /\ turn = "resuming" => accepting # toWorker[i].call
  /\ calling = toWorker[i].call \/ doubtful
  /\ \A r \in Runs : run[r].pc \notin HeardPcs

CallsOK ==
  /\ calling <= turns /\ accepting <= turns
  /\ \A i \in DOMAIN toHub : toHub[i].t = "ack" => toHub[i].call <= turns
  /\ \A i \in DOMAIN toWorker : toWorker[i].t = "runTurn" => toWorker[i].call \in 1 .. turns
  /\ link = "open" => \A i \in DOMAIN toWorker : toWorker[i].t = "runTurn" => CallOK(i)

NoRunTurn == \A i \in DOMAIN toWorker : toWorker[i].t # "runTurn"

\* A stopSession is the last thing a worker is told that concerns a turn or a replay.
StopOK ==
  \A i \in DOMAIN toWorker : toWorker[i].t = "stopSession" /\ link \in {"open", "hubGone"} =>
    /\ retired /\ turn = "none" /\ NoRunTurn
    /\ \A j \in DOMAIN toWorker :
         toWorker[j].t = "attach" /\ toWorker[j].since # NoCursor => j < i

\* Every end of a turn in the ring is followed by the start of another.
StartedLast(r) ==
  \A i \in DOMAIN r.kinds : r.kinds[i] \in {"completed", "errored"} =>
    \E j \in DOMAIN r.kinds : i < j /\ r.kinds[j] = "started"

\* The worker's own state: a turn runs in a session it holds, or resumes a codex thread; it
\* is marked as active, and its start is the last marker the ring has, unless the refusal
\* of a second turn was announced as its end.
TurnOK ==
  /\ turn = "resuming" => ~held /\ provider = "codex"
  /\ turn = "live" => held
  /\ turn # "none" /\ link = "open" /\ ~doubtful => activeTurn
  /\ link = "open" /\ (~attached \/ Attaching) =>
       /\ turn # "resuming"
       /\ held \/ provider = "claude" \/ NoRunTurn
  /\ activeTurn => StartedLast(ring)

ProtocolOK == SocketOK /\ ProcessesOK /\ RunsOK /\ CallsOK /\ StopOK /\ TurnOK

\* Where the reply to a listLive() is in and not used yet.
Recorded(r) == run[r].pc \in {"listed", "relisted"}

\* What a listLive() reported: a session the worker does not hold emits nothing after the
\* report, and on an open link the report stands, but for a hand-off.
HeldOK ==
  /\ \A i \in DOMAIN toHub : toHub[i].t = "live" =>
       /\ toHub[i].busy => toHub[i].held
       /\ ~toHub[i].held => \A j \in DOMAIN toHub : toHub[j].t = "event" => j < i
       /\ link = "open" => IF toHub[i].held THEN held \/ retired ELSE ~held /\ turn = "none"
  /\ \A r \in Runs : Recorded(r) =>
       /\ run[r].busy => run[r].held
       /\ ~run[r].held => \A j \in DOMAIN toHub : toHub[j].t # "event"
       /\ link = "open" => IF run[r].held THEN held \/ retired ELSE ~held /\ turn = "none"

-----------------------------------------------------------------------------
(* The inductive invariant: the hub's view of the turn.                    *)

\* On an open link, and no call was given up: nothing obscures the hub's view.
View == link = "open" /\ ~doubtful

IsTurn(i) == i \in DOMAIN toHub /\ toHub[i].t = "turn"
NoTurns == \A i \in DOMAIN toHub : toHub[i].t # "turn"
FirstTurn(i) == IsTurn(i) /\ \A j \in DOMAIN toHub : IsTurn(j) => i <= j
LastTurn(i) == IsTurn(i) /\ \A j \in DOMAIN toHub : IsTurn(j) => j <= i

\* A turn that was sent and is not begun is the only one, and the hub knows.
SentOK ==
  View => \A i \in DOMAIN toWorker : toWorker[i].t = "runTurn" =>
    /\ busy /\ turn = "none" /\ NoTurns
    /\ \A j \in DOMAIN toWorker : toWorker[j].t = "runTurn" => j = i

\* Live markers on the wire: a start is the first marker, an end the last live one.
LiveMarksOK ==
  View => \A i \in DOMAIN toHub : IsTurn(i) /\ ~toHub[i].replay =>
    IF toHub[i].kind = "started" THEN \A j \in DOMAIN toHub : IsTurn(j) => i <= j
    ELSE turn = "none" /\ \A j \in DOMAIN toHub : IsTurn(j) /\ i < j => toHub[j].replay

\* Replayed markers on the wire: their acknowledgement follows, and an end is followed by a
\* replayed marker, or by none and then no turn runs.
ReplayedOK ==
  \A i \in DOMAIN toHub : IsTurn(i) /\ toHub[i].replay =>
    /\ \E j \in DOMAIN toHub : i < j /\ toHub[j].t = "attachAck"
    /\ View /\ toHub[i].kind # "started" =>
         /\ LastTurn(i) => turn = "none"
         /\ \A j \in DOMAIN toHub :
              IsTurn(j) /\ i < j /\ ~toHub[j].replay => \E k \in DOMAIN toHub : IsTurn(k) /\ i < k /\ k < j

\* The next marker the hub will see is that of a turn that runs, or ran when it attached.
NextIsLive ==
  \/ NoTurns /\ turn # "none"
  \/ \E i \in DOMAIN toHub : FirstTurn(i) /\ ~toHub[i].replay

\* Then the hub has the session for busy, or is about to be told for the first time.
BusyOK ==
  View /\ attached /\ ~retired /\ ~busy /\ NextIsLive =>
    run["attached"].pc \in {"listing", "listed"} /\ ~run["attached"].touched

\* A report that no turn runs has no end of a turn behind it.
ReportOK ==
  View =>
    /\ \A i \in DOMAIN toHub : toHub[i].t = "live" /\ ~toHub[i].busy =>
         turn = "none" /\ \A j \in DOMAIN toHub : IsTurn(j) /\ i < j => toHub[j].replay
    /\ \A r \in Runs : Recorded(r) /\ ~run[r].busy =>
         turn = "none" /\ \A j \in DOMAIN toHub : IsTurn(j) => toHub[j].replay

ViewOK == SentOK /\ LiveMarksOK /\ ReplayedOK /\ BusyOK /\ ReportOK

-----------------------------------------------------------------------------
(* The inductive invariant: what is journaled.                             *)

\* The event is in the journal, declared lost there, or part of the pending text.
Known(e, w) == Accounted(e, w) \/ (pending.era = e /\ w \in pending.of)

\* The worker has, or is about to get, something to number.
Begun ==
  \/ ring.last > 0 \/ turn # "none" \/ held
  \/ link \in {"open", "hubGone"} /\ ~NoRunTurn

\* Neither mark is ahead of the worker, and after attachWorker() none is left of another.
MarksOK ==
  /\ Begun => Seen <= ring.last /\ cursor <= ring.last
  /\ link = "open" /\ attached /\ ~Attaching /\ ~retired /\ ~Begun => Seen = 0

\* The marks tell the truth about the era, and no reset split it.
TruthOf(e) ==
  \A w \in produced[e] : (w <= Seen => Known(e, w)) /\ (w <= cursor => Accounted(e, w))

Unsplit(e) ==
  \A i, k \in DOMAIN journal :
    WorkerRow(i) /\ journal[i].era = e /\ i < k => journal[k].kind # "reset"

IsEvent(i) == i \in DOMAIN toHub /\ toHub[i].t = "event"

\* So it is for the current era and for that of the events on the wire.
TruthOK ==
  /\ TruthOf(Era) /\ Unsplit(Era)
  /\ \A i \in DOMAIN toHub : IsEvent(i) => TruthOf(toHub[i].era) /\ Unsplit(toHub[i].era)

\* Pending text follows everything before it.
PendingOK ==
  pending # NoDelta =>
    /\ pending.era \in 1 .. Era /\ pending.wseq > 0
    /\ pending.era = Era => pending.wseq <= ring.last
    /\ \A w \in produced[pending.era] : w <= pending.wseq => Known(pending.era, w)
    /\ Unsplit(pending.era)

\* The ring holds as vendor events what was produced, nothing newer was, and the newest
\* event of a session is never trimmed.
Numbered(r, P) ==
  /\ r.kinds = << >> => r.last = 0
  /\ \A w \in P : w <= r.last
  /\ \A i \in DOMAIN r.kinds : r.kinds[i] \in {"text", "delta"} <=> WseqAt(r, i) \in P

\* What was produced, and what the ring and the journal have of it.
NumbersOK ==
  /\ \A e \in DOMAIN produced : \A w \in produced[e] : w > 0
  /\ Numbered(ring, produced[Era])
  /\ \A i \in DOMAIN journal : WorkerRow(i) =>
       /\ journal[i].era \in 1 .. Era
       /\ journal[i].era = Era => journal[i].wseq <= ring.last

\* The message accounts for the event.
Tells(m, e, w) ==
  m.t = "event" /\ m.era = e /\ (m.wseq = w \/ (m.kind = "gap" /\ w <= m.wseq))

\* An event on the wire comes after every earlier one that the hub has not seen.
FrameOK(i) ==
  /\ toHub[i].era \in 1 .. Era /\ toHub[i].wseq > 0
  /\ toHub[i].era = Era => toHub[i].wseq <= ring.last
  /\ toHub[i].kind # "gap" =>
       /\ toHub[i].wseq \in produced[toHub[i].era]
       /\ \A w \in produced[toHub[i].era] : w < toHub[i].wseq =>
            w <= Seen \/ \E j \in DOMAIN toHub : j < i /\ Tells(toHub[j], toHub[i].era, w)
  /\ toHub[i].era # Era =>
       /\ ring.last = 0 /\ turn = "none" /\ ~held
       /\ link = "open" => retired /\ NoRunTurn

FramesOK ==
  /\ \A i \in DOMAIN toHub : IsEvent(i) => FrameOK(i)
  /\ \A i, j \in DOMAIN toHub : IsEvent(i) /\ IsEvent(j) => toHub[i].era = toHub[j].era

\* A session the worker does not hold has emitted nothing in this era.
UnheldOK ==
  ~held =>
    /\ produced[Era] = {} /\ pending.era # Era
    /\ \A i \in DOMAIN journal : WorkerRow(i) => journal[i].era # Era
    /\ \A i \in DOMAIN toHub : IsEvent(i) => toHub[i].era # Era

\* What a link has replayed, or is asked to replay from a cursor, is seen or on the wire.
ReplayOK ==
  link = "open" =>
    /\ synced => \A w \in produced[Era] :
         w <= Seen \/ \E j \in DOMAIN toHub : Tells(toHub[j], Era, w)
    /\ \A i \in DOMAIN toWorker : toWorker[i].t = "attach" /\ toWorker[i].since # NoCursor =>
         held /\ toWorker[i].since <= Seen

IngestOK ==
  /\ MarksOK /\ TruthOK /\ PendingOK /\ NumbersOK /\ FramesOK /\ UnheldOK /\ ReplayOK
  /\ NoSilentLoss /\ ResetBetweenEras

IInv == TypeInv /\ ProtocolOK /\ HeldOK /\ ViewOK /\ IngestOK

-----------------------------------------------------------------------------
(* Queues: what a step reads, and what it adds.                            *)

\* The first frame is read; the others move up.
ReadHub ==
  /\ 1 \in DOMAIN toHub
  /\ \A i \in DOMAIN toHub' : i \in Nat /\ i >= 1 /\ i + 1 \in DOMAIN toHub /\ toHub'[i] = toHub[i + 1]
  /\ \A i \in DOMAIN toHub : i \in Nat /\ i >= 1 /\ (i # 1 => i - 1 \in DOMAIN toHub'
       /\ toHub'[i - 1] = toHub[i])

ReadWorker ==
  /\ 1 \in DOMAIN toWorker
  /\ \A i \in DOMAIN toWorker' :
       i \in Nat /\ i >= 1 /\ i + 1 \in DOMAIN toWorker /\ toWorker'[i] = toWorker[i + 1]
  /\ \A i \in DOMAIN toWorker :
       i \in Nat /\ i >= 1 /\ (i # 1 => i - 1 \in DOMAIN toWorker' /\ toWorker'[i - 1] = toWorker[i])

\* The frames ms are added behind those that are there.
SentHub(ms) ==
  /\ \A i \in DOMAIN toHub : i \in Nat /\ i >= 1 /\ i <= Len(toHub) /\ i \in DOMAIN toHub'
       /\ toHub'[i] = toHub[i]
  /\ \A i \in DOMAIN toHub' : i \in Nat /\ i >= 1 /\ i \notin DOMAIN toHub =>
       i > Len(toHub) /\ i - Len(toHub) \in 1 .. Len(ms) /\ toHub'[i] = ms[i - Len(toHub)]
  /\ \A k \in 1 .. Len(ms) : Len(toHub) + k \in DOMAIN toHub' /\ toHub'[Len(toHub) + k] = ms[k]
  /\ Len(toHub) \in Nat

\* The command m is added behind those that are there.
SentWorker(m) ==
  /\ \A i \in DOMAIN toWorker :
       i \in Nat /\ i >= 1 /\ i <= Len(toWorker) /\ i \in DOMAIN toWorker' /\ toWorker'[i] = toWorker[i]
  /\ \A i \in DOMAIN toWorker' :
       i \in DOMAIN toWorker \/ (i = Len(toWorker) + 1 /\ toWorker'[i] = m)
  /\ Len(toWorker) \in Nat /\ Len(toWorker) + 1 \in DOMAIN toWorker'
  /\ toWorker'[Len(toWorker) + 1] = m

\* The head of a queue, and where the rest of it goes.
LEMMA TailMoves ==
  ASSUME NEW S, NEW q \in Seq(S), q # << >>
  PROVE  /\ 1 \in DOMAIN q /\ Head(q) = q[1] /\ q[1] \in S
         /\ \A i \in DOMAIN Tail(q) : i \in Nat /\ i >= 1 /\ i + 1 \in DOMAIN q /\ Tail(q)[i] = q[i + 1]
         /\ \A i \in DOMAIN q :
              i \in Nat /\ i >= 1 /\ (i # 1 => i - 1 \in DOMAIN Tail(q) /\ Tail(q)[i - 1] = q[i])
OBVIOUS

\* A hub that reads a frame reads the first one.
LEMMA FrameRead ==
  ASSUME TypeInv, NEW type, Frame(type)
  PROVE  /\ ReadHub /\ Head(toHub) = toHub[1] /\ toHub[1].t = type /\ toHub[1] \in ToHubMsgs
         /\ hubUp /\ link \in {"open", "workerGone"}
BY TailMoves DEF Frame, ReadHub, TypeInv, TypeOK, ChannelOK

\* A worker that reads a command reads the first one.
LEMMA CommandRead ==
  ASSUME TypeInv, NEW type, Command(type), toWorker' = Tail(toWorker)
  PROVE  /\ ReadWorker /\ Head(toWorker) = toWorker[1] /\ toWorker[1].t = type
         /\ toWorker[1] \in ToWorkerMsgs /\ link \in {"open", "hubGone"}
BY TailMoves DEF Command, ReadWorker, TypeInv, TypeOK, ChannelOK

\* Where the parts of a concatenation are.
LEMMA ConcatMoves ==
  ASSUME NEW S, NEW q \in Seq(S), NEW T, NEW p \in Seq(T)
  PROVE  /\ Len(q) \in Nat /\ \A i \in DOMAIN q : i \in Nat /\ i >= 1 /\ i <= Len(q)
         /\ \A i \in DOMAIN q : i \in DOMAIN (q \o p) /\ (q \o p)[i] = q[i]
         /\ \A i \in DOMAIN (q \o p) : i \in Nat /\ i >= 1 /\ i \notin DOMAIN q =>
              i > Len(q) /\ i - Len(q) \in 1 .. Len(p) /\ (q \o p)[i] = p[i - Len(q)]
         /\ \A k \in 1 .. Len(p) : Len(q) + k \in DOMAIN (q \o p) /\ (q \o p)[Len(q) + k] = p[k]
<1>1. DOMAIN q = 1 .. Len(q) /\ Len(q) \in Nat /\ DOMAIN p = 1 .. Len(p) /\ Len(p) \in Nat
  OBVIOUS
<1>2. q \o p \in Seq(S \cup T) /\ Len(q \o p) = Len(q) + Len(p) /\ DOMAIN (q \o p) = 1 .. Len(q) + Len(p)
  OBVIOUS
<1>3. \A i \in 1 .. Len(q) + Len(p) : (q \o p)[i] = IF i <= Len(q) THEN q[i] ELSE p[i - Len(q)]
  BY <1>1, <1>2
<1>4. QED BY <1>1, <1>2, <1>3

\* Where the frames of a send() are.
LEMMA HubSent ==
  ASSUME TypeInv, NEW T, NEW ms \in Seq(T), Send(ms)
  PROVE  IF link = "open" THEN SentHub(ms) ELSE UNCHANGED toHub
BY ConcatMoves DEF Send, SentHub, TypeInv, TypeOK, ChannelOK

\* Where the command of a call is.
LEMMA WorkerSent ==
  ASSUME TypeInv, NEW m, toWorker' = Append(toWorker, m)
  PROVE  SentWorker(m)
<1>1. toWorker \in Seq(ToWorkerMsgs)
  BY DEF TypeInv, TypeOK, ChannelOK
<1>2. Append(toWorker, m) \in Seq(ToWorkerMsgs \cup {m}) /\ Len(Append(toWorker, m)) = Len(toWorker) + 1
  BY <1>1, AppendProperties
<1>3. QED BY <1>1, <1>2 DEF SentWorker

\* The mark in memory is the higher of the guard and the pending text.
LEMMA SeenFacts ==
  ASSUME TypeInv
  PROVE  /\ Seen \in Nat /\ guard <= Seen /\ pending.wseq <= Seen /\ pending.wseq \in Nat
         /\ Seen = pending.wseq \/ Seen = 0 \/ Seen = guard
BY DEF Seen, Larger, NoGuard, TypeInv, TypeOK, HubOK, Pendings

-----------------------------------------------------------------------------
(* What the steps share.                                                   *)

\* What the proofs use of the types.
LEMMA Typed ==
  ASSUME IInv
  PROVE  /\ calling \in Nat /\ accepting \in Nat /\ turns \in Nat
         /\ cursor \in Nat /\ guard \in Nat \cup {NoGuard} /\ Seen \in Nat
         /\ pending.era \in Nat /\ pending.wseq \in Nat /\ pending.of \subseteq Nat
         /\ Era \in Nat /\ Era >= 1 /\ DOMAIN produced = 1 .. Era
         /\ ring.last \in Nat
         /\ provider \in Providers
         /\ {busy, held, activeTurn, attached, hubUp, retired, synced, doubtful} \subseteq BOOLEAN
         /\ turn \in {"none", "resuming", "live"}
         /\ run \in [Runs -> RunStates]
<1>1. TypeInv
  BY DEF IInv
<1>2. DOMAIN produced = 1 .. Era
  BY <1>1 DEF TypeInv, TypeOK, WorkerOK, Era
<1>3. ring.last \in Nat
  BY <1>1 DEF TypeInv, TypeOK, WorkerOK, Rings
<1>4. QED BY <1>1, <1>2, <1>3, SeenFacts DEF TypeInv, TypeOK, DurableOK, HubOK, ChannelOK, WorkerOK, Pendings

\* The frames and commands on the socket, and the events and rows there are.
LEMMA QueuesTyped ==
  ASSUME IInv
  PROVE  /\ \A i \in DOMAIN toHub : i \in Nat /\ i >= 1 /\ toHub[i] \in ToHubMsgs
         /\ \A i \in DOMAIN toWorker : i \in Nat /\ i >= 1 /\ toWorker[i] \in ToWorkerMsgs
         /\ toHub \in Seq(ToHubMsgs) /\ toWorker \in Seq(ToWorkerMsgs)
BY DEF IInv, TypeInv, TypeOK, ChannelOK

\* The rows of the journal, and the events that were produced.
LEMMA RowsTyped ==
  ASSUME IInv
  PROVE  /\ \A i \in DOMAIN journal : i \in Nat /\ journal[i] \in Rows
         /\ journal \in Seq(Rows) /\ Len(journal) \in Nat /\ DOMAIN journal = 1 .. Len(journal)
         /\ \A e \in 1 .. Era : \A w \in produced[e] : w \in Nat
BY Typed DEF IInv, TypeInv, TypeOK, DurableOK, WorkerOK

\* The fields of the frames on the wire.
LEMMA FieldsTyped ==
  ASSUME IInv
  PROVE  \A i \in DOMAIN toHub :
           /\ toHub[i].t = "event" => toHub[i].era \in Nat /\ toHub[i].wseq \in Nat
                                      /\ toHub[i].kind \in {"text", "delta", "gap"}
           /\ toHub[i].t = "turn" => toHub[i].kind \in Lifecycle /\ toHub[i].replay \in BOOLEAN
           /\ toHub[i].t = "ack" => toHub[i].call \in Nat
           /\ toHub[i].t = "live" => toHub[i].run \in Runs /\ toHub[i].held \in BOOLEAN
                                     /\ toHub[i].busy \in BOOLEAN
           /\ toHub[i].t = "attachAck" => toHub[i].run \in Runs
BY QueuesTyped, FrameFields

\* A step that neither numbers nor ingests an event may journal the pending text.
Flushes == FlushCommandOutputDelta \/ UNCHANGED <<journal, cursor, guard, pending>>

\* Then what is seen is the same, and all that was true of it still is.
Ingested ==
  /\ Seen' = Seen /\ Era' = Era
  /\ \A e \in 1 .. Era : (TruthOf(e) => TruthOf(e)') /\ (Unsplit(e) => Unsplit(e)')
  /\ PendingOK' /\ NoSilentLoss' /\ ResetBetweenEras'
  /\ pending'.era \in {0, pending.era}
  /\ \A i \in DOMAIN journal' : IsWorkerRow(journal'[i]) =>
       /\ journal'[i].era \in 1 .. Era
       /\ journal'[i].era = Era => journal'[i].wseq <= ring.last /\ held
  /\ cursor' \in Nat /\ (cursor' <= cursor \/ cursor' <= Seen)

\* A flush moves what is known from memory to the journal, and loses nothing.
LEMMA FlushKeeps ==
  ASSUME IInv, Flushes, UNCHANGED produced, ring'.last \in Nat, ring'.last >= ring.last
  PROVE  Ingested
<1>1. CASE pending = NoDelta \/ UNCHANGED <<journal, cursor, guard, pending>>
  <2>1. UNCHANGED <<journal, cursor, guard, pending>>
    BY <1>1 DEF Flushes, FlushCommandOutputDelta, Flushed, CursorFlushed, GuardFlushed
  <2>2. Seen' = Seen /\ Era' = Era
    BY <2>1 DEF Seen, Era
  <2>3. \A e \in 1 .. Era : (TruthOf(e) => TruthOf(e)') /\ (Unsplit(e) => Unsplit(e)')
    BY <2>1, <2>2 DEF TruthOf, Unsplit, Known, Accounted, WorkerRow
  <2>4. PendingOK' /\ NoSilentLoss' /\ ResetBetweenEras'
    BY <2>1, <2>2, Typed DEF IInv, IngestOK, PendingOK, Known, Accounted, Unsplit, WorkerRow, NoSilentLoss,
       ResetBetweenEras
  <2>5. \A i \in DOMAIN journal' : IsWorkerRow(journal'[i]) =>
          /\ journal'[i].era \in 1 .. Era
          /\ journal'[i].era = Era => journal'[i].wseq <= ring.last /\ held
    BY <2>1 DEF IInv, IngestOK, NumbersOK, UnheldOK, WorkerRow
  <2>6. cursor' \in Nat /\ cursor' <= cursor
    BY <2>1, Typed
  <2>7. QED BY <2>1, <2>2, <2>3, <2>4, <2>5, <2>6 DEF Ingested
<1>2. CASE pending # NoDelta /\ ~UNCHANGED <<journal, cursor, guard, pending>>
  <2> DEFINE row == DeltaRow(pending)
  <2>1. /\ journal' = Append(journal, row) /\ cursor' = Advance(cursor, row)
        /\ guard' = Larger(IF guard = NoGuard THEN 0 ELSE guard, pending.wseq)
        /\ pending' = NoDelta
    BY <1>2 DEF Flushes, FlushCommandOutputDelta, Flushed, CursorFlushed, GuardFlushed
  <2>2. /\ row.kind = "event" /\ row.era = pending.era /\ row.wseq = pending.wseq /\ row.of = pending.of
        /\ pending.era \in 1 .. Era /\ pending.wseq \in Nat /\ pending.era \in Nat
    BY <1>2, Typed DEF DeltaRow, IInv, IngestOK, PendingOK
  <2>3. /\ \A i \in DOMAIN journal : i \in DOMAIN journal' /\ journal'[i] = journal[i] /\ i <= Len(journal)
        /\ \A i \in DOMAIN journal' : i \in Nat /\ (i \in DOMAIN journal \/ (i = Len(journal) + 1
             /\ journal'[i] = row))
        /\ Len(journal) \in Nat /\ Len(journal) + 1 \in DOMAIN journal' /\ journal'[Len(journal) + 1] = row
    <3>1. row \in Rows
      BY Typed DEF DeltaRow, Rows
    <3>2. QED BY <2>1, <3>1, RowsTyped
  <2> HIDE DEF row
  <2>4. Seen' = Seen /\ Era' = Era
    BY <2>1, Typed DEF Seen, Era, Larger, NoDelta, NoGuard
  <2>5. cursor' \in Nat /\ (cursor' = cursor \/ cursor' = pending.wseq) /\ pending.wseq <= Seen
    BY <2>1, <2>2, Typed, SeenFacts DEF Advance, IInv
  <2>6. \A e, w : Accounted(e, w)' <=> Known(e, w)
    BY <2>2, <2>3 DEF Accounted, Known
  <2>7. \A e, w : Known(e, w)' <=> Known(e, w)
    BY <2>1, <2>6 DEF Known, NoDelta
  <2>8. \A e \in 1 .. Era : TruthOf(e) => TruthOf(e)'
    <3> SUFFICES ASSUME NEW e \in 1 .. Era, TruthOf(e), NEW w \in produced[e]
                 PROVE  /\ w <= Seen => Known(e, w)'
                        /\ w <= cursor' => Accounted(e, w)'
      BY <2>4 DEF TruthOf
    <3>1. w \in Nat /\ (w <= Seen => Known(e, w)) /\ (w <= cursor => Accounted(e, w))
      BY RowsTyped DEF TruthOf
    <3>2. w <= cursor' => w <= cursor \/ w <= Seen
      BY <3>1, <2>5, Typed
    <3>3. QED BY <3>1, <3>2, <2>6, <2>7 DEF Known
  <2>9. Unsplit(pending.era)
    BY <1>2 DEF IInv, IngestOK, PendingOK
  <2>10. \A e \in 1 .. Era : Unsplit(e) => Unsplit(e)'
    BY <2>2, <2>3 DEF Unsplit, WorkerRow
  <2>11. PendingOK'
    BY <2>1 DEF PendingOK
  <2>12. NoSilentLoss'
    <3> SUFFICES ASSUME NEW e \in DOMAIN produced, NEW w \in produced[e],
                        NEW i \in DOMAIN journal', journal'[i].era = e, IsWorkerRow(journal'[i]), journal'[i].wseq > w
                 PROVE  Accounted(e, w)'
      BY DEF NoSilentLoss, WorkerRow
    <3>1. CASE i \in DOMAIN journal
      BY <3>1, <2>3, <2>6 DEF IInv, IngestOK, NoSilentLoss, WorkerRow, Known
    <3>2. CASE i \notin DOMAIN journal
      <4>1. e = pending.era /\ w < pending.wseq
        BY <3>2, <2>2, <2>3, Typed, RowsTyped
      <4>2. Known(e, w)
        BY <1>2, <4>1, Typed, RowsTyped DEF IInv, IngestOK, PendingOK
      <4>3. QED BY <4>2, <2>6
    <3>3. QED BY <3>1, <3>2
  <2>13. ResetBetweenEras'
    BY <2>2, <2>3, <2>9 DEF ResetBetweenEras, WorkerRow, IsWorkerRow, IInv, IngestOK, Unsplit
  <2>14. \A i \in DOMAIN journal' : IsWorkerRow(journal'[i]) =>
          /\ journal'[i].era \in 1 .. Era
          /\ journal'[i].era = Era => journal'[i].wseq <= ring.last /\ held
    BY <1>2, <2>2, <2>3 DEF IInv, IngestOK, NumbersOK, UnheldOK, PendingOK, WorkerRow
  <2>15. pending'.era \in {0, pending.era}
    BY <2>1 DEF NoDelta
  <2>16. cursor' \in Nat /\ (cursor' <= cursor \/ cursor' <= Seen)
    BY <2>5, Typed
  <2>17. QED
    BY <2>4, <2>8, <2>10, <2>11, <2>12, <2>13, <2>14, <2>15, <2>16 DEF Ingested
<1>3. QED BY <1>1, <1>2

\* A frame that is no event leaves what the events on the wire say.
LEMMA OtherRead ==
  ASSUME IInv, ReadHub, toHub[1].t # "event", Ingested,
         UNCHANGED <<ring, turn, held, produced, link, retired>>, NoRunTurn => NoRunTurn'
  PROVE  /\ FramesOK' /\ TruthOK'
         /\ \A i \in DOMAIN toHub' : IsEvent(i)' <=> IsEvent(i + 1)
         /\ link = "open" /\ synced => \A w \in produced[Era] :
              w <= Seen' \/ \E j \in DOMAIN toHub' : Tells(toHub'[j], Era', w)
<1>0. Seen' = Seen /\ Era' = Era
  BY DEF Ingested
<1>1. \A i \in DOMAIN toHub' : IsEvent(i)' <=> IsEvent(i + 1)
  BY DEF ReadHub, IsEvent
<1>2. \A e, w : \A j \in DOMAIN toHub : Tells(toHub[j], e, w) =>
        j # 1 /\ j - 1 \in DOMAIN toHub' /\ toHub'[j - 1] = toHub[j]
  BY DEF ReadHub, Tells
<1>3. ASSUME NEW i \in DOMAIN toHub', IsEvent(i)'
      PROVE  FrameOK(i)'
  <2>1. FrameOK(i + 1) /\ toHub'[i] = toHub[i + 1] /\ i + 1 \in DOMAIN toHub /\ i \in Nat
    BY <1>1, <1>3 DEF IInv, IngestOK, FramesOK, ReadHub
  <2>2. ASSUME NEW w \in produced[toHub'[i].era], w < toHub'[i].wseq, toHub'[i].kind # "gap"
        PROVE  w <= Seen \/ \E j \in DOMAIN toHub' : j < i /\ Tells(toHub'[j], toHub'[i].era, w)
    <3>1. w <= Seen \/ \E j \in DOMAIN toHub : j < i + 1 /\ Tells(toHub[j], toHub[i + 1].era, w)
      BY <2>1, <2>2 DEF FrameOK
    <3>2. CASE w <= Seen
      BY <3>2
    <3>3. ASSUME NEW j \in DOMAIN toHub, j < i + 1, Tells(toHub[j], toHub[i + 1].era, w)
          PROVE  \E k \in DOMAIN toHub' : k < i /\ Tells(toHub'[k], toHub'[i].era, w)
      BY <1>2, <2>1, <3>3 DEF ReadHub
    <3>4. QED BY <3>1, <3>2, <3>3
  <2>3. QED BY <1>0, <2>1, <2>2 DEF FrameOK
<1>4. \A i, j \in DOMAIN toHub' : IsEvent(i)' /\ IsEvent(j)' => toHub'[i].era = toHub'[j].era
  BY <1>1 DEF IInv, IngestOK, FramesOK, ReadHub
<1>5. ASSUME link = "open", synced, NEW w \in produced[Era]
      PROVE  w <= Seen \/ \E j \in DOMAIN toHub' : Tells(toHub'[j], Era, w)
  <2>1. w <= Seen \/ \E j \in DOMAIN toHub : Tells(toHub[j], Era, w)
    BY <1>5 DEF IInv, IngestOK, ReplayOK
  <2>2. ASSUME NEW j \in DOMAIN toHub, Tells(toHub[j], Era, w)
        PROVE  \E k \in DOMAIN toHub' : Tells(toHub'[k], Era, w)
    BY <1>2, <2>2
  <2>3. QED BY <2>1, <2>2
<1>6. TruthOK'
  <2>1. \A e \in 1 .. Era : (TruthOf(e) => TruthOf(e)') /\ (Unsplit(e) => Unsplit(e)')
    BY DEF Ingested
  <2>2. TruthOf(Era)' /\ Unsplit(Era)'
    BY <1>0, <2>1, Typed DEF IInv, IngestOK, TruthOK
  <2>3. ASSUME NEW i \in DOMAIN toHub', IsEvent(i)'
        PROVE  (TruthOf(toHub[i].era) /\ Unsplit(toHub[i].era))'
    BY <1>1, <2>1, <2>3 DEF ReadHub, IInv, IngestOK, TruthOK, FramesOK, FrameOK
  <2>4. QED BY <2>2, <2>3 DEF TruthOK
<1>7. QED BY <1>0, <1>1, <1>3, <1>4, <1>5, <1>6 DEF FramesOK

\* A frame that is no marker does not change what the next marker is.
LEMMA NextKept ==
  ASSUME ReadHub, toHub[1].t # "turn", UNCHANGED turn, NextIsLive'
  PROVE  NextIsLive
<1>1. CASE NoTurns' /\ turn' # "none"
  BY <1>1 DEF ReadHub, NoTurns, NextIsLive
<1>2. ASSUME NEW i \in DOMAIN toHub', FirstTurn(i)', ~toHub'[i].replay
      PROVE  NextIsLive
  <2>1. i + 1 \in DOMAIN toHub /\ toHub'[i] = toHub[i + 1] /\ toHub[i + 1].t = "turn" /\ i \in Nat
    BY <1>2 DEF ReadHub, FirstTurn, IsTurn
  <2>2. ASSUME NEW j \in DOMAIN toHub, toHub[j].t = "turn"
        PROVE  i + 1 <= j
    BY <1>2, <2>1, <2>2 DEF ReadHub, FirstTurn, IsTurn
  <2>3. FirstTurn(i + 1)
    BY <2>1, <2>2 DEF FirstTurn, IsTurn
  <2>4. QED BY <1>2, <2>1, <2>3 DEF NextIsLive
<1>3. QED BY <1>1, <1>2 DEF NextIsLive, FirstTurn, IsTurn

\* setBusy() leaves a mark on the calls that have asked for the busy bit, and nothing else.
LEMMA TouchedOnly ==
  ASSUME IInv, run' = Touched(run)
  PROVE  /\ run' \in [Runs -> RunStates]
         /\ \A r \in Runs : /\ run'[r].pc = run[r].pc /\ run'[r].held = run[r].held
                                 /\ run'[r].busy = run[r].busy
                            /\ run[r].pc \in {"listing", "listed"} => run'[r].touched
                            /\ run[r].touched => run'[r].touched
BY Typed, TouchedTyped DEF Touched, RunStates

\* The events on the wire stay as they are when nothing is read or sent.
LEMMA Quiet ==
  ASSUME IInv, Ingested, UNCHANGED <<toHub, ring, turn, held, produced, link>>,
         retired => retired', (NoRunTurn => NoRunTurn') \/ ~retired
  PROVE  FramesOK' /\ TruthOK'
<1>0. Seen' = Seen /\ Era' = Era
  BY DEF Ingested
<1>1. \A i \in DOMAIN toHub : IsEvent(i)' <=> IsEvent(i)
  BY DEF IsEvent
<1>2. ASSUME NEW i \in DOMAIN toHub, IsEvent(i)
      PROVE  FrameOK(i)'
  BY <1>0, <1>2 DEF IInv, IngestOK, FramesOK, FrameOK
<1>3. FramesOK'
  BY <1>1, <1>2 DEF FramesOK, IInv, IngestOK
<1>4. TruthOK'
  <2>1. \A e \in 1 .. Era : (TruthOf(e) => TruthOf(e)') /\ (Unsplit(e) => Unsplit(e)')
    BY DEF Ingested
  <2>2. TruthOf(Era)' /\ Unsplit(Era)'
    BY <1>0, <2>1, Typed DEF IInv, IngestOK, TruthOK
  <2>3. ASSUME NEW i \in DOMAIN toHub, IsEvent(i)
        PROVE  (TruthOf(toHub[i].era) /\ Unsplit(toHub[i].era))'
    BY <2>1, <2>3 DEF IInv, IngestOK, TruthOK, FramesOK, FrameOK
  <2>4. QED BY <1>1, <2>2, <2>3 DEF TruthOK
<1>5. QED BY <1>3, <1>4

\* It is enough that an event on the wire has an era that was there before, or the current one.
LEMMA TruthKept ==
  ASSUME IInv, Ingested,
         \A i \in DOMAIN toHub' : IsEvent(i)' =>
           toHub'[i].era = Era \/ \E j \in DOMAIN toHub : IsEvent(j) /\ toHub'[i].era = toHub[j].era
  PROVE  TruthOK'
<1>1. Era' = Era /\ \A e \in 1 .. Era : (TruthOf(e) => TruthOf(e)') /\ (Unsplit(e) => Unsplit(e)')
  BY DEF Ingested
<1>2. TruthOf(Era)' /\ Unsplit(Era)' /\ Era \in 1 .. Era
  BY <1>1, Typed DEF IInv, IngestOK, TruthOK
<1>3. \A j \in DOMAIN toHub : IsEvent(j) =>
        TruthOf(toHub[j].era) /\ Unsplit(toHub[j].era) /\ toHub[j].era \in 1 .. Era
  BY DEF IInv, IngestOK, TruthOK, FramesOK, FrameOK
<1>4. ASSUME NEW i \in DOMAIN toHub', IsEvent(i)'
      PROVE  \E e \in 1 .. Era : e = toHub'[i].era /\ TruthOf(e)' /\ Unsplit(e)'
  <2>1. CASE toHub'[i].era = Era
    BY <1>1, <1>2, <2>1
  <2>2. CASE toHub'[i].era # Era
    BY <1>1, <1>3, <1>4, <2>2
  <2>3. QED BY <2>1, <2>2
<1>5. ASSUME NEW i \in DOMAIN toHub', IsEvent(i)', NEW e, e = toHub'[i].era, TruthOf(e)', Unsplit(e)'
      PROVE  (TruthOf(toHub[i].era) /\ Unsplit(toHub[i].era))'
  BY <1>5
<1>6. QED BY <1>2, <1>1, <1>4, <1>5 DEF TruthOK

-----------------------------------------------------------------------------
(* The ring.                                                               *)

\* The ring s is r without its d oldest events, and one more.
Shifted(r, s, d) ==
  /\ Len(s.kinds) = Len(r.kinds) + 1 - d
  /\ \A i \in 1 .. Len(s.kinds) - 1 : i + d \in 1 .. Len(r.kinds) /\ s.kinds[i] = r.kinds[i + d]

\* A ring that takes an event keeps the newer part of what it had, in its place before it.
LEMMA RingShift ==
  ASSUME NEW r, WellFormed(r, RingKinds), NEW k \in RingKinds, NEW s, s = RingAppend(r, k)
  PROVE  /\ WellFormed(s, RingKinds) /\ s.last = r.last + 1 /\ r.last \in Nat /\ s.last \in Nat
         /\ DOMAIN r.kinds = 1 .. Len(r.kinds) /\ DOMAIN s.kinds = 1 .. Len(s.kinds)
         /\ Len(r.kinds) \in Nat /\ Len(s.kinds) \in Nat /\ Len(s.kinds) > 0 /\ s.kinds[Len(s.kinds)] = k
         /\ \E d \in {0, 1} : Shifted(r, s, d)
<1> DEFINE ks == Append(r.kinds, k)
<1>1. /\ r.kinds \in Seq(RingKinds) /\ r.last \in Nat /\ Len(r.kinds) <= MaxPerSession
      /\ Len(r.kinds) \in Nat /\ DOMAIN r.kinds = 1 .. Len(r.kinds)
  BY DEF WellFormed, Rings
<1>2. /\ ks \in Seq(RingKinds) /\ Len(ks) = Len(r.kinds) + 1 /\ ks[Len(r.kinds) + 1] = k
      /\ \A i \in 1 .. Len(r.kinds) : ks[i] = r.kinds[i]
  BY <1>1, AppendProperties
<1>3. s.kinds = Trimmed(ks) /\ s.last = r.last + 1 /\ WellFormed(s, RingKinds)
  BY AppendKeepsWindow DEF RingAppend
<1> HIDE DEF ks
<1>4. /\ s.kinds \in Seq(RingKinds)
      /\ Len(s.kinds) = IF Len(ks) > MaxPerSession THEN MaxPerSession ELSE Len(ks)
      /\ \A i \in 1 .. Len(s.kinds) : s.kinds[i] = ks[Len(ks) - Len(s.kinds) + i]
  <2>1. /\ Trimmed(ks) \in Seq(RingKinds)
        /\ Len(Trimmed(ks)) = IF Len(ks) > MaxPerSession THEN MaxPerSession ELSE Len(ks)
        /\ \A i \in 1 .. Len(Trimmed(ks)) : Trimmed(ks)[i] = ks[Len(ks) - Len(Trimmed(ks)) + i]
    <3>1. ks \in Seq(RingKinds)
      BY <1>2
    <3>2. QED BY <3>1, TrimmedWindow
  <2>2. s.kinds = Trimmed(ks)
    BY <1>3
  <2>3. QED BY <2>1, <2>2
<1>5. Len(s.kinds) \in Nat /\ DOMAIN s.kinds = 1 .. Len(s.kinds) /\ Len(s.kinds) > 0
  BY <1>1, <1>2, <1>4, MaxPerSessionAssumption
<1>6. s.kinds[Len(s.kinds)] = k
  BY <1>1, <1>2, <1>4, <1>5
<1>7. PICK d \in {0, 1} : Len(s.kinds) = Len(r.kinds) + 1 - d
  BY <1>1, <1>2, <1>4, MaxPerSessionAssumption
<1>8. \A i \in 1 .. Len(s.kinds) - 1 : i + d \in 1 .. Len(r.kinds) /\ s.kinds[i] = r.kinds[i + d]
  <2> TAKE i \in 1 .. Len(s.kinds) - 1
  <2>1. Len(ks) - Len(s.kinds) + i = i + d /\ i + d \in 1 .. Len(r.kinds) /\ i \in 1 .. Len(s.kinds)
    BY <1>1, <1>2, <1>5, <1>7
  <2>2. s.kinds[i] = ks[i + d]
    BY <1>4, <2>1
  <2>3. QED BY <1>2, <2>1, <2>2
<1>9. Shifted(r, s, d)
  BY <1>7, <1>8 DEF Shifted
<1>10. QED BY <1>1, <1>3, <1>5, <1>6, <1>9

\* A ring that takes an event still numbers the vendor events as they were produced.
LEMMA NumberedAppend ==
  ASSUME NEW r, WellFormed(r, RingKinds), NEW k \in RingKinds, NEW s, s = RingAppend(r, k),
         NEW P \in SUBSET Nat, Numbered(r, P), NEW Q,
         Q = IF k \in {"text", "delta"} THEN P \cup {r.last + 1} ELSE P
  PROVE  Numbered(s, Q)
<1>1. /\ s.last = r.last + 1 /\ r.last \in Nat /\ DOMAIN r.kinds = 1 .. Len(r.kinds)
      /\ DOMAIN s.kinds = 1 .. Len(s.kinds) /\ Len(r.kinds) \in Nat /\ Len(s.kinds) \in Nat
      /\ Len(s.kinds) > 0 /\ s.kinds[Len(s.kinds)] = k
  BY RingShift
<1>2. PICK d \in {0, 1} :
        /\ Len(s.kinds) = Len(r.kinds) + 1 - d
        /\ \A i \in 1 .. Len(s.kinds) - 1 : i + d \in 1 .. Len(r.kinds) /\ s.kinds[i] = r.kinds[i + d]
  BY RingShift DEF Shifted
<1>3. \A w \in Q : w <= s.last
  BY <1>1 DEF Numbered
<1>4. WseqAt(s, Len(s.kinds)) = r.last + 1 /\ r.last + 1 \notin P
  BY <1>1 DEF WseqAt, Numbered
<1>5. ASSUME NEW i \in 1 .. Len(s.kinds) - 1
      PROVE  s.kinds[i] \in {"text", "delta"} <=> WseqAt(s, i) \in Q
  <2>0. i \in Nat /\ d \in Nat /\ i + d <= Len(r.kinds) /\ i + d \in Nat
    BY <1>1, <1>2
  <2>1. WseqAt(s, i) = WseqAt(r, i + d) /\ WseqAt(s, i) # r.last + 1
    <3>1. WseqAt(s, i) = s.last - Len(s.kinds) + i /\ WseqAt(r, i + d) = r.last - Len(r.kinds) + (i + d)
      BY DEF WseqAt
    <3>2. s.last = r.last + 1 /\ Len(s.kinds) = Len(r.kinds) + 1 - d /\ r.last \in Nat /\ Len(r.kinds) \in Nat
      BY <1>1, <1>2
    <3>3. QED BY <2>0, <3>1, <3>2
  <2>2. s.kinds[i] \in {"text", "delta"} <=> WseqAt(r, i + d) \in P
    BY <1>1, <1>2 DEF Numbered
  <2>3. QED BY <2>1, <2>2
<1>6. k \in {"text", "delta"} <=> WseqAt(s, Len(s.kinds)) \in Q
  BY <1>4
<1>7. \A i \in DOMAIN s.kinds : i \in 1 .. Len(s.kinds) - 1 \/ i = Len(s.kinds)
  BY <1>1
<1>8. QED BY <1>1, <1>3, <1>5, <1>6, <1>7 DEF Numbered

\* A ring that takes a start, or no marker, still ends its turns before the last start.
LEMMA StartedLastAppend ==
  ASSUME NEW r, WellFormed(r, RingKinds), NEW k \in RingKinds, NEW s, s = RingAppend(r, k),
         k = "started" \/ (k \in {"text", "delta"} /\ StartedLast(r))
  PROVE  StartedLast(s)
<1>1. /\ DOMAIN r.kinds = 1 .. Len(r.kinds)
      /\ DOMAIN s.kinds = 1 .. Len(s.kinds) /\ Len(r.kinds) \in Nat /\ Len(s.kinds) \in Nat
      /\ Len(s.kinds) > 0 /\ s.kinds[Len(s.kinds)] = k
  BY RingShift
<1>2. PICK d \in {0, 1} :
        /\ Len(s.kinds) = Len(r.kinds) + 1 - d
        /\ \A i \in 1 .. Len(s.kinds) - 1 : i + d \in 1 .. Len(r.kinds) /\ s.kinds[i] = r.kinds[i + d]
  BY RingShift DEF Shifted
<1> SUFFICES ASSUME NEW i \in DOMAIN s.kinds, s.kinds[i] \in {"completed", "errored"}
             PROVE  \E j \in DOMAIN s.kinds : i < j /\ s.kinds[j] = "started"
  BY DEF StartedLast
<1>3. i \in 1 .. Len(s.kinds) - 1
  BY <1>1
<1>4. CASE k = "started"
  BY <1>1, <1>3, <1>4
<1>5. CASE k # "started"
  <2>1. PICK j \in DOMAIN r.kinds : i + d < j /\ r.kinds[j] = "started"
    BY <1>1, <1>2, <1>3, <1>5 DEF StartedLast
  <2>2. j - d \in 1 .. Len(s.kinds) - 1 /\ (j - d) + d = j /\ i < j - d
    BY <1>1, <1>2, <1>3, <2>1
  <2>3. s.kinds[j - d] = "started"
    BY <1>2, <2>1, <2>2
  <2>4. QED BY <1>1, <2>2, <2>3
<1>6. QED BY <1>4, <1>5

-----------------------------------------------------------------------------
(* What the worker sends.                                                  *)

SendsOne(a)         == Send(<<a>>)
SendsTwo(a, b)      == Send(<<a, b>>)
SendsThree(a, b, c) == Send(<<a, b, c>>)

\* The frames that were there stay where they are, and the new ones are behind them.
Grown ==
  /\ Len(toHub) \in Nat
  /\ \A j \in DOMAIN toHub : /\ j \in Nat /\ j >= 1 /\ j <= Len(toHub)
                             /\ j \in DOMAIN toHub' /\ toHub'[j] = toHub[j]
  /\ \A j \in DOMAIN toHub' : j \in Nat /\ j >= 1 /\ (j \notin DOMAIN toHub => j > Len(toHub))

\* Where one frame, two and three frames go that are sent on an open link.
LEMMA OneSent ==
  ASSUME TypeInv, NEW a, SendsOne(a), link = "open"
  PROVE  /\ Grown
         /\ \A j \in DOMAIN toHub' : j \notin DOMAIN toHub => j = Len(toHub) + 1 /\ toHub'[j] = a
         /\ Len(toHub) + 1 \in DOMAIN toHub' /\ toHub'[Len(toHub) + 1] = a
<1>1. <<a>> \in Seq({a}) /\ Len(<<a>>) = 1
  OBVIOUS
<1>2. SentHub(<<a>>)
  BY <1>1, HubSent DEF SendsOne
<1>3. toHub \in Seq(ToHubMsgs) /\ toHub' = toHub \o <<a>>
  BY DEF SendsOne, Send, TypeInv, TypeOK, ChannelOK
<1>4. \A j \in DOMAIN toHub' : j \in Nat /\ j >= 1
  BY <1>3
<1>5. QED BY <1>1, <1>2, <1>4 DEF SentHub, Grown

LEMMA TwoSent ==
  ASSUME TypeInv, NEW a, NEW b, SendsTwo(a, b), link = "open"
  PROVE  /\ Grown
         /\ \A j \in DOMAIN toHub' : j \notin DOMAIN toHub =>
              (j = Len(toHub) + 1 /\ toHub'[j] = a) \/ (j = Len(toHub) + 2 /\ toHub'[j] = b)
         /\ Len(toHub) + 1 \in DOMAIN toHub' /\ toHub'[Len(toHub) + 1] = a
         /\ Len(toHub) + 2 \in DOMAIN toHub' /\ toHub'[Len(toHub) + 2] = b
<1>1. <<a, b>> \in Seq({a, b}) /\ Len(<<a, b>>) = 2 /\ <<a, b>>[1] = a /\ <<a, b>>[2] = b
  OBVIOUS
<1>2. SentHub(<<a, b>>)
  BY <1>1, HubSent DEF SendsTwo
<1>3. toHub \in Seq(ToHubMsgs) /\ toHub' = toHub \o <<a, b>>
  BY DEF SendsTwo, Send, TypeInv, TypeOK, ChannelOK
<1>4. \A j \in DOMAIN toHub' : j \in Nat /\ j >= 1
  BY <1>3
<1>5. \A j \in DOMAIN toHub' : j \notin DOMAIN toHub => j - Len(toHub) \in 1 .. 2
           /\ toHub'[j] = <<a, b>>[j - Len(toHub)]
  BY <1>1, <1>2, <1>4 DEF SentHub
<1>6. \A j \in DOMAIN toHub' : j \notin DOMAIN toHub =>
        (j = Len(toHub) + 1 /\ toHub'[j] = a) \/ (j = Len(toHub) + 2 /\ toHub'[j] = b)
  BY <1>1, <1>2, <1>4, <1>5 DEF SentHub
<1>7. QED BY <1>1, <1>2, <1>4, <1>6 DEF SentHub, Grown

LEMMA ThreeSent ==
  ASSUME TypeInv, NEW a, NEW b, NEW c, SendsThree(a, b, c), link = "open"
  PROVE  /\ Grown
         /\ \A j \in DOMAIN toHub' : j \notin DOMAIN toHub =>
              \/ (j = Len(toHub) + 1 /\ toHub'[j] = a) \/ (j = Len(toHub) + 2 /\ toHub'[j] = b)
              \/ (j = Len(toHub) + 3 /\ toHub'[j] = c)
<1>1. /\ <<a, b, c>> \in Seq({a, b, c}) /\ Len(<<a, b, c>>) = 3
      /\ <<a, b, c>>[1] = a /\ <<a, b, c>>[2] = b /\ <<a, b, c>>[3] = c
  OBVIOUS
<1>2. SentHub(<<a, b, c>>)
  BY <1>1, HubSent DEF SendsThree
<1>3. toHub \in Seq(ToHubMsgs) /\ toHub' = toHub \o <<a, b, c>>
  BY DEF SendsThree, Send, TypeInv, TypeOK, ChannelOK
<1>4. \A j \in DOMAIN toHub' : j \in Nat /\ j >= 1
  BY <1>3
<1>5. \A j \in DOMAIN toHub' : j \notin DOMAIN toHub =>
        j - Len(toHub) \in 1 .. 3 /\ toHub'[j] = <<a, b, c>>[j - Len(toHub)]
  BY <1>1, <1>2, <1>4 DEF SentHub
<1>6. \A j \in DOMAIN toHub' : j \notin DOMAIN toHub =>
        \/ (j = Len(toHub) + 1 /\ toHub'[j] = a) \/ (j = Len(toHub) + 2 /\ toHub'[j] = b)
        \/ (j = Len(toHub) + 3 /\ toHub'[j] = c)
  BY <1>1, <1>2, <1>4, <1>5 DEF SentHub
<1>7. QED BY <1>2, <1>4, <1>6 DEF SentHub, Grown

\* Nothing is sent on a link that is not open.
LEMMA NothingSent ==
  ASSUME IInv, NEW ms, Send(ms), link # "open"
  PROVE  toHub' = toHub /\ Grown
BY QueuesTyped DEF Send, Grown

\* A worker with a turn, a session, or a command has no event of an earlier era on the wire.
LEMMA EraOnWire ==
  ASSUME IInv, \/ turn # "none" \/ held
               \/ link \notin {"open", "workerGone"} \/ (link = "open" /\ (~retired \/ ~NoRunTurn))
  PROVE  \A i \in DOMAIN toHub : IsEvent(i) => toHub[i].era = Era
BY DEF IInv, IngestOK, FramesOK, FrameOK, ProtocolOK, SocketOK

\* Frames that are no events leave what the events on the wire say.
LEMMA OthersSent ==
  ASSUME IInv, Ingested, Grown, \A j \in DOMAIN toHub' : j \notin DOMAIN toHub => toHub'[j].t # "event",
         UNCHANGED produced, ring'.last \in Nat, ring'.last >= ring.last,
         \/ UNCHANGED <<ring, turn, held, retired, link>> /\ (NoRunTurn => NoRunTurn')
         \/ \A i \in DOMAIN toHub : IsEvent(i) => toHub[i].era = Era
  PROVE  /\ FramesOK' /\ TruthOK'
         /\ link = "open" /\ synced => \A w \in produced[Era] :
              w <= Seen' \/ \E j \in DOMAIN toHub' : Tells(toHub'[j], Era', w)
<1>0. Seen' = Seen /\ Era' = Era
  BY DEF Ingested
<1>1. \A i \in DOMAIN toHub' : IsEvent(i)' => i \in DOMAIN toHub /\ IsEvent(i) /\ toHub'[i] = toHub[i]
  BY DEF IsEvent, Grown
<1>2. ASSUME NEW i \in DOMAIN toHub', IsEvent(i)'
      PROVE  FrameOK(i)'
  <2>1. FrameOK(i) /\ i \in DOMAIN toHub /\ toHub'[i] = toHub[i] /\ IsEvent(i)
    BY <1>1, <1>2 DEF IInv, IngestOK, FramesOK
  <2>2. toHub'[i].wseq \in Nat
    BY <2>1, FieldsTyped DEF IsEvent
  <2>3. ASSUME NEW w \in produced[toHub[i].era], w < toHub[i].wseq, toHub[i].kind # "gap"
        PROVE  w <= Seen \/ \E j \in DOMAIN toHub' : j < i /\ Tells(toHub'[j], toHub[i].era, w)
    BY <2>1, <2>3 DEF FrameOK, Grown
  <2>4. CASE toHub[i].era = Era
    BY <1>0, <2>1, <2>2, <2>3, <2>4, Typed DEF FrameOK
  <2>5. CASE toHub[i].era # Era
    BY <1>0, <2>1, <2>3, <2>5 DEF FrameOK
  <2>6. QED BY <2>4, <2>5
<1>3. FramesOK'
  BY <1>1, <1>2 DEF IInv, IngestOK, FramesOK
<1>4. TruthOK'
  BY <1>1, TruthKept
<1>5. ASSUME link = "open", synced, NEW w \in produced[Era]
      PROVE  w <= Seen \/ \E j \in DOMAIN toHub' : Tells(toHub'[j], Era, w)
  BY <1>5 DEF IInv, IngestOK, ReplayOK, Grown
<1>6. QED BY <1>0, <1>3, <1>4, <1>5

\* Frames that are no markers leave the hub's view of the turn as it is.
LEMMA MarkersKept ==
  ASSUME IInv, Grown, \A j \in DOMAIN toHub' : j \notin DOMAIN toHub => toHub'[j].t # "turn",
         turn' = "none" <=> turn = "none", View' => View
  PROVE  /\ \A i \in DOMAIN toHub' : IsTurn(i)' <=> IsTurn(i)
         /\ LiveMarksOK' /\ ReplayedOK' /\ (NextIsLive' => NextIsLive) /\ (NoTurns => NoTurns')
<1>1. \A i : IsTurn(i)' => IsTurn(i) /\ i \in DOMAIN toHub /\ i \in DOMAIN toHub' /\ toHub'[i] = toHub[i]
  BY DEF IsTurn, Grown
<1>2. \A i : IsTurn(i) => IsTurn(i)' /\ i \in DOMAIN toHub /\ i \in DOMAIN toHub' /\ toHub'[i] = toHub[i]
  BY DEF IsTurn, Grown
<1>3. LiveMarksOK'
  BY <1>1 DEF LiveMarksOK, IInv, ViewOK
<1>4. ReplayedOK'
  <2> SUFFICES ASSUME NEW i \in DOMAIN toHub', IsTurn(i)', toHub'[i].replay
               PROVE  /\ \E j \in DOMAIN toHub' : i < j /\ toHub'[j].t = "attachAck"
                      /\ View' /\ toHub'[i].kind # "started" =>
                           /\ LastTurn(i)' => turn' = "none"
                           /\ \A j \in DOMAIN toHub' : IsTurn(j)' /\ i < j /\ ~toHub'[j].replay =>
                                \E k \in DOMAIN toHub' : IsTurn(k)' /\ i < k /\ k < j
    BY DEF ReplayedOK
  <2>1. IsTurn(i) /\ toHub'[i] = toHub[i] /\ i \in DOMAIN toHub
    BY <1>1
  <2>2. PICK j \in DOMAIN toHub : i < j /\ toHub[j].t = "attachAck"
    BY <2>1 DEF IInv, ViewOK, ReplayedOK
  <2>3. LastTurn(i)' => LastTurn(i)
    BY <1>1, <1>2, <2>1 DEF LastTurn
  <2>4. View /\ toHub[i].kind # "started" =>
          /\ LastTurn(i) => turn = "none"
          /\ \A l \in DOMAIN toHub : IsTurn(l) /\ i < l /\ ~toHub[l].replay =>
               \E k \in DOMAIN toHub : IsTurn(k) /\ i < k /\ k < l
    BY <2>1 DEF IInv, ViewOK, ReplayedOK
  <2>5. ASSUME View, toHub[i].kind # "started", NEW l \in DOMAIN toHub', IsTurn(l)', i < l, ~toHub'[l].replay
        PROVE  \E k \in DOMAIN toHub' : IsTurn(k)' /\ i < k /\ k < l
    BY <1>1, <1>2, <2>4, <2>5
  <2>6. QED BY <2>1, <2>2, <2>3, <2>4, <2>5 DEF Grown
<1>5. NextIsLive' => NextIsLive
  BY <1>1, <1>2 DEF NextIsLive, FirstTurn, NoTurns, IsTurn
<1>6. NoTurns => NoTurns'
  BY DEF NoTurns, Grown
<1>7. QED BY <1>1, <1>2, <1>3, <1>4, <1>5, <1>6 DEF IsTurn

-----------------------------------------------------------------------------
(* A new era.                                                              *)

\* What was produced stays as it was when the worker starts to number anew.
LEMMA EraBegins ==
  ASSUME IInv, produced' = Append(produced, {})
  PROVE  /\ Era' = Era + 1 /\ produced'[Era + 1] = {} /\ DOMAIN produced' = 1 .. Era + 1
         /\ \A e \in 1 .. Era : produced'[e] = produced[e]
         /\ Era \in Nat /\ Era >= 1
BY Typed, AppendProperties DEF IInv, TypeInv, TypeOK, WorkerOK, Era

\* What the hub has and what is on the wire is then all of an earlier era.
LEMMA NewEra ==
  ASSUME IInv, produced' = Append(produced, {}), ring' = EmptyRing, 
         UNCHANGED <<journal, cursor, guard, pending, toHub>>,
         ~held', turn' = "none", link' = "open" => retired' /\ NoRunTurn'
  PROVE  /\ TruthOK' /\ PendingOK' /\ NumbersOK' /\ FramesOK' /\ UnheldOK'
         /\ NoSilentLoss' /\ ResetBetweenEras'
<1>1. /\ Era' = Era + 1 /\ produced'[Era + 1] = {} /\ DOMAIN produced' = 1 .. Era + 1
      /\ \A e \in 1 .. Era : produced'[e] = produced[e]
      /\ Era \in Nat /\ Era >= 1 /\ DOMAIN produced = 1 .. Era
  BY EraBegins, Typed
<1>2. Seen' = Seen
  BY DEF Seen
<1>3. /\ pending # NoDelta => pending.era \in 1 .. Era
      /\ \A i \in DOMAIN journal : WorkerRow(i) => journal[i].era \in 1 .. Era
      /\ \A i \in DOMAIN toHub : IsEvent(i) => toHub[i].era \in 1 .. Era
  BY DEF IInv, IngestOK, PendingOK, NumbersOK, FramesOK, FrameOK
<1>4. \A e \in 1 .. Era : (TruthOf(e) => TruthOf(e)') /\ (Unsplit(e) => Unsplit(e)')
  BY <1>1, <1>2 DEF TruthOf, Unsplit, Known, Accounted, WorkerRow
<1>5. (TruthOf(Era))' /\ (Unsplit(Era))'
  BY <1>1, <1>3 DEF TruthOf, Unsplit, WorkerRow
<1>6. TruthOK'
  <2>1. ASSUME NEW i \in DOMAIN toHub', IsEvent(i)'
        PROVE  (TruthOf(toHub[i].era))' /\ (Unsplit(toHub[i].era))'
    BY <1>3, <1>4, <2>1 DEF IsEvent, IInv, IngestOK, TruthOK
  <2>2. QED BY <1>5, <2>1 DEF TruthOK
<1>7. PendingOK'
  <2> SUFFICES ASSUME pending # NoDelta
               PROVE  /\ pending.era \in 1 .. Era + 1 /\ pending.wseq > 0
                      /\ pending.era = Era + 1 => pending.wseq <= ring'.last
                      /\ \A w \in produced'[pending.era] : w <= pending.wseq => (Known(pending.era, w))'
                      /\ (Unsplit(pending.era))'
    BY <1>1 DEF PendingOK
  <2>1. /\ pending.era \in 1 .. Era /\ pending.wseq > 0 /\ Unsplit(pending.era)
        /\ \A w \in produced[pending.era] : w <= pending.wseq => Known(pending.era, w)
    BY DEF IInv, IngestOK, PendingOK
  <2>2. pending.era \in 1 .. Era + 1 /\ pending.era # Era + 1
             /\ produced'[pending.era] = produced[pending.era]
    BY <1>1, <2>1
  <2>3. (Unsplit(pending.era))'
    BY <1>4, <2>1
  <2>4. \A w : Known(pending.era, w) => (Known(pending.era, w))'
    BY DEF Known, Accounted
  <2>5. QED BY <2>1, <2>2, <2>3, <2>4
<1>8. NumbersOK'
  <2>1. \A e \in DOMAIN produced' : \A w \in produced'[e] : w > 0
    <3> TAKE e \in DOMAIN produced'
    <3>1. e \in 1 .. Era \/ e = Era + 1
      BY <1>1
    <3>2. QED BY <1>1, <3>1 DEF IInv, IngestOK, NumbersOK
  <2>2. Numbered(ring', produced'[Era'])
    BY <1>1 DEF EmptyRing, Numbered
  <2>3. \A i \in DOMAIN journal' : WorkerRow(i)' => journal'[i].era \in 1 .. Era' /\ journal'[i].era # Era'
    BY <1>1, <1>3 DEF WorkerRow
  <2>4. QED BY <2>1, <2>2, <2>3 DEF NumbersOK
<1>9. FramesOK'
  <2>1. ASSUME NEW i \in DOMAIN toHub', IsEvent(i)'
        PROVE  FrameOK(i)'
    BY <1>1, <1>2, <1>3, <2>1 DEF IsEvent, IInv, IngestOK, FramesOK, FrameOK, EmptyRing
  <2>2. QED BY <2>1 DEF IInv, IngestOK, FramesOK, IsEvent
<1>10. UnheldOK'
  BY <1>1, <1>3 DEF NoDelta, UnheldOK, WorkerRow, IsEvent
<1>11. NoSilentLoss' /\ ResetBetweenEras'
  <2>1. ResetBetweenEras'
    BY DEF IInv, IngestOK, ResetBetweenEras, WorkerRow
  <2>2. NoSilentLoss'
    BY <1>1 DEF NoSilentLoss, IInv, IngestOK, WorkerRow, Accounted
  <2>3. QED BY <2>1, <2>2
<1>12. QED BY <1>6, <1>7, <1>8, <1>9, <1>10, <1>11

-----------------------------------------------------------------------------
(* What attach() re-sends.                                                 *)

\* The k-th message of a replay past c.
ReplayedEvent(c, k) ==
  LET m == Replay(c)[k]
  IN  /\ m.t = "event" /\ m.era = Era /\ m.wseq \in Nat /\ m.wseq > 0 /\ m.wseq <= ring.last
      /\ m.kind # "gap" =>
           /\ m.wseq \in produced[Era]
           /\ \A w \in produced[Era] : c < w /\ w < m.wseq =>
                \E j \in 1 .. Len(Replay(c)) : j < k /\ Tells(Replay(c)[j], Era, w)

ReplayedMark(c, k) ==
  LET m == Replay(c)[k]
  IN  /\ m.t = "turn" /\ m.replay
      /\ activeTurn /\ m.kind # "started" =>
           \E j \in 1 .. Len(Replay(c)) : k < j /\ Replay(c)[j].t = "turn"

Ahead(x, s) == <<x>> \o s

\* Where the parts of a sequence are when one element is put before it.
LEMMA OneAhead ==
  ASSUME NEW S, NEW s \in Seq(S), NEW x
  PROVE  /\ Len(Ahead(x, s)) = 1 + Len(s) /\ Ahead(x, s)[1] = x
         /\ \A i \in 1 .. Len(s) : Ahead(x, s)[1 + i] = s[i]
BY DEF Ahead

\* A replay past c holds, in order, every event past c that was produced, or says that it
\* is gone; after the end of a turn it has the marker of the one that runs.
LEMMA ReplayFrames ==
  ASSUME IInv, NEW c \in Nat
  PROVE  /\ Replay(c) \in Seq(ToHubMsgs) /\ Len(Replay(c)) \in Nat
         /\ \A k \in 1 .. Len(Replay(c)) : ReplayedEvent(c, k) \/ ReplayedMark(c, k)
         /\ \A w \in produced[Era] : w > c => \E k \in 1 .. Len(Replay(c)) : Tells(Replay(c)[k], Era, w)
<1> DEFINE evs == Since(ring, c)
           lo  == IF HasGap(ring, c) THEN OldestRetained(ring) ELSE c + 1
           g   == IF HasGap(ring, c) THEN 1 ELSE 0
           n   == IF lo > ring.last THEN 0 ELSE ring.last - lo + 1
<1>0. /\ WellFormed(ring, RingKinds) /\ Era \in Nat /\ ring.last \in Nat /\ Len(ring.kinds) \in Nat
      /\ DOMAIN ring.kinds = 1 .. Len(ring.kinds) /\ Len(ring.kinds) <= ring.last
      /\ \A i \in 1 .. Len(ring.kinds) : ring.kinds[i] \in RingKinds
      /\ Numbered(ring, produced[Era]) /\ (activeTurn => StartedLast(ring))
      /\ \A w \in produced[Era] : w \in Nat /\ w > 0
  BY Typed, RowsTyped DEF IInv, TypeInv, WellFormed, Rings, IngestOK, NumbersOK, ProtocolOK, TurnOK
<1>1. Replay(c) \in Seq(ToHubMsgs) /\ Len(Replay(c)) \in Nat
  BY <1>0, ReplayTyped
<1>2. CASE ring.kinds = << >>
  BY <1>0, <1>1, <1>2 DEF Since, Replay, Numbered
<1>3. CASE ring.kinds # << >>
  <2>0. Len(ring.kinds) > 0
    BY <1>0, <1>3 DEF WellFormed, Rings
  <2>1. /\ lo \in Nat /\ lo > c /\ n \in Nat /\ g \in Nat
        /\ Survivors(ring, c) \in Seq([wseq : Nat, kind : RingKinds]) /\ Len(Survivors(ring, c)) = n
        /\ \A i \in 1 .. n : /\ Survivors(ring, c)[i].wseq = lo + i - 1
                             /\ Survivors(ring, c)[i].kind = ring.kinds[lo + i - OldestRetained(ring)]
                             /\ lo + i - OldestRetained(ring) \in 1 .. Len(ring.kinds)
    <3>1. /\ Survivors(ring, c) \in Seq([wseq : Nat, kind : RingKinds])
          /\ lo \in Nat /\ lo > c
          /\ Len(Survivors(ring, c)) = n
          /\ \A i \in 1 .. Len(Survivors(ring, c)) :
               /\ Survivors(ring, c)[i].wseq = lo + i - 1
               /\ Survivors(ring, c)[i].kind = ring.kinds[lo + i - OldestRetained(ring)]
               /\ lo + i - OldestRetained(ring) \in 1 .. Len(ring.kinds)
      BY <1>0, <2>0, SurvivorsWindow
    <3> HIDE DEF lo
    <3>2. n \in Nat /\ g \in Nat
      BY <1>0, <3>1
    <3>3. QED BY <3>1, <3>2
  <2> HIDE DEF lo, n
  <2>2. /\ Len(evs) = g + n
        /\ g = 1 => evs[1] = GapSentinel(ring)
        /\ \A i \in 1 .. n : evs[g + i] = Survivors(ring, c)[i]
    <3>1. CASE HasGap(ring, c)
      <4>1. evs = Ahead(GapSentinel(ring), Survivors(ring, c)) /\ g = 1
        BY <1>3, <3>1 DEF Since, Ahead
      <4>2. PICK s, x : s = Survivors(ring, c) /\ x = GapSentinel(ring)
        OBVIOUS
      <4>3. s \in Seq([wseq : Nat, kind : RingKinds]) /\ Len(s) = n
        BY <2>1, <4>2
      <4>4. /\ Len(Ahead(x, s)) = 1 + n /\ Ahead(x, s)[1] = x
            /\ \A i \in 1 .. n : Ahead(x, s)[1 + i] = s[i]
        BY <4>3, OneAhead
      <4> HIDE DEF evs, g
      <4>5. QED BY <4>1, <4>2, <4>4
    <3>2. CASE ~HasGap(ring, c)
      BY <1>3, <2>1, <3>2 DEF Since
    <3>3. QED BY <3>1, <3>2
  <2>3. /\ Len(Replay(c)) = g + n
        /\ \A k \in 1 .. g + n : Replay(c)[k] = ReplayMessage(evs[k])
    BY <2>1, <2>2 DEF Replay
  <2> HIDE DEF evs
  <2>16. lo \in Nat /\ n \in Nat /\ g \in Nat /\ OldestRetained(ring) = ring.last - Len(ring.kinds) + 1
    BY <2>1 DEF OldestRetained
  <2>4. g = 1 => /\ Replay(c)[1].t = "event" /\ Replay(c)[1].era = Era /\ Replay(c)[1].kind = "gap"
                 /\ Replay(c)[1].wseq = lo - 1 /\ lo > 1 /\ lo - 1 <= ring.last
    <3> SUFFICES ASSUME g = 1
                 PROVE  /\ Replay(c)[1].t = "event" /\ Replay(c)[1].era = Era /\ Replay(c)[1].kind = "gap"
                        /\ Replay(c)[1].wseq = lo - 1 /\ lo > 1 /\ lo - 1 <= ring.last
      OBVIOUS
    <3>1. Replay(c)[1] = EventMsg(Era, OldestRetained(ring) - 1, "gap")
      <4>1. 1 \in 1 .. g + n
        BY <2>1
      <4>2. Replay(c)[1] = ReplayMessage(GapSentinel(ring))
        BY <2>2, <2>3, <4>1
      <4>3. QED BY <4>2 DEF ReplayMessage, GapSentinel, Lifecycle
    <3>2. lo = OldestRetained(ring) /\ c + 1 < lo /\ lo - 1 = ring.last - Len(ring.kinds)
      BY <1>0 DEF lo, HasGap, OldestRetained
    <3>3. QED BY <1>0, <2>1, <3>1, <3>2 DEF EventMsg
  <2>5. g = 0 => lo = c + 1
    BY DEF lo
  <2> DEFINE at(i) == lo + i - OldestRetained(ring)
  <2>6. ASSUME NEW i \in 1 .. n
        PROVE  /\ at(i) \in 1 .. Len(ring.kinds) /\ WseqAt(ring, at(i)) = lo + i - 1
               /\ lo + i - 1 \in Nat /\ lo + i - 1 > 0 /\ lo + i - 1 <= ring.last
               /\ IF ring.kinds[at(i)] \in Lifecycle
                  THEN Replay(c)[g + i] = TurnMsg(ring.kinds[at(i)], TRUE)
                  ELSE Replay(c)[g + i] = EventMsg(Era, lo + i - 1, ring.kinds[at(i)])
    <3>1. at(i) \in 1 .. Len(ring.kinds)
      BY <2>1
    <3>2. WseqAt(ring, at(i)) = lo + i - 1
      BY <1>0, <2>16 DEF WseqAt
    <3>3. n > 0 /\ n = ring.last - lo + 1
      BY <2>1 DEF n
    <3>4. lo + i - 1 \in Nat /\ lo + i - 1 > 0 /\ lo + i - 1 <= ring.last
      BY <1>0, <2>1, <3>3
    <3>5. g + i \in 1 .. g + n
      BY <2>1
    <3>6. Replay(c)[g + i] = ReplayMessage(Survivors(ring, c)[i])
      BY <2>2, <2>3, <3>5
    <3>7. QED BY <2>1, <3>1, <3>2, <3>4, <3>6 DEF ReplayMessage
  <2>7. \A i \in 1 .. n : ring.kinds[at(i)] \in {"text", "delta"} <=> lo + i - 1 \in produced[Era]
    BY <1>0, <2>6 DEF Numbered
  <2>8. ASSUME NEW w \in produced[Era], w > c
        PROVE  \/ g = 1 /\ 1 \in 1 .. Len(Replay(c)) /\ Tells(Replay(c)[1], Era, w) /\ w <= lo - 1
               \/ w >= lo /\ w - lo + 1 \in 1 .. n /\ Tells(Replay(c)[g + (w - lo + 1)], Era, w)
    <3>0. w \in Nat /\ w <= ring.last
      BY <1>0 DEF Numbered
    <3>1. CASE w < lo
      BY <2>1, <2>3, <2>4, <2>5, <2>8, <3>0, <3>1 DEF Tells
    <3>2. CASE w >= lo
      <4>1. w - lo + 1 \in 1 .. n /\ lo + (w - lo + 1) - 1 = w
        BY <1>0, <2>1, <3>0, <3>2 DEF n
      <4>2. ring.kinds[at(w - lo + 1)] \in {"text", "delta"}
        BY <2>7, <4>1
      <4>3. Replay(c)[g + (w - lo + 1)] = EventMsg(Era, w, ring.kinds[at(w - lo + 1)])
        BY <2>6, <4>1, <4>2 DEF Lifecycle
      <4>4. QED BY <3>2, <4>1, <4>3 DEF Tells, EventMsg
    <3>3. QED BY <2>1, <3>0, <3>1, <3>2
  <2>9. \A w \in produced[Era] : w > c => \E k \in 1 .. Len(Replay(c)) : Tells(Replay(c)[k], Era, w)
    <3> TAKE w \in produced[Era]
    <3> HAVE w > c
    <3>1. CASE g = 1 /\ 1 \in 1 .. Len(Replay(c)) /\ Tells(Replay(c)[1], Era, w)
      BY <3>1
    <3>2. CASE w - lo + 1 \in 1 .. n /\ Tells(Replay(c)[g + (w - lo + 1)], Era, w)
      <4>1. g + (w - lo + 1) \in 1 .. Len(Replay(c))
        BY <2>1, <2>3, <3>2
      <4>2. QED BY <3>2, <4>1
    <3>3. QED BY <2>8, <3>1, <3>2
  <2>10. ASSUME NEW i \in 1 .. n, ring.kinds[at(i)] \notin Lifecycle
         PROVE  ReplayedEvent(c, g + i)
    <3>1. /\ Replay(c)[g + i] = EventMsg(Era, lo + i - 1, ring.kinds[at(i)])
          /\ lo + i - 1 \in Nat /\ lo + i - 1 > 0 /\ lo + i - 1 <= ring.last
      BY <2>6, <2>10
    <3>2. ring.kinds[at(i)] \in {"text", "delta"}
      BY <1>0, <2>6, <2>10 DEF RingKinds, Lifecycle
    <3>3. lo + i - 1 \in produced[Era]
      BY <2>7, <3>2
    <3>4. ASSUME NEW w \in produced[Era], c < w, w < lo + i - 1
          PROVE  \E j \in 1 .. Len(Replay(c)) : j < g + i /\ Tells(Replay(c)[j], Era, w)
      <4>1. CASE g = 1 /\ 1 \in 1 .. Len(Replay(c)) /\ Tells(Replay(c)[1], Era, w)
        BY <4>1
      <4>2. CASE w - lo + 1 \in 1 .. n /\ Tells(Replay(c)[g + (w - lo + 1)], Era, w)
        <5>1. g + (w - lo + 1) \in 1 .. Len(Replay(c)) /\ g + (w - lo + 1) < g + i
          <6>1. w \in Nat /\ Len(Replay(c)) = g + n
            BY <1>0, <2>3
          <6>2. QED BY <2>16, <3>4, <4>2, <6>1
        <5>2. QED BY <4>2, <5>1
      <4>3. QED BY <2>8, <3>4, <4>1, <4>2, <1>0
    <3>5. QED BY <3>1, <3>3, <3>4 DEF ReplayedEvent, EventMsg
  <2>11. ASSUME NEW i \in 1 .. n, ring.kinds[at(i)] \in Lifecycle
         PROVE  ReplayedMark(c, g + i)
    <3>1. Replay(c)[g + i] = TurnMsg(ring.kinds[at(i)], TRUE)
      BY <2>6, <2>11
    <3>2. ASSUME activeTurn, ring.kinds[at(i)] # "started"
          PROVE  \E j \in 1 .. Len(Replay(c)) : g + i < j /\ Replay(c)[j].t = "turn"
      <4>1. PICK p \in 1 .. Len(ring.kinds) : at(i) < p /\ ring.kinds[p] = "started"
        BY <1>0, <2>6, <2>11, <3>2 DEF StartedLast, Lifecycle
      <4>2. /\ i + (p - at(i)) \in 1 .. n /\ at(i + (p - at(i))) = p /\ i + (p - at(i)) > i
        <5>1. n = ring.last - lo + 1 /\ OldestRetained(ring) = ring.last - Len(ring.kinds) + 1
          BY <2>16 DEF n
        <5>2. Len(ring.kinds) \in Nat /\ ring.last \in Nat
          BY <1>0
        <5>3. at(i) \in Int /\ p \in Nat /\ p <= Len(ring.kinds) /\ i \in Nat /\ i >= 1
          BY <2>16, <4>1, <5>2
        <5>4. at(i) = lo + i - OldestRetained(ring)
                   /\ at(i + (p - at(i))) = lo + (i + (p - at(i))) - OldestRetained(ring)
          OBVIOUS
        <5> HIDE DEF at
        <5>5. OldestRetained(ring) \in Int /\ lo \in Nat /\ n \in Nat
          BY <2>16, <5>2
        <5>6. i + (p - at(i)) = p - lo + OldestRetained(ring)
          BY <5>3, <5>4, <5>5
        <5>7. i + (p - at(i)) \in Nat /\ i + (p - at(i)) > i
          BY <4>1, <5>3
        <5> HIDE DEF lo, n
        <5>8. p - lo + OldestRetained(ring) <= n
          <6> DEFINE o == OldestRetained(ring)
                     last == ring.last
                     len == Len(ring.kinds)
          <6>1. n = last - lo + 1 /\ o = last - len + 1 /\ p <= len
            BY <5>1, <5>3
          <6>2. n \in Int /\ last \in Int /\ lo \in Int /\ o \in Int /\ len \in Int /\ p \in Int
            BY <5>2, <5>3, <5>5
          <6> HIDE DEF o, last, len
          <6>3. p - lo + o <= n
            BY <6>1, <6>2
          <6>4. QED BY <6>3 DEF o
        <5>9. i + (p - at(i)) \in 1 .. n
          BY <5>3, <5>5, <5>6, <5>7, <5>8
        <5>10. at(i + (p - at(i))) = p
          BY <5>3, <5>4, <5>5, <5>6
        <5>11. QED BY <5>7, <5>9, <5>10
      <4>3. Replay(c)[g + (i + (p - at(i)))] = TurnMsg("started", TRUE)
        BY <2>6, <4>1, <4>2 DEF Lifecycle
      <4>4. g + (i + (p - at(i))) \in 1 .. Len(Replay(c)) /\ g + (i + (p - at(i))) > g + i
        <5>1. Len(Replay(c)) = g + n
          BY <2>3
        <5>2. p - at(i) \in Int
          BY <1>0, <2>16, <4>1
        <5>3. QED BY <2>16, <4>2, <5>1, <5>2
      <4>5. QED BY <4>3, <4>4 DEF TurnMsg
    <3>3. QED BY <3>1, <3>2 DEF ReplayedMark, TurnMsg
  <2>12. g = 1 => ReplayedEvent(c, 1)
    BY <1>0, <2>1, <2>4 DEF ReplayedEvent
  <2>13. \A k \in 1 .. Len(Replay(c)) : (g = 1 /\ k = 1) \/ (k - g \in 1 .. n /\ g + (k - g) = k)
    BY <2>1, <2>3
  <2>14. QED BY <1>1, <2>9, <2>10, <2>11, <2>12, <2>13
<1>4. QED BY <1>2, <1>3

SendsReplay(c, r) == Send(Replay(c) \o <<AttachAck(r)>>)

\* The replay is behind what was on the wire, and its acknowledgement behind it.
LEMMA ReplaySent ==
  ASSUME IInv, NEW c \in Nat, NEW r \in Runs, SendsReplay(c, r), link = "open"
  PROVE  /\ Grown /\ Len(Replay(c)) \in Nat
         /\ \A k \in 1 .. Len(Replay(c)) :
              Len(toHub) + k \in DOMAIN toHub' /\ toHub'[Len(toHub) + k] = Replay(c)[k]
         /\ Len(toHub) + Len(Replay(c)) + 1 \in DOMAIN toHub'
         /\ toHub'[Len(toHub) + Len(Replay(c)) + 1] = AttachAck(r)
         /\ \A j \in DOMAIN toHub' : j \notin DOMAIN toHub =>
              \/ j - Len(toHub) \in 1 .. Len(Replay(c)) /\ toHub'[j] = Replay(c)[j - Len(toHub)]
              \/ j = Len(toHub) + Len(Replay(c)) + 1 /\ toHub'[j] = AttachAck(r)
<1> DEFINE ms == Replay(c) \o <<AttachAck(r)>>
           n  == Len(Replay(c))
<1>1. Replay(c) \in Seq(ToHubMsgs) /\ n \in Nat /\ AttachAck(r) \in ToHubMsgs
  BY ReplayFrames, MessagesTyped
<1>2. /\ ms \in Seq(ToHubMsgs) /\ Len(ms) = n + 1 /\ ms[n + 1] = AttachAck(r)
      /\ \A k \in 1 .. n : ms[k] = Replay(c)[k]
  BY <1>1
<1>3. Send(ms)
  BY DEF SendsReplay
<1> HIDE DEF ms
<1>4. SentHub(ms)
  BY <1>2, <1>3, HubSent DEF IInv
<1>5. toHub \in Seq(ToHubMsgs) /\ toHub' = toHub \o ms
  BY <1>3 DEF Send, IInv, TypeInv, TypeOK, ChannelOK
<1>6. \A j \in DOMAIN toHub' : j \in Nat /\ j >= 1
  BY <1>2, <1>5
<1>7. Grown
  BY <1>4, <1>6 DEF SentHub, Grown
<1> HIDE DEF n
<1>8. Len(toHub) \in Nat /\ \A j \in DOMAIN toHub' : j \notin DOMAIN toHub =>
        j - Len(toHub) \in 1 .. n + 1 /\ toHub'[j] = ms[j - Len(toHub)]
  BY <1>2, <1>4, <1>6 DEF SentHub
<1>9. \A k \in 1 .. n + 1 : Len(toHub) + k \in DOMAIN toHub' /\ toHub'[Len(toHub) + k] = ms[k]
  BY <1>2, <1>4 DEF SentHub
<1>10. Len(toHub) + (n + 1) \in DOMAIN toHub' /\ toHub'[Len(toHub) + (n + 1)] = AttachAck(r)
  BY <1>1, <1>2, <1>9
<1>11. \A k \in 1 .. n : Len(toHub) + k \in DOMAIN toHub' /\ toHub'[Len(toHub) + k] = Replay(c)[k]
  BY <1>1, <1>2, <1>9
<1>12. \A j \in DOMAIN toHub' : j \notin DOMAIN toHub =>
         \/ j - Len(toHub) \in 1 .. n /\ toHub'[j] = Replay(c)[j - Len(toHub)]
         \/ j = Len(toHub) + (n + 1) /\ toHub'[j] = AttachAck(r)
  <2> TAKE j \in DOMAIN toHub'
  <2> HAVE j \notin DOMAIN toHub
  <2>1. j - Len(toHub) \in 1 .. n + 1 /\ toHub'[j] = ms[j - Len(toHub)] /\ j \in Nat
    BY <1>6, <1>8
  <2>2. CASE j - Len(toHub) = n + 1
    <3>1. j = Len(toHub) + (n + 1)
      BY <1>1, <1>8, <2>1, <2>2
    <3>2. toHub'[j] = AttachAck(r)
      BY <1>2, <2>1, <2>2
    <3>3. QED BY <3>1, <3>2
  <2>3. CASE j - Len(toHub) # n + 1
    BY <1>1, <1>2, <2>1, <2>3
  <2>4. QED BY <2>2, <2>3
<1>13. Len(toHub) + (n + 1) = Len(toHub) + n + 1
  BY <1>1, <1>8
<1>14. QED BY <1>1, <1>7, <1>10, <1>11, <1>12, <1>13 DEF n

-----------------------------------------------------------------------------
(* The worker numbers an event.                                            *)

\* An era in which one more event is produced.
LEMMA EraGrows ==
  ASSUME IInv, produced' = [produced EXCEPT ![Era] = @ \cup {ring.last + 1}]
  PROVE  /\ Era' = Era /\ DOMAIN produced' = 1 .. Era /\ Era \in 1 .. Era
         /\ produced'[Era] = produced[Era] \cup {ring.last + 1}
         /\ \A e \in 1 .. Era : e # Era => produced'[e] = produced[e]
BY Typed, ProducedTyped DEF IInv, TypeInv, TypeOK, WorkerOK, Era

\* The frame of the event that is numbered next.
IsNext(m) == m.t = "event" /\ m.era = Era /\ m.wseq = ring.last + 1 /\ m.kind \in {"text", "delta"}

\* An event that is emitted on a link which has replayed the ring comes in order.
LEMMA EventEmitted ==
  ASSUME IInv, turn # "none", produced' = [produced EXCEPT ![Era] = @ \cup {ring.last + 1}],
         ring'.last = ring.last + 1, Numbered(ring', produced[Era] \cup {ring.last + 1}),
         turn' # "none", held', UNCHANGED <<journal, cursor, guard, pending, link>>,
         Grown, \A j \in DOMAIN toHub' : j \notin DOMAIN toHub => IsNext(toHub'[j]) \/ toHub'[j].t # "event",
         link = "open" => \E j \in DOMAIN toHub' : toHub'[j].t = "event" /\ IsNext(toHub'[j]),
         link = "open" => synced \/ produced[Era] = {},
         link # "open" => toHub' = toHub
  PROVE  /\ TruthOK' /\ PendingOK' /\ NumbersOK' /\ FramesOK' /\ UnheldOK'
         /\ NoSilentLoss' /\ ResetBetweenEras'
         /\ link = "open" /\ synced => \A w \in produced'[Era'] :
              w <= Seen' \/ \E j \in DOMAIN toHub' : Tells(toHub'[j], Era', w)
<1>1. /\ Era' = Era /\ DOMAIN produced' = 1 .. Era /\ Era \in 1 .. Era /\ DOMAIN produced = 1 .. Era
      /\ produced'[Era] = produced[Era] \cup {ring.last + 1}
      /\ \A e \in 1 .. Era : e # Era => produced'[e] = produced[e]
      /\ ring.last \in Nat
  BY EraGrows, Typed
<1>2. Seen' = Seen /\ Seen \in Nat /\ cursor \in Nat /\ Seen <= ring.last /\ cursor <= ring.last
  BY Typed DEF Seen, IInv, IngestOK, MarksOK, Begun
<1>3. \A w \in produced[Era] : w \in Nat /\ w > 0 /\ w <= ring.last
  BY <1>1, RowsTyped DEF IInv, IngestOK, NumbersOK, Numbered
<1>4. \A i \in DOMAIN toHub : IsEvent(i) => toHub[i].era = Era
  BY EraOnWire
<1>5. (TruthOf(Era))' /\ (Unsplit(Era))'
  <2>1. TruthOf(Era) /\ Unsplit(Era)
    BY DEF IInv, IngestOK, TruthOK
  <2>2. (Unsplit(Era))'
    BY <1>1, <2>1 DEF Unsplit, WorkerRow
  <2>3. ASSUME NEW w \in produced'[Era]
        PROVE  (w <= Seen => (Known(Era, w))') /\ (w <= cursor => (Accounted(Era, w))')
    BY <1>1, <1>2, <2>1 DEF TruthOf, Known, Accounted
  <2>4. QED BY <1>1, <1>2, <2>2, <2>3 DEF TruthOf
<1>6. TruthOK'
  BY <1>1, <1>4, <1>5 DEF IsEvent, Grown, IsNext, TruthOK
<1>7. PendingOK'
  <2> SUFFICES ASSUME pending # NoDelta
               PROVE  /\ pending.era \in 1 .. Era /\ pending.wseq > 0
                      /\ pending.era = Era => pending.wseq <= ring'.last
                      /\ \A w \in produced'[pending.era] : w <= pending.wseq => (Known(pending.era, w))'
                      /\ (Unsplit(pending.era))'
    BY <1>1 DEF PendingOK
  <2>1. /\ pending.era \in 1 .. Era /\ pending.wseq > 0 /\ (pending.era = Era => pending.wseq <= ring.last)
        /\ \A w \in produced[pending.era] : w <= pending.wseq => Known(pending.era, w)
        /\ Unsplit(pending.era) /\ pending.wseq \in Nat
    BY Typed DEF IInv, IngestOK, PendingOK
  <2>2. (Unsplit(pending.era))'
    BY <2>1 DEF Unsplit, WorkerRow
  <2>3. \A w : Known(pending.era, w) => (Known(pending.era, w))'
    BY DEF Known, Accounted
  <2>4. CASE pending.era = Era
    BY <1>1, <2>1, <2>2, <2>3, <2>4
  <2>5. CASE pending.era # Era
    BY <1>1, <2>1, <2>2, <2>3, <2>5
  <2>6. QED BY <2>4, <2>5
<1>8. NumbersOK'
  <2>1. \A e \in DOMAIN produced' : \A w \in produced'[e] : w > 0
    BY <1>1, <1>3 DEF IInv, IngestOK, NumbersOK
  <2>2. \A i \in DOMAIN journal' : WorkerRow(i)' =>
          /\ journal'[i].era \in 1 .. Era
          /\ journal'[i].era = Era => journal'[i].wseq <= ring'.last
    <3> TAKE i \in DOMAIN journal'
    <3> HAVE WorkerRow(i)'
    <3>1. WorkerRow(i) /\ journal'[i] = journal[i] /\ i \in DOMAIN journal
      BY DEF WorkerRow
    <3>2. journal[i].era \in 1 .. Era /\ (journal[i].era = Era => journal[i].wseq <= ring.last)
               /\ journal[i].wseq \in Nat
      BY <3>1, RowsTyped DEF IInv, IngestOK, NumbersOK, Rows
    <3>3. QED BY <1>1, <3>1, <3>2
  <2>3. QED BY <1>1, <2>1, <2>2 DEF NumbersOK
<1>9. \A w \in produced[Era] : link = "open" => w <= Seen \/ \E j \in DOMAIN toHub : Tells(toHub[j], Era, w)
  BY DEF IInv, IngestOK, ReplayOK
<1>10. FramesOK'
  <2>1. ASSUME NEW i \in DOMAIN toHub', i \notin DOMAIN toHub, IsEvent(i)'
        PROVE  FrameOK(i)'
    <3>1. IsNext(toHub'[i]) /\ link = "open"
      BY <2>1 DEF IsEvent
    <3>2. ASSUME NEW w \in produced'[Era], w < ring.last + 1
          PROVE  w <= Seen \/ \E j \in DOMAIN toHub' : j < i /\ Tells(toHub'[j], Era, w)
      BY <1>1, <1>9, <2>1, <3>1, <3>2 DEF Grown
    <3>3. QED BY <1>1, <1>2, <3>1, <3>2 DEF FrameOK, IsNext
  <2>2. ASSUME NEW i \in DOMAIN toHub, IsEvent(i)
        PROVE  FrameOK(i)'
    <3>1. FrameOK(i) /\ toHub'[i] = toHub[i] /\ toHub[i].era = Era /\ toHub[i].wseq \in Nat
      BY <1>4, <2>2, FieldsTyped DEF IInv, IngestOK, FramesOK, Grown, IsEvent
    <3>2. ASSUME NEW w \in produced'[Era], w < toHub[i].wseq, toHub[i].kind # "gap"
          PROVE  w <= Seen \/ \E j \in DOMAIN toHub' : j < i /\ Tells(toHub'[j], Era, w)
      BY <1>1, <3>1, <3>2 DEF FrameOK, Grown
    <3>3. /\ toHub[i].wseq > 0 /\ toHub[i].wseq <= ring.last
          /\ toHub[i].kind # "gap" => toHub[i].wseq \in produced[Era]
      BY <3>1 DEF FrameOK
    <3>4. QED BY <1>1, <1>2, <3>1, <3>2, <3>3 DEF FrameOK
  <2>3. \A i : IsEvent(i)' => (i \in DOMAIN toHub /\ IsEvent(i) /\ toHub'[i] = toHub[i]
             /\ toHub'[i].era = Era) \/ (i \in DOMAIN toHub' /\ i \notin DOMAIN toHub /\ toHub'[i].era = Era)
    BY <1>4 DEF IsEvent, Grown, IsNext
  <2>4. QED BY <2>1, <2>2, <2>3 DEF FramesOK
<1>11. UnheldOK'
  BY DEF UnheldOK
<1>12. NoSilentLoss' /\ ResetBetweenEras'
  <2>1. ResetBetweenEras'
    BY DEF IInv, IngestOK, ResetBetweenEras, WorkerRow
  <2>2. NoSilentLoss'
    <3> SUFFICES ASSUME NEW e \in DOMAIN produced', NEW w \in produced'[e],
                        NEW i \in DOMAIN journal', journal'[i].era = e, WorkerRow(i)', journal'[i].wseq > w
                 PROVE  (Accounted(e, w))'
      BY DEF NoSilentLoss
    <3>0. WorkerRow(i) /\ journal' = journal /\ journal[i].wseq \in Nat
      BY RowsTyped DEF WorkerRow, Rows
    <3>1. e \in 1 .. Era /\ (w \in produced[e] \/ (e = Era /\ w = ring.last + 1))
      BY <1>1
    <3>2. CASE w \in produced[e]
      BY <1>1, <3>0, <3>2 DEF IInv, IngestOK, NoSilentLoss, Accounted
    <3>3. CASE e = Era /\ w = ring.last + 1
      BY <1>1, <3>0, <3>3 DEF IInv, IngestOK, NumbersOK
    <3>4. QED BY <3>1, <3>2, <3>3
  <2>3. QED BY <2>1, <2>2
<1>13. ASSUME link = "open", synced, NEW w \in produced'[Era]
       PROVE  w <= Seen \/ \E j \in DOMAIN toHub' : Tells(toHub'[j], Era, w)
  BY <1>1, <1>9, <1>13 DEF Grown, Tells, IsNext
<1>14. QED BY <1>1, <1>2, <1>6, <1>7, <1>8, <1>10, <1>11, <1>12, <1>13

-----------------------------------------------------------------------------
(* What an event does to the journal.                                      *)

\* ingestWorkerEvent() of a worker's event.
Ingests(e) ==
  IF e.wseq <= Seen THEN UNCHANGED <<journal, cursor, guard, pending>>
  ELSE (e.kind = "delta" /\ BufferDelta(e)) \/ JournalEvent(e)

\* A row that an event above the mark adds: the pending text's, or its own.
NewRow(e, i) ==
  /\ i > Len(journal) /\ journal'[i].kind # "reset"
  /\ \/ pending # NoDelta /\ journal'[i].era = pending.era /\ journal'[i].wseq = pending.wseq
     \/ pending' = NoDelta /\ journal'[i].era = e.era /\ journal'[i].wseq = e.wseq

\* What is left of the journal, the cursor and the mark after an event above the mark.
Logged(e) ==
  /\ \A i \in DOMAIN journal : i \in DOMAIN journal' /\ journal'[i] = journal[i]
  /\ \A i \in DOMAIN journal' : i \in Nat /\ (i \in DOMAIN journal \/ NewRow(e, i))
  /\ \A x, w : (Known(x, w) => Known(x, w)') /\ (Accounted(x, w) => Accounted(x, w)')
  /\ journal' # journal => \A x, w : Known(x, w) => Accounted(x, w)'
  /\ \A w \in Nat : w = e.wseq \/ (e.kind = "gap" /\ w <= e.wseq) => Known(e.era, w)'
  /\ cursor' \in Nat
  /\ \/ cursor' = cursor \/ (cursor' = pending.wseq /\ journal' # journal)
     \/ cursor' = e.wseq /\ pending' = NoDelta
  /\ Seen' = e.wseq
  /\ pending' = NoDelta \/ (pending'.era = e.era /\ pending'.wseq = e.wseq)

\* The journal with the pending text in it.
LEMMA FlushedRows ==
  ASSUME IInv
  PROVE  /\ Flushed \in Seq(Rows) /\ Len(Flushed) \in Nat /\ DOMAIN Flushed = 1 .. Len(Flushed)
         /\ Len(Flushed) >= Len(journal)
         /\ \A i \in DOMAIN journal : i \in DOMAIN Flushed /\ Flushed[i] = journal[i]
         /\ \A i \in DOMAIN Flushed :
              i \in Nat /\ (i \in DOMAIN journal
                            \/ (pending # NoDelta /\ i > Len(journal) /\ Flushed[i] = DeltaRow(pending)))
         /\ pending # NoDelta => /\ \E i \in DOMAIN Flushed : Flushed[i] = DeltaRow(pending)
                                 /\ Flushed # journal
         /\ pending = NoDelta => Flushed = journal
         /\ CursorFlushed \in Nat
         /\ CursorFlushed = cursor \/ (pending # NoDelta /\ CursorFlushed = pending.wseq)
<1>1. CASE pending = NoDelta
  BY <1>1, RowsTyped, Typed DEF Flushed, CursorFlushed
<1>2. CASE pending # NoDelta
  <2>1. DeltaRow(pending) \in Rows /\ DeltaRow(pending).kind = "event"
             /\ DeltaRow(pending).wseq = pending.wseq
    BY Typed DEF DeltaRow, Rows
  <2>2. Flushed = Append(journal, DeltaRow(pending)) /\ CursorFlushed = Advance(cursor, DeltaRow(pending))
    BY <1>2 DEF Flushed, CursorFlushed
  <2>3. CursorFlushed \in Nat /\ (CursorFlushed = cursor \/ CursorFlushed = pending.wseq)
    BY <2>1, <2>2, Typed DEF Advance
  <2>4. /\ Flushed \in Seq(Rows) /\ Len(Flushed) = Len(journal) + 1
             /\ Flushed[Len(journal) + 1] = DeltaRow(pending)
        /\ \A i \in 1 .. Len(journal) : Flushed[i] = journal[i]
    BY <2>1, <2>2, RowsTyped
  <2>5. Flushed # journal
    BY <2>4, RowsTyped
  <2>6. QED BY <1>2, <2>3, <2>4, <2>5, RowsTyped
<1>3. QED BY <1>1, <1>2

\* However an event above the mark is ingested, it is logged.
LEMMA EventLogged ==
  ASSUME IInv, NEW e, e.wseq \in Nat, e.era \in Nat, e.kind \in {"text", "delta", "gap"}, e.wseq > Seen,
         Ingests(e)
  PROVE  Logged(e)
<1>1. Seen \in Nat /\ ~(e.wseq <= Seen)
  BY Typed
<1>2. CASE e.kind = "delta" /\ pending # NoDelta /\ pending.era = e.era
           /\ UNCHANGED <<journal, cursor, guard>>
           /\ pending' = [pending EXCEPT !.wseq = e.wseq, !.of = @ \cup {e.wseq}]
  <2>1. pending'.wseq = e.wseq /\ pending'.era = e.era /\ pending'.of = pending.of \cup {e.wseq}
    BY <1>2 DEF IInv, TypeInv, TypeOK, HubOK, Pendings
  <2>2. \A x, w : Accounted(x, w)' <=> Accounted(x, w)
    BY <1>2 DEF Accounted
  <2>3. Seen' = e.wseq
    BY <1>1, <1>2, <2>1, Typed, SeenFacts DEF Seen, Larger, NoGuard, IInv
  <2>4. \A x, w : Known(x, w) => Known(x, w)'
    BY <1>2, <2>1, <2>2 DEF Known
  <2>5. \A w \in Nat : w = e.wseq \/ (e.kind = "gap" /\ w <= e.wseq) => Known(e.era, w)'
    BY <1>2, <2>1 DEF Known
  <2>6. QED BY <1>2, <2>1, <2>2, <2>3, <2>4, <2>5, RowsTyped, Typed DEF Logged
<1>3. CASE e.kind = "delta" /\ journal' = Flushed /\ cursor' = CursorFlushed /\ guard' = GuardFlushed
           /\ pending' = [era |-> e.era, wseq |-> e.wseq, of |-> {e.wseq}]
  <2>0. pending'.era = e.era /\ pending'.wseq = e.wseq /\ pending'.of = {e.wseq}
    BY <1>3
  <2>1. /\ \A i \in DOMAIN journal : i \in DOMAIN journal' /\ journal'[i] = journal[i]
        /\ \A i \in DOMAIN journal' : i \in Nat /\ (i \in DOMAIN journal \/ NewRow(e, i))
    BY <1>3, FlushedRows DEF NewRow, DeltaRow
  <2>2. \A x, w : (Accounted(x, w) => Accounted(x, w)') /\ (Known(x, w) => Accounted(x, w)')
    <3>1. \A x, w : Accounted(x, w) => Accounted(x, w)'
      BY <2>1 DEF Accounted
    <3>2. ASSUME NEW x, NEW w, pending.era = x, w \in pending.of
          PROVE  Accounted(x, w)'
      BY <1>3, <3>2, FlushedRows DEF NoDelta, Accounted, DeltaRow
    <3>3. QED BY <3>1, <3>2 DEF Known
  <2>3. Seen' = e.wseq
    BY <1>1, <1>3, <2>0, Typed, SeenFacts DEF Seen, Larger, NoGuard, GuardFlushed, IInv
  <2>4. \A w \in Nat : w = e.wseq \/ (e.kind = "gap" /\ w <= e.wseq) => Known(e.era, w)'
    BY <1>3, <2>0 DEF Known
  <2>5. cursor' \in Nat /\ (cursor' = cursor \/ (cursor' = pending.wseq /\ journal' # journal))
    BY <1>3, FlushedRows
  <2>6. \A x, w : Known(x, w) => Known(x, w)'
    BY <2>2 DEF Known
  <2>7. QED BY <2>0, <2>1, <2>2, <2>3, <2>4, <2>5, <2>6 DEF Logged
<1>4. CASE JournalEvent(e)
  <2> DEFINE row == EventRow(e)
             F == Flushed
  <2>1. /\ row \in Rows /\ row.kind = (IF e.kind = "gap" THEN "gap" ELSE "event") /\ row.era = e.era
             /\ row.wseq = e.wseq
        /\ e.kind # "gap" => e.wseq \in row.of
    BY DEF EventRow, Rows
  <2>2. journal' = Append(F, row) /\ guard' = e.wseq /\ pending' = NoDelta
             /\ cursor' = Advance(CursorFlushed, row)
    BY <1>4 DEF JournalEvent
  <2>3. /\ F \in Seq(Rows) /\ Len(F) \in Nat /\ DOMAIN F = 1 .. Len(F) /\ Len(F) >= Len(journal)
        /\ \A i \in DOMAIN journal : i \in DOMAIN F /\ F[i] = journal[i]
        /\ \A i \in DOMAIN F :
             i \in Nat /\ (i \in DOMAIN journal
                           \/ (pending # NoDelta /\ i > Len(journal) /\ F[i] = DeltaRow(pending)))
        /\ pending # NoDelta => \E i \in DOMAIN F : F[i] = DeltaRow(pending)
    BY FlushedRows
  <2> HIDE DEF row, F
  <2>4. /\ \A i \in DOMAIN F : i \in DOMAIN journal' /\ journal'[i] = F[i]
        /\ \A i \in DOMAIN journal' : i \in Nat /\ (i \in DOMAIN F \/ (i = Len(F) + 1 /\ journal'[i] = row))
        /\ Len(F) + 1 \in DOMAIN journal' /\ journal'[Len(F) + 1] = row
    BY <2>1, <2>2, <2>3
  <2>5. \A i \in DOMAIN journal : i \in DOMAIN journal' /\ journal'[i] = journal[i]
    BY <2>3, <2>4
  <2>6. \A i \in DOMAIN journal' : i \in Nat /\ (i \in DOMAIN journal \/ NewRow(e, i))
    <3> SUFFICES ASSUME NEW i \in DOMAIN journal', i \notin DOMAIN journal PROVE NewRow(e, i)
      BY <2>4
    <3>1. CASE i \in DOMAIN F
      BY <2>3, <2>4, <3>1 DEF NewRow, DeltaRow
    <3>2. CASE i \notin DOMAIN F
      BY <2>1, <2>2, <2>3, <2>4, <3>2, RowsTyped DEF NewRow
    <3>3. QED BY <3>1, <3>2
  <2>7. \A x, w : (Accounted(x, w) => Accounted(x, w)') /\ (Known(x, w) => Accounted(x, w)')
    <3>1. \A x, w : Accounted(x, w) => Accounted(x, w)'
      BY <2>5 DEF Accounted
    <3>2. ASSUME NEW x, NEW w, pending.era = x, w \in pending.of
          PROVE  Accounted(x, w)'
      BY <2>3, <2>4, <3>2 DEF NoDelta, Accounted, DeltaRow
    <3>3. QED BY <3>1, <3>2 DEF Known
  <2>8. \A w \in Nat : w = e.wseq \/ (e.kind = "gap" /\ w <= e.wseq) => Known(e.era, w)'
    BY <2>1, <2>4 DEF Accounted, Known
  <2>9. Seen' = e.wseq
    BY <2>2, Typed DEF Seen, Larger, NoGuard, NoDelta
  <2>10. /\ cursor' \in Nat
         /\ cursor' = cursor \/ cursor' = pending.wseq \/ (cursor' = e.wseq /\ pending' = NoDelta)
    BY <2>1, <2>2, FlushedRows, Typed DEF Advance
  <2>11. \A x, w : Known(x, w) => Known(x, w)'
    BY <2>7 DEF Known
  <2>12. journal' # journal
    BY <2>3, <2>4, RowsTyped
  <2>13. QED BY <2>2, <2>5, <2>6, <2>7, <2>8, <2>9, <2>10, <2>11, <2>12 DEF Logged
<1>5. QED BY <1>1, <1>2, <1>3, <1>4 DEF Ingests, BufferDelta

\* The mark after an event was read.
MarkedBy(e) ==
  /\ Seen' \in Nat /\ Seen' >= Seen /\ Seen' >= e.wseq /\ (Seen' = Seen \/ Seen' = e.wseq)
  /\ cursor' \in Nat /\ (cursor' = cursor \/ cursor' <= Seen')

\* An event was read: the others move up, and the mark covers what it told.
LEMMA EventRead ==
  ASSUME IInv, ReadHub, toHub[1].t = "event", MarkedBy(toHub[1]), link \in {"open", "workerGone"},
         UNCHANGED <<ring, turn, held, produced, link, toWorker, retired, attached, synced>>,
         Attaching' <=> Attaching
  PROVE  MarksOK' /\ FramesOK' /\ ReplayOK' /\ (~held => toHub[1].era # Era)
<1>1. IsEvent(1) /\ FrameOK(1) /\ toHub[1].era \in 1 .. Era /\ toHub[1].wseq > 0 /\ toHub[1].wseq \in Nat
      /\ Era' = Era /\ (~held => toHub[1].era # Era)
  BY FieldsTyped, Typed DEF IInv, IngestOK, FramesOK, FrameOK, UnheldOK, IsEvent, ReadHub, Era
<1>2. \A i \in DOMAIN toHub' : IsEvent(i)' <=> IsEvent(i + 1)
  BY DEF ReadHub, IsEvent
<1>3. \A x, w : Tells(toHub[1], x, w) /\ w \in Nat => w <= Seen'
  BY <1>1, Typed DEF Tells, MarkedBy
<1>4. \A x, w : \A j \in DOMAIN toHub : Tells(toHub[j], x, w) /\ j # 1 =>
        j - 1 \in DOMAIN toHub' /\ toHub'[j - 1] = toHub[j]
  BY DEF ReadHub
<1>5. ASSUME NEW i \in DOMAIN toHub', IsEvent(i)'
      PROVE  FrameOK(i)'
  <2>1. FrameOK(i + 1) /\ toHub'[i] = toHub[i + 1] /\ i + 1 \in DOMAIN toHub /\ i \in Nat /\ IsEvent(i + 1)
    BY <1>2, <1>5 DEF IInv, IngestOK, FramesOK, ReadHub
  <2>2. ASSUME NEW w \in produced[toHub'[i].era], w < toHub'[i].wseq, toHub'[i].kind # "gap"
        PROVE  w <= Seen' \/ \E j \in DOMAIN toHub' : j < i /\ Tells(toHub'[j], toHub'[i].era, w)
    <3>0. w \in Nat
      BY <2>1, RowsTyped DEF FrameOK
    <3>1. w <= Seen \/ \E j \in DOMAIN toHub : j < i + 1 /\ Tells(toHub[j], toHub[i + 1].era, w)
      BY <2>1, <2>2 DEF FrameOK
    <3>2. CASE w <= Seen
      BY <3>0, <3>2, Typed DEF MarkedBy
    <3>3. ASSUME NEW j \in DOMAIN toHub, j < i + 1, Tells(toHub[j], toHub[i + 1].era, w), j # 1
          PROVE  \E k \in DOMAIN toHub' : k < i /\ Tells(toHub'[k], toHub'[i].era, w)
      BY <1>4, <2>1, <3>3 DEF ReadHub
    <3>4. QED BY <1>3, <3>0, <3>1, <3>2, <3>3
  <2>3. QED BY <1>1, <2>1, <2>2 DEF FrameOK, NoRunTurn
<1>6. FramesOK'
  BY <1>2, <1>5 DEF IInv, IngestOK, FramesOK, ReadHub
<1>7. MarksOK'
  <2>1. (Begun' <=> Begun) /\ ring.last \in Nat
    BY Typed DEF Begun, NoRunTurn
  <2>2. CASE toHub[1].era = Era
    BY <1>1, <2>1, <2>2, Typed DEF FrameOK, Begun, MarkedBy, IInv, IngestOK, MarksOK
  <2>3. CASE toHub[1].era # Era
    BY <1>1, <2>1, <2>3 DEF FrameOK, MarksOK, Begun
  <2>4. QED BY <2>2, <2>3
<1>8. ReplayOK'
  <2> SUFFICES ASSUME link = "open" PROVE ReplayOK'
    BY DEF ReplayOK
  <2>1. ASSUME synced, NEW w \in produced[Era]
        PROVE  w <= Seen' \/ \E j \in DOMAIN toHub' : Tells(toHub'[j], Era, w)
    <3>0. w \in Nat
      BY RowsTyped, Typed
    <3>1. w <= Seen \/ \E j \in DOMAIN toHub : Tells(toHub[j], Era, w)
      BY <2>1 DEF IInv, IngestOK, ReplayOK
    <3>2. CASE w <= Seen
      BY <3>0, <3>2, Typed DEF MarkedBy
    <3>3. ASSUME NEW j \in DOMAIN toHub, Tells(toHub[j], Era, w), j # 1
          PROVE  \E k \in DOMAIN toHub' : Tells(toHub'[k], Era, w)
      BY <1>4, <3>3
    <3>4. QED BY <1>3, <3>0, <3>1, <3>2, <3>3
  <2>2. ASSUME NEW i \in DOMAIN toWorker, toWorker[i].t = "attach", toWorker[i].since # NoCursor
        PROVE  held /\ toWorker[i].since <= Seen'
    <3>1. held /\ toWorker[i].since <= Seen
      BY <2>2 DEF IInv, IngestOK, ReplayOK
    <3>2. toWorker[i].since \in Nat
      BY <2>2, QueuesTyped, CommandFields
    <3>3. QED BY <3>1, <3>2, Typed DEF MarkedBy
  <2>3. QED BY <1>1, <2>1, <2>2 DEF ReplayOK
<1>9. QED BY <1>1, <1>6, <1>7, <1>8

\* An event above the mark was journaled or is pending: the marks still tell the truth.
LEMMA EventJournaled ==
  ASSUME IInv, ReadHub, NEW m, m = toHub[1], m.t = "event", m.wseq > Seen, Logged(m),
         UNCHANGED <<ring, held, produced>>
  PROVE  TruthOK' /\ PendingOK' /\ NumbersOK' /\ UnheldOK' /\ NoSilentLoss' /\ ResetBetweenEras'
<1>1. /\ IsEvent(1) /\ FrameOK(1) /\ m.era \in 1 .. Era /\ m.wseq > 0 /\ m.wseq \in Nat
      /\ m.era \in Nat /\ Era' = Era /\ (~held => m.era # Era) /\ (m.era # Era => ~held)
      /\ TruthOf(m.era) /\ Unsplit(m.era) /\ TruthOf(Era) /\ Unsplit(Era)
  BY FieldsTyped, Typed DEF IInv, IngestOK, FramesOK, FrameOK, UnheldOK, TruthOK, IsEvent, ReadHub, Era
<1>2. \A i \in DOMAIN toHub' : IsEvent(i)' => IsEvent(i + 1) /\ i + 1 \in DOMAIN toHub
           /\ toHub'[i] = toHub[i + 1]
        /\ toHub'[i].era = m.era
  BY <1>1 DEF ReadHub, IsEvent, IInv, IngestOK, FramesOK
<1>3. /\ \A i \in DOMAIN journal : i \in DOMAIN journal' /\ journal'[i] = journal[i] /\ i \in Nat
           /\ i <= Len(journal)
      /\ \A i \in DOMAIN journal' : i \in Nat /\ (i \in DOMAIN journal \/ (NewRow(m, i) /\ i > Len(journal)))
      /\ Len(journal) \in Nat
  BY RowsTyped DEF Logged, NewRow
<1>4. \A x : Unsplit(x) => Unsplit(x)'
  BY <1>3 DEF Unsplit, WorkerRow, NewRow
<1>5. TruthOf(m.era)'
  <2> SUFFICES ASSUME NEW w \in produced[m.era]
               PROVE  /\ w <= Seen' => Known(m.era, w)'
                      /\ w <= cursor' => Accounted(m.era, w)'
    BY DEF TruthOf
  <2>0. w \in Nat /\ Seen' = m.wseq
    BY <1>1, RowsTyped DEF Logged
  <2>1. (w <= Seen => Known(m.era, w)) /\ (w <= cursor => Accounted(m.era, w))
    BY <1>1 DEF TruthOf
  <2>2. ASSUME w <= Seen'
        PROVE  Known(m.era, w)'
    <3>1. CASE w <= Seen
      BY <2>1, <3>1 DEF Logged
    <3>2. CASE w > Seen /\ (m.kind = "gap" \/ w = m.wseq)
      BY <2>0, <2>2, <3>2 DEF Logged
    <3>3. CASE w > Seen /\ m.kind # "gap" /\ w < m.wseq
      BY <1>1, <2>0, <3>3, Typed DEF FrameOK, ReadHub
    <3>4. QED BY <2>0, <2>2, <3>1, <3>2, <3>3, <1>1, Typed
  <2>3. ASSUME w <= cursor'
        PROVE  Accounted(m.era, w)'
    BY <2>0, <2>1, <2>2, <2>3, Typed, SeenFacts DEF Logged, IInv, Known, NoDelta
  <2>4. QED BY <2>2, <2>3
<1>6. TruthOf(Era)'
  BY <1>1, <1>5 DEF TruthOf, IInv, IngestOK, UnheldOK
<1>7. TruthOK'
  BY <1>1, <1>2, <1>4, <1>5, <1>6 DEF Unsplit, WorkerRow, IsWorkerRow, TruthOK
<1>8. PendingOK'
  <2> SUFFICES ASSUME pending' # NoDelta PROVE PendingOK'
    BY DEF PendingOK
  <2>1. pending'.era = m.era /\ pending'.wseq = m.wseq /\ Seen' = m.wseq
    BY DEF Logged
  <2>2. \A w \in produced[m.era] : w <= m.wseq => Known(m.era, w)'
    BY <1>5, <2>1 DEF TruthOf
  <2>3. m.era = Era => m.wseq <= ring.last
    BY <1>1 DEF FrameOK
  <2>4. Unsplit(m.era)'
    BY <1>1, <1>4
  <2>5. QED BY <1>1, <2>1, <2>2, <2>3, <2>4 DEF PendingOK
<1>9. ASSUME NEW i \in DOMAIN journal', i \notin DOMAIN journal
      PROVE  /\ journal' # journal /\ journal'[i].era \in 1 .. Era /\ (~held => journal'[i].era # Era)
             /\ journal'[i].era = Era => journal'[i].wseq <= ring.last
             /\ Unsplit(journal'[i].era)
             /\ \A x : x = journal'[i].era =>
                  \A w \in produced[x] : w < journal'[i].wseq => Accounted(x, w)'
  <2>1. journal' # journal /\ NewRow(m, i)
    BY <1>3, <1>9
  <2>2. CASE pending # NoDelta /\ journal'[i].era = pending.era /\ journal'[i].wseq = pending.wseq
    <3>1. /\ pending.era \in 1 .. Era /\ pending.wseq > 0 /\ Unsplit(pending.era)
               /\ (~held => pending.era # Era)
          /\ pending.era = Era => pending.wseq <= ring.last
          /\ \A w \in produced[pending.era] : w <= pending.wseq => Known(pending.era, w)
      BY <2>2 DEF IInv, IngestOK, PendingOK, UnheldOK
    <3>2. ASSUME NEW p, p = pending.era, NEW w \in produced[p], w < pending.wseq
          PROVE  Accounted(p, w)'
      BY <2>1, <3>1, <3>2, RowsTyped, Typed DEF Logged
    <3>3. PICK p : p = pending.era
      OBVIOUS
    <3>4. \A w \in produced[p] : w < pending.wseq => Accounted(p, w)'
      BY <3>2, <3>3
    <3>5. QED BY <2>1, <2>2, <3>1, <3>3, <3>4
  <2>3. CASE pending' = NoDelta /\ journal'[i].era = m.era /\ journal'[i].wseq = m.wseq
    <3>1. ASSUME NEW w \in produced[m.era], w < m.wseq
          PROVE  Accounted(m.era, w)'
      BY <1>1, <1>5, <2>3, <3>1, RowsTyped DEF Logged, TruthOf, Known, NoDelta
    <3>2. m.era = Era => m.wseq <= ring.last
      BY <1>1 DEF FrameOK
    <3>3. QED BY <1>1, <2>1, <2>3, <3>1, <3>2
  <2>4. QED BY <2>1, <2>2, <2>3 DEF NewRow
<1>10. NumbersOK'
  BY <1>1, <1>3, <1>9 DEF IInv, IngestOK, NumbersOK, WorkerRow
<1>11. UnheldOK'
  <2> SUFFICES ASSUME ~held PROVE UnheldOK'
    BY DEF UnheldOK
  <2>1. /\ produced[Era] = {} /\ pending.era # Era
        /\ \A i \in DOMAIN journal : IsWorkerRow(journal[i]) => journal[i].era # Era
    BY DEF IInv, IngestOK, UnheldOK, WorkerRow
  <2>2. \A i \in DOMAIN journal' : IsWorkerRow(journal'[i]) => journal'[i].era # Era
    BY <1>3, <1>9, <2>1
  <2>3. pending'.era # Era
    BY <1>1, Typed DEF Logged, NoDelta
  <2>4. \A i \in DOMAIN toHub' : IsEvent(i)' => toHub'[i].era # Era
    BY <1>1, <1>2
  <2>5. QED BY <1>1, <2>1, <2>2, <2>3, <2>4 DEF UnheldOK, WorkerRow
<1>12. NoSilentLoss'
  <2> SUFFICES ASSUME NEW x \in DOMAIN produced, NEW w \in produced[x],
                      NEW i \in DOMAIN journal', journal'[i].era = x, IsWorkerRow(journal'[i]), journal'[i].wseq > w
               PROVE  Accounted(x, w)'
    BY DEF NoSilentLoss, WorkerRow
  <2>1. CASE i \in DOMAIN journal
    BY <2>1, <1>3 DEF IInv, IngestOK, NoSilentLoss, WorkerRow, Logged
  <2>2. CASE i \notin DOMAIN journal
    BY <1>1, <1>3, <1>9, <2>2, Typed, RowsTyped DEF NewRow
  <2>3. QED BY <2>1, <2>2
<1>13. ResetBetweenEras'
  <2> SUFFICES ASSUME NEW i \in DOMAIN journal', NEW k \in DOMAIN journal', NEW j \in DOMAIN journal',
                      i < k, k < j, journal'[k].kind = "reset", IsWorkerRow(journal'[i]), IsWorkerRow(journal'[j]),
                      journal'[i].era = journal'[j].era
               PROVE  FALSE
    BY DEF ResetBetweenEras, WorkerRow
  <2>1. k \in DOMAIN journal
    BY <1>3 DEF NewRow
  <2>2. i \in DOMAIN journal
    BY <1>3, <2>1
  <2>3. CASE j \in DOMAIN journal
    BY <1>3, <2>1, <2>2, <2>3 DEF IInv, IngestOK, ResetBetweenEras, WorkerRow
  <2>4. CASE j \notin DOMAIN journal
    BY <1>3, <1>9, <2>1, <2>2, <2>4 DEF Unsplit, WorkerRow
  <2>5. QED BY <2>3, <2>4
<1>14. QED BY <1>7, <1>8, <1>10, <1>11, <1>12, <1>13

\* An event is read, and journaled, pending or dropped.
LEMMA EventIngested ==
  ASSUME IInv, ReadHub, toHub[1].t = "event", Ingests(toHub[1]), link \in {"open", "workerGone"},
         UNCHANGED <<ring, turn, held, produced, link, toWorker, retired, attached, synced>>,
         Attaching' <=> Attaching
  PROVE  IngestOK'
<1>1. PICK m : m = toHub[1]
  OBVIOUS
<1>2. /\ m.t = "event" /\ m.wseq \in Nat /\ m.era \in Nat /\ m.kind \in {"text", "delta", "gap"}
      /\ m.wseq > 0 /\ IsEvent(1) /\ (~held => m.era # Era) /\ Ingests(m)
  BY <1>1, FieldsTyped DEF IInv, IngestOK, FramesOK, FrameOK, UnheldOK, IsEvent, ReadHub
<1>3. CASE m.wseq <= Seen
  <2>1. UNCHANGED <<journal, cursor, guard, pending>>
    BY <1>2, <1>3 DEF Ingests
  <2>2. MarkedBy(toHub[1])
    BY <1>1, <1>3, <2>1, Typed DEF MarkedBy, Seen
  <2>3. Ingested
    BY <2>1, Typed, FlushKeeps DEF Flushes
  <2>4. MarksOK' /\ FramesOK' /\ ReplayOK'
    BY <2>2, EventRead
  <2>5. Era' = Era /\ \A i \in DOMAIN toHub' : IsEvent(i)' => IsEvent(i + 1) /\ i + 1 \in DOMAIN toHub
          /\ toHub'[i].era = toHub[i + 1].era
    BY DEF ReadHub, IsEvent, Era
  <2>6. TruthOK'
    BY <2>3, <2>5, TruthKept
  <2>7. NumbersOK' /\ UnheldOK'
    BY <2>1, <2>5 DEF IInv, IngestOK, NumbersOK, WorkerRow, UnheldOK
  <2>8. QED BY <2>3, <2>4, <2>6, <2>7 DEF IngestOK, Ingested
<1>4. CASE m.wseq > Seen
  <2>1. Logged(m)
    BY <1>2, <1>4, EventLogged
  <2>2. MarkedBy(toHub[1])
    BY <1>1, <1>2, <1>4, <2>1, Typed, SeenFacts DEF MarkedBy, Logged, IInv
  <2>3. MarksOK' /\ FramesOK' /\ ReplayOK'
    BY <1>1, <1>2, <2>2, EventRead
  <2>4. TruthOK' /\ PendingOK' /\ NumbersOK' /\ UnheldOK' /\ NoSilentLoss' /\ ResetBetweenEras'
    BY <1>1, <1>2, <1>4, <2>1, EventJournaled
  <2>5. QED BY <2>3, <2>4 DEF IngestOK
<1>5. QED BY <1>2, <1>3, <1>4, Typed

-----------------------------------------------------------------------------
(* The continuations of listLive().                                        *)

\* What the call of attachWorker() awaited is in: on an open link no turn is unanswered,
\* and the others' places and replies stay as they are.
LEMMA ReplyUsed ==
  ASSUME IInv, NEW r \in Runs, Recorded(r), hubUp, NEW next \in RunStates,
         run' = [RunsAfter(r) EXCEPT ![r] = next]
  PROVE  /\ attached /\ link \in {"open", "workerGone"} /\ (link = "open" => NoRunTurn)
         /\ run' \in [Runs -> RunStates] /\ run'[r] = next
         /\ \A q \in Runs : q # r => /\ run'[q].pc = run[q].pc /\ run'[q].held = run[q].held
                                     /\ run'[q].busy = run[q].busy
                                     /\ ~Repairs(r) => run'[q] = run[q]
         /\ \A i \in DOMAIN toWorker : ~RequestOf(i, r)
         /\ \A i \in DOMAIN toHub : ~AnswerOf(i, r)
<1>1. attached /\ link \in {"open", "workerGone"}
  BY DEF IInv, ProtocolOK, SocketOK, Recorded
<1>2. link = "open" => NoRunTurn
  BY DEF IInv, ProtocolOK, CallsOK, CallOK, HeardPcs, NoRunTurn, Recorded
<1>3. /\ RunsAfter(r) \in [Runs -> RunStates]
      /\ \A q \in Runs : /\ RunsAfter(r)[q].pc = run[q].pc /\ RunsAfter(r)[q].held = run[q].held
                         /\ RunsAfter(r)[q].busy = run[q].busy
                         /\ ~Repairs(r) => RunsAfter(r)[q] = run[q]
  BY Typed, TouchedTyped DEF Touched, RunStates, RunsAfter
<1>4. /\ \A i \in DOMAIN toWorker : ~RequestOf(i, r)
      /\ \A i \in DOMAIN toHub : ~AnswerOf(i, r)
  BY <1>1 DEF IInv, ProtocolOK, RunsOK, RunOK, ListPcs, Recorded
<1>5. QED BY <1>1, <1>2, <1>3, <1>4

\* The repaired busy bit is that of the reply, and a reply that finds no turn is right.
LEMMA BusyRepaired ==
  ASSUME IInv, NEW r \in Runs, Recorded(r), hubUp, NEW next \in RunStates,
         run' = [RunsAfter(r) EXCEPT ![r] = next], busy' = RepairedBusy(r),
         UNCHANGED <<turn, link, toHub, doubtful, attached, retired>>
  PROVE  BusyOK'
<1> SUFFICES ASSUME View, ~retired, ~busy', NextIsLive
             PROVE  run'["attached"].pc \in {"listing", "listed"} /\ ~run'["attached"].touched
  BY DEF BusyOK, View, NextIsLive, NoTurns, FirstTurn, IsTurn
<1>1. attached /\ "attached" \in Runs
  BY ReplyUsed, RunsAssumption
<1>2. ~run[r].busy => ~NextIsLive
  BY DEF IInv, ViewOK, ReportOK, NextIsLive, NoTurns, FirstTurn, IsTurn
<1>3. ~Repairs(r) /\ ~busy
  BY <1>2, Typed DEF IInv, HeldOK, RepairedBusy
<1>4. run["attached"].pc \in {"listing", "listed"} /\ ~run["attached"].touched
  BY <1>1, <1>3 DEF IInv, ViewOK, BusyOK
<1>5. r # "attached"
  BY <1>2, <1>3, <1>4 DEF IInv, HeldOK, Repairs
<1>6. QED BY <1>1, <1>3, <1>4, <1>5, ReplyUsed

-----------------------------------------------------------------------------
(* The sweep.                                                              *)

\* A sweep leaves everything, or adds the pending text's row, a reset marker and perhaps
\* one that is no worker's, and forgets the marks.
Swept ==
  \/ UNCHANGED <<journal, cursor, guard, pending>> /\ Seen = 0
  \/ /\ \A i \in DOMAIN journal : i \in DOMAIN journal' /\ journal'[i] = journal[i]
     /\ \A i \in DOMAIN journal' : i \in Nat /\ (i \in DOMAIN journal \/
          /\ i > Len(journal)
          /\ \/ pending # NoDelta /\ i = Len(journal) + 1 /\ journal'[i] = DeltaRow(pending)
             \/ ~IsWorkerRow(journal'[i]))
     /\ pending # NoDelta => \E i \in DOMAIN journal' : journal'[i] = DeltaRow(pending)
     /\ cursor' = 0 /\ guard' = NoGuard /\ pending' = NoDelta

\* SweepStale does no more than that.
LEMMA SweepSweeps ==
  ASSUME IInv, SweepStale
  PROVE  Swept
<1>1. CASE GuardFlushed = NoGuard /\ status # "active"
  <2>1. pending = NoDelta /\ guard = NoGuard
    BY <1>1, Typed DEF GuardFlushed, Larger, NoGuard
  <2>2. Flushed = journal /\ CursorFlushed = cursor /\ journal \in Seq(Rows)
    BY <2>1, RowsTyped DEF Flushed, CursorFlushed
  <2>3. journal' = journal \o << >> /\ cursor' = cursor /\ guard' = NoGuard /\ pending' = NoDelta
    BY <1>1, <2>2 DEF SweepStale
  <2>4. journal' = journal
    BY <2>2, <2>3
  <2>5. Seen = 0
    BY <2>1 DEF Seen, Larger, NoDelta
  <2>6. QED BY <2>1, <2>3, <2>4, <2>5 DEF Swept
<1>2. CASE ~(GuardFlushed = NoGuard /\ status # "active")
  <2> DEFINE F == Flushed
             swept == IF status = "active" THEN <<ResetRow, StaleRow>> ELSE <<ResetRow>>
  <2>1. /\ F \in Seq(Rows) /\ Len(F) \in Nat /\ DOMAIN F = 1 .. Len(F) /\ Len(F) >= Len(journal)
        /\ \A i \in DOMAIN journal : i \in DOMAIN F /\ F[i] = journal[i]
        /\ \A i \in DOMAIN F :
             i \in Nat /\ (i \in DOMAIN journal
                           \/ (pending # NoDelta /\ i = Len(journal) + 1 /\ F[i] = DeltaRow(pending)))
        /\ pending # NoDelta => \E i \in DOMAIN F : F[i] = DeltaRow(pending)
    <3>1. Len(F) <= Len(journal) + 1 /\ DOMAIN journal = 1 .. Len(journal) /\ Len(journal) \in Nat
      BY RowsTyped, Typed DEF Flushed, DeltaRow, Rows
    <3>2. QED BY <3>1, FlushedRows
  <2>2. journal' = F \o swept /\ cursor' = Advance(CursorFlushed, ResetRow) /\ guard' = NoGuard
             /\ pending' = NoDelta
    BY <1>2 DEF SweepStale
  <2>3. swept \in Seq({ResetRow, StaleRow}) /\ \A k \in 1 .. Len(swept) : swept[k] \in {ResetRow, StaleRow}
    <3>1. \A a, b : /\ <<a, b>> \in Seq({a, b}) /\ Len(<<a, b>>) = 2
                    /\ <<a, b>>[1] = a /\ <<a, b>>[2] = b
      OBVIOUS
    <3>2. \A a, b : <<a>> \in Seq({a, b}) /\ Len(<<a>>) = 1 /\ <<a>>[1] = a
      OBVIOUS
    <3>3. CASE status = "active"
      <4>1. swept = <<ResetRow, StaleRow>>
        BY <3>3
      <4> HIDE DEF swept
      <4>2. QED BY <3>1, <4>1
    <3>4. CASE status # "active"
      <4>1. swept = <<ResetRow>>
        BY <3>4
      <4> HIDE DEF swept
      <4>2. QED BY <3>2, <4>1
    <3>5. QED BY <3>3, <3>4
  <2> HIDE DEF F, swept
  <2>4. /\ \A i \in DOMAIN F : i \in DOMAIN journal' /\ journal'[i] = F[i]
        /\ \A i \in DOMAIN journal' :
             i \in Nat /\ (i \in DOMAIN F \/ (i > Len(F) /\ journal'[i] \in {ResetRow, StaleRow}))
    BY <2>1, <2>2, <2>3, ConcatMoves
  <2>5. ~IsWorkerRow(ResetRow) /\ ~IsWorkerRow(StaleRow) /\ cursor' = 0
    BY <2>2 DEF IsWorkerRow, ResetRow, StaleRow, Advance
  <2>6. \A i \in DOMAIN journal : i \in DOMAIN journal' /\ journal'[i] = journal[i]
    BY <2>1, <2>4
  <2>7. \A i \in DOMAIN journal' : i \in Nat /\ (i \in DOMAIN journal \/
          /\ i > Len(journal)
          /\ \/ pending # NoDelta /\ i = Len(journal) + 1 /\ journal'[i] = DeltaRow(pending)
             \/ ~IsWorkerRow(journal'[i]))
    BY <2>1, <2>4, <2>5, RowsTyped
  <2>8. pending # NoDelta => \E i \in DOMAIN journal' : journal'[i] = DeltaRow(pending)
    BY <2>1, <2>4
  <2>9. QED BY <2>2, <2>5, <2>6, <2>7, <2>8 DEF Swept
<1>3. QED BY <1>1, <1>2

\* A session the worker does not hold is swept: nothing of its era is there to be lost.
LEMMA SweptIngest ==
  ASSUME IInv, Swept, ~held, \A j \in DOMAIN toHub : toHub[j].t # "event",
         UNCHANGED <<ring, turn, held, produced, link, toHub, toWorker, retired, attached, synced>>
  PROVE  IngestOK'
<1>1. /\ Era' = Era /\ produced[Era] = {} /\ pending.era # Era /\ Seen' = 0 /\ cursor' \in Nat
      /\ \A i \in DOMAIN journal : IsWorkerRow(journal[i]) => journal[i].era # Era
      /\ \A i \in DOMAIN toHub : ~IsEvent(i) /\ ~IsEvent(i)'
      /\ cursor' = cursor \/ cursor' = 0
  BY Typed DEF IInv, IngestOK, UnheldOK, WorkerRow, IsEvent, Era, Swept, Seen, Larger, NoDelta
<1>2. /\ \A i \in DOMAIN journal : i \in DOMAIN journal' /\ journal'[i] = journal[i] /\ i \in Nat
           /\ i <= Len(journal)
      /\ \A i \in DOMAIN journal' : i \in Nat /\ (i \in DOMAIN journal \/
          /\ i > Len(journal)
          /\ \/ pending # NoDelta /\ i = Len(journal) + 1 /\ journal'[i] = DeltaRow(pending)
             \/ ~IsWorkerRow(journal'[i]))
      /\ Len(journal) \in Nat
  BY RowsTyped DEF Swept
<1>3. \A x, w : Accounted(x, w) => Accounted(x, w)'
  BY <1>2 DEF Accounted
<1>5. /\ DeltaRow(pending).kind = "event" /\ DeltaRow(pending).era = pending.era
      /\ DeltaRow(pending).wseq = pending.wseq /\ DeltaRow(pending).of = pending.of
  BY DEF DeltaRow
<1>6. pending # NoDelta =>
        /\ pending.era \in 1 .. Era /\ Unsplit(pending.era)
        /\ \A w \in produced[pending.era] : w <= pending.wseq => Known(pending.era, w)
  BY DEF IInv, IngestOK, PendingOK
<1>7. TruthOK'
  <2>1. TruthOf(Era)'
    BY <1>1 DEF TruthOf
  <2>2. Unsplit(Era)'
    BY <1>1, <1>2, <1>5 DEF Unsplit, WorkerRow
  <2>3. QED BY <1>1, <2>1, <2>2 DEF TruthOK
<1>8. PendingOK'
  BY <1>1 DEF PendingOK, IInv, IngestOK, Known, Accounted, Unsplit, WorkerRow, Swept
<1>9. NumbersOK'
  BY <1>1, <1>2, <1>5, <1>6 DEF IInv, IngestOK, NumbersOK, WorkerRow
<1>10. UnheldOK'
  BY <1>1, <1>2, <1>5, Typed DEF Swept, NoDelta, UnheldOK, WorkerRow
<1>11. FramesOK' /\ ReplayOK'
  BY <1>1 DEF FramesOK, ReplayOK, IInv, IngestOK
<1>12. MarksOK'
  BY <1>1, Typed DEF IInv, IngestOK, MarksOK, Begun, NoRunTurn
<1>13. NoSilentLoss'
  <2> SUFFICES ASSUME NEW x \in DOMAIN produced, NEW w \in produced[x],
                      NEW i \in DOMAIN journal', journal'[i].era = x, IsWorkerRow(journal'[i]), journal'[i].wseq > w
               PROVE  Accounted(x, w)'
    BY DEF NoSilentLoss, WorkerRow
  <2>1. CASE i \in DOMAIN journal
    BY <2>1, <1>2, <1>3 DEF IInv, IngestOK, NoSilentLoss, WorkerRow
  <2>2. CASE i \notin DOMAIN journal
    <3>1. pending # NoDelta /\ journal'[i] = DeltaRow(pending)
      BY <1>2, <2>2
    <3>2. x = pending.era /\ w <= pending.wseq
      BY <1>5, <3>1, RowsTyped, Typed
    <3>3. Known(x, w)
      BY <1>6, <3>1, <3>2
    <3>4. CASE x = pending.era /\ w \in pending.of
      BY <1>5, <3>1, <3>4 DEF Accounted
    <3>5. QED BY <1>3, <3>3, <3>4 DEF Known
  <2>3. QED BY <2>1, <2>2
<1>14. ResetBetweenEras'
  <2> SUFFICES ASSUME NEW i \in DOMAIN journal', NEW k \in DOMAIN journal', NEW j \in DOMAIN journal',
                      i < k, k < j, journal'[k].kind = "reset", IsWorkerRow(journal'[i]), IsWorkerRow(journal'[j]),
                      journal'[i].era = journal'[j].era
               PROVE  FALSE
    BY DEF ResetBetweenEras, WorkerRow
  <2>1. CASE j \in DOMAIN journal
    BY <1>2, <2>1 DEF IInv, IngestOK, ResetBetweenEras, WorkerRow
  <2>2. CASE j \notin DOMAIN journal
    BY <1>2, <1>5, <1>6, <2>2 DEF Unsplit, WorkerRow
  <2>3. QED BY <2>1, <2>2
<1>15. QED BY <1>7, <1>8, <1>9, <1>10, <1>11, <1>12, <1>13, <1>14 DEF IngestOK

-----------------------------------------------------------------------------
(* The claim of a session.                                                 *)

\* The mark is not lowered, and not raised above the cursor; a replay is asked from there.
LEMMA ClaimIngest ==
  ASSUME IInv, NEW m, SentWorker(m), m.t # "runTurn",
         m.t = "attach" /\ m.since # NoCursor => m.since = cursor /\ Seen' >= cursor
              /\ (link = "open" => held),
         Seen' \in Nat, Seen' >= Seen, Seen' = Seen \/ Seen' = cursor, Attaching',
         UNCHANGED <<journal, cursor, pending, ring, turn, held, produced, link, toHub, retired, attached, synced>>
  PROVE  IngestOK'
<1>1. Era' = Era /\ \A x, w : (Known(x, w)' <=> Known(x, w)) /\ (Accounted(x, w)' <=> Accounted(x, w))
  BY DEF Known, Accounted, Era
<1>2. NoRunTurn' <=> NoRunTurn
  BY DEF NoRunTurn, SentWorker
<1>3. \A x : Unsplit(x)' <=> Unsplit(x)
  BY DEF Unsplit, WorkerRow
<1>4. \A x \in 1 .. Era : TruthOf(x) => TruthOf(x)'
  BY <1>1 DEF TruthOf, Known
<1>5. MarksOK'
  BY <1>2, Typed DEF IInv, IngestOK, MarksOK, Begun
<1>6. TruthOK'
  <2>1. (TruthOf(Era) /\ Unsplit(Era))'
    BY <1>1, <1>3, <1>4, Typed DEF IInv, IngestOK, TruthOK
  <2>2. ASSUME NEW i \in DOMAIN toHub', IsEvent(i)'
        PROVE  (TruthOf(toHub[i].era) /\ Unsplit(toHub[i].era))'
    BY <1>3, <1>4, <2>2 DEF IsEvent, IInv, IngestOK, TruthOK, FramesOK, FrameOK
  <2>3. QED BY <2>1, <2>2 DEF TruthOK
<1>7. PendingOK'
  BY <1>1, <1>3 DEF IInv, IngestOK, PendingOK
<1>8. NumbersOK' /\ NoSilentLoss' /\ ResetBetweenEras'
  BY <1>1 DEF IInv, IngestOK, NumbersOK, WorkerRow, NoSilentLoss, ResetBetweenEras
<1>9. UnheldOK'
  BY <1>1 DEF IInv, IngestOK, UnheldOK, WorkerRow, IsEvent
<1>10. FramesOK'
  <2>1. \A i : IsEvent(i)' <=> IsEvent(i)
    BY DEF IsEvent
  <2>2. ASSUME NEW i \in DOMAIN toHub, IsEvent(i)
        PROVE  FrameOK(i)'
    <3>1. FrameOK(i)
      BY <2>2 DEF IInv, IngestOK, FramesOK
    <3>2. ASSUME NEW w \in produced[toHub[i].era], w <= Seen, toHub[i].kind # "gap"
          PROVE  w <= Seen'
      BY <3>1, <3>2, RowsTyped, Typed DEF FrameOK
    <3>3. QED BY <1>1, <1>2, <3>1, <3>2 DEF FrameOK
  <2>3. QED BY <2>1, <2>2 DEF FramesOK, IInv, IngestOK
<1>11. ReplayOK'
  <2> SUFFICES ASSUME link = "open" PROVE ReplayOK'
    BY DEF ReplayOK
  <2>1. synced => \A w \in produced[Era] : w <= Seen' \/ \E j \in DOMAIN toHub : Tells(toHub[j], Era, w)
    BY Typed, RowsTyped DEF IInv, IngestOK, ReplayOK
  <2>2. ASSUME NEW i \in DOMAIN toWorker', toWorker'[i].t = "attach", toWorker'[i].since # NoCursor
        PROVE  held /\ toWorker'[i].since <= Seen'
    <3>1. CASE i \in DOMAIN toWorker
      <4>1. toWorker'[i] = toWorker[i] /\ held /\ toWorker[i].since <= Seen
        BY <2>2, <3>1 DEF SentWorker, IInv, IngestOK, ReplayOK
      <4>2. toWorker[i].since \in Nat
        BY <2>2, <3>1, <4>1, QueuesTyped, CommandFields
      <4>3. QED BY <4>1, <4>2, Typed
    <3>2. CASE i \notin DOMAIN toWorker
      BY <2>2, <3>2 DEF SentWorker
    <3>3. QED BY <3>1, <3>2
  <2>3. QED BY <1>1, <2>1, <2>2 DEF ReplayOK
<1>12. QED BY <1>5, <1>6, <1>7, <1>8, <1>9, <1>10, <1>11 DEF IngestOK

-----------------------------------------------------------------------------
(* The worker's steps.                                                     *)

\* The worker emits an event of the turn.
LEMMA EmitKeeps ==
  ASSUME Ordinary, IInv, Emit
  PROVE  ProtocolOK' /\ HeldOK' /\ ViewOK' /\ IngestOK'
<1>1. /\ UNCHANGED <<provider, durable, hub, turn, activeTurn, held, accepting, link, toWorker, synced, doubtful, turns>>
      /\ turn = "live" /\ held /\ (link = "open" => synced)
      /\ produced' = [produced EXCEPT ![Era] = @ \cup {ring.last + 1}]
  BY DEF Emit, MayEmit, Ordinary, IInv, ProtocolOK, TurnOK
<1>2. /\ ring'.last = ring.last + 1 /\ Numbered(ring', produced[Era] \cup {ring.last + 1})
      /\ activeTurn => StartedLast(ring')
  <2>0. \E k \in {"text", "delta"} : ring' = RingAppend(ring, k)
    BY DEF Emit, RingKinds
  <2>1. PICK k \in {"text", "delta"} : ring' = RingAppend(ring, k)
    BY <2>0
  <2>2. /\ WellFormed(ring, RingKinds) /\ Numbered(ring, produced[Era]) /\ produced[Era] \in SUBSET Nat
        /\ k \in RingKinds /\ (activeTurn => StartedLast(ring))
    BY <2>1, RowsTyped, Typed DEF IInv, TypeInv, IngestOK, NumbersOK, ProtocolOK, TurnOK, RingKinds
  <2>3. ring'.last = ring.last + 1
    BY <2>1, <2>2, RingShift
  <2>4. Numbered(ring', produced[Era] \cup {ring.last + 1})
    <3> DEFINE Q == produced[Era] \cup {ring.last + 1}
    <3>1. Q = IF k \in {"text", "delta"} THEN produced[Era] \cup {ring.last + 1} ELSE produced[Era]
      BY <2>1
    <3> HIDE DEF Q
    <3>2. Numbered(ring', Q)
      BY <2>1, <2>2, <3>1, NumberedAppend
    <3>3. QED BY <3>2 DEF Q
  <2>5. activeTurn => StartedLast(ring')
    BY <2>1, <2>2, StartedLastAppend
  <2>6. QED BY <2>3, <2>4, <2>5
<1>3. /\ Grown /\ (link # "open" => toHub' = toHub)
      /\ \A j \in DOMAIN toHub' : j \notin DOMAIN toHub => IsNext(toHub'[j]) /\ link = "open"
      /\ link = "open" => \E j \in DOMAIN toHub' : toHub'[j].t = "event" /\ IsNext(toHub'[j])
  <2>1. PICK k \in {"text", "delta"} : SendsOne(EventMsg(Era, ring.last + 1, k))
    BY DEF Emit, SendsOne
  <2>2. EventMsg(Era, ring.last + 1, k).t = "event" /\ IsNext(EventMsg(Era, ring.last + 1, k))
    BY DEF EventMsg, IsNext
  <2>3. CASE link = "open"
    <3> DEFINE m == EventMsg(Era, ring.last + 1, k)
    <3>1. SendsOne(m) /\ m.t = "event" /\ IsNext(m)
      BY <2>1, <2>2
    <3> HIDE DEF m
    <3>2. /\ Grown /\ \A j \in DOMAIN toHub' : j \notin DOMAIN toHub => toHub'[j] = m
          /\ Len(toHub) + 1 \in DOMAIN toHub' /\ toHub'[Len(toHub) + 1] = m
      BY <2>3, <3>1, OneSent DEF IInv
    <3>3. QED BY <2>3, <3>1, <3>2
  <2>4. CASE link # "open"
    BY <2>1, <2>4, NothingSent DEF SendsOne, Grown
  <2>5. QED BY <2>3, <2>4
<1>4. /\ TruthOK' /\ PendingOK' /\ NumbersOK' /\ FramesOK' /\ UnheldOK'
      /\ NoSilentLoss' /\ ResetBetweenEras'
      /\ link = "open" /\ synced => \A w \in produced'[Era'] :
           w <= Seen' \/ \E j \in DOMAIN toHub' : Tells(toHub'[j], Era', w)
  BY <1>1, <1>2, <1>3, EventEmitted DEF durable, hub
<1>5. /\ \A i \in DOMAIN toHub' : IsTurn(i)' <=> IsTurn(i)
      /\ LiveMarksOK' /\ ReplayedOK' /\ (NextIsLive' => NextIsLive) /\ (NoTurns => NoTurns')
  BY <1>1, <1>3, MarkersKept DEF View, IsNext
<1>6. \A j \in DOMAIN toHub' : j \notin DOMAIN toHub => toHub'[j].t = "event" /\ link = "open"
  BY <1>3 DEF IsNext
<1>7. Seen' = Seen
  BY <1>1 DEF Seen, hub
<1>8. SocketOK'
  BY <1>1, <1>3, <1>6 DEF IInv, ProtocolOK, SocketOK, Grown, durable, hub
<1>9. ProcessesOK'
  BY <1>1 DEF IInv, ProtocolOK, ProcessesOK, Grown, durable, hub
<1>10. RunsOK'
  BY <1>1, <1>3, <1>6 DEF IInv, ProtocolOK, RunsOK, RunOK, RequestOf, AnswerOf, Grown, durable, hub
<1>11. CallsOK'
  BY <1>1, <1>3, <1>6 DEF IInv, ProtocolOK, CallsOK, CallOK, Grown, durable, hub
<1>12. StopOK'
  BY <1>1, <1>3, <1>6 DEF IInv, ProtocolOK, StopOK, NoRunTurn, Grown, durable, hub
<1>13. TurnOK'
  BY <1>1, <1>2 DEF IInv, ProtocolOK, TurnOK, NoRunTurn, Attaching, Grown, durable, hub
<1>14. HeldOK'
  BY <1>1, <1>3, <1>6 DEF IInv, HeldOK, Recorded, Grown, durable, hub
<1>15. SentOK'
  BY <1>1, <1>5 DEF IInv, ViewOK, SentOK, View, hub
<1>16. LiveMarksOK'
  BY <1>5
<1>17. ReplayedOK'
  BY <1>5
<1>18. BusyOK'
  BY <1>1, <1>5 DEF IInv, ViewOK, BusyOK, View, hub, durable
<1>19. ReportOK'
  BY <1>1, <1>3, <1>5, <1>6 DEF IInv, ViewOK, ReportOK, View, Recorded, IsTurn, Grown, durable, hub
<1>20. MarksOK'
  BY <1>1, <1>2, <1>7, Typed DEF IInv, IngestOK, MarksOK, Begun, durable
<1>21. TruthOK'
  BY <1>4
<1>22. PendingOK'
  BY <1>4
<1>23. NumbersOK'
  BY <1>4
<1>24. FramesOK'
  BY <1>4
<1>25. UnheldOK'
  BY <1>4
<1>26. ReplayOK'
  BY <1>1, <1>4, <1>7 DEF IInv, IngestOK, ReplayOK
<1>27. NoSilentLoss'
  BY <1>4
<1>28. ResetBetweenEras'
  BY <1>4
<1>29. QED
  BY <1>8, <1>9, <1>10, <1>11, <1>12, <1>13, <1>14, <1>15, <1>16, <1>17, <1>18, <1>19, <1>20, <1>21,
     <1>22, <1>23, <1>24, <1>25, <1>26, <1>27, <1>28 DEF ProtocolOK, ViewOK, IngestOK

\* The turn ends.
LEMMA EndTurnKeeps ==
  ASSUME Ordinary, IInv, EndTurn
  PROVE  ProtocolOK' /\ HeldOK' /\ ViewOK' /\ IngestOK'
<1>1. turn \in {"live", "resuming"} /\ turn' = "none" /\ activeTurn' = FALSE
  BY DEF EndTurn
<1>2. \E k \in {"completed", "errored"} : ring' = RingAppend(ring, k)
      /\ \/ SendsOne(TurnMsg(k, FALSE))
         \/ turn = "resuming" /\ SendsTwo(TurnMsg(k, FALSE), AckMsg(accepting))
  BY DEF EndTurn, SendsOne, SendsTwo
<1>3. Grown /\ (link # "open" => toHub' = toHub)
      /\ \A j \in DOMAIN toHub' : j \notin DOMAIN toHub =>
           \/ /\ toHub'[j].t = "turn" /\ toHub'[j].kind \in {"completed", "errored"} /\ ~toHub'[j].replay
              /\ j = Len(toHub) + 1
           \/ toHub'[j].t = "ack" /\ toHub'[j].call = accepting /\ turn = "resuming"
      /\ (link = "open" => Len(toHub) + 1 \in DOMAIN toHub' /\ toHub'[Len(toHub) + 1].t = "turn")
  BY <1>2, OneSent, TwoSent, NothingSent DEF TurnMsg, AckMsg, IInv, SendsOne, SendsTwo
<1>4. ring'.last = ring.last + 1 /\ Numbered(ring', produced[Era])
  BY <1>2, RingShift, NumberedAppend, RowsTyped, Typed DEF IInv, TypeInv, IngestOK, NumbersOK, RingKinds
<1>5. \A i \in DOMAIN toHub : IsEvent(i) => toHub[i].era = Era
  BY <1>1, EraOnWire
<1>6. UNCHANGED <<provider, durable, hub, held, accepting, produced, link, toWorker, synced, doubtful, turns>>
  BY DEF EndTurn
<1>7. Ingested
  BY <1>1, <1>2, <1>3, <1>4, <1>5, <1>6, Typed, FlushKeeps DEF Flushes, Grown, durable, hub
<1>8. /\ FramesOK' /\ TruthOK'
      /\ link = "open" /\ synced => \A w \in produced[Era] :
           w <= Seen' \/ \E j \in DOMAIN toHub' : Tells(toHub'[j], Era', w)
  BY <1>1, <1>2, <1>3, <1>4, <1>5, <1>6, <1>7, Typed, OthersSent DEF NoRunTurn, Grown, durable, hub
<1>9. SocketOK'
  BY <1>1, <1>2, <1>3, <1>4, <1>5, <1>6, <1>7 DEF IInv, ProtocolOK, SocketOK, TurnOK, Grown,
     durable, hub
<1>10. ProcessesOK'
  BY <1>1, <1>2, <1>3, <1>4, <1>5, <1>6, <1>7 DEF IInv, ProtocolOK, ProcessesOK, Grown, durable, hub
<1>11. RunsOK'
  BY <1>1, <1>2, <1>3, <1>4, <1>5, <1>6, <1>7 DEF IInv, ProtocolOK, RunsOK, RunOK, RequestOf,
     AnswerOf, Grown, durable, hub
<1>12. CallsOK'
  BY <1>1, <1>2, <1>3, <1>4, <1>5, <1>6, <1>7 DEF IInv, ProtocolOK, CallsOK, CallOK, Grown, durable,
     hub
<1>13. StopOK'
  BY <1>1, <1>2, <1>3, <1>4, <1>5, <1>6, <1>7 DEF IInv, ProtocolOK, StopOK, NoRunTurn, Grown,
     durable, hub
<1>14. TurnOK'
  BY <1>1, <1>2, <1>3, <1>4, <1>5, <1>6, <1>7 DEF IInv, ProtocolOK, TurnOK, NoRunTurn, Attaching,
     Grown, durable, hub
<1>15. HeldOK'
  BY <1>1, <1>2, <1>3, <1>4, <1>5, <1>6, <1>7 DEF IInv, HeldOK, Recorded, Grown, durable, hub
<1>16. SentOK'
  BY <1>1, <1>2, <1>3, <1>4, <1>5, <1>6, <1>7 DEF IInv, ViewOK, SentOK, View, NoTurns, Grown,
     durable, hub
<1>17. LiveMarksOK'
  BY <1>1, <1>2, <1>3, <1>4, <1>5, <1>6, <1>7 DEF IInv, ViewOK, LiveMarksOK, View, IsTurn, Grown,
     durable, hub
<1>18. ReplayedOK'
  <2> SUFFICES ASSUME NEW i \in DOMAIN toHub', IsTurn(i)', toHub'[i].replay
               PROVE  /\ \E j \in DOMAIN toHub' : i < j /\ toHub'[j].t = "attachAck"
                      /\ View' /\ toHub'[i].kind # "started" =>
                           \A j \in DOMAIN toHub' : IsTurn(j)' /\ i < j /\ ~toHub'[j].replay =>
                             \E k \in DOMAIN toHub' : IsTurn(k)' /\ i < k /\ k < j
    BY <1>1 DEF ReplayedOK
  <2>1. i \in DOMAIN toHub /\ toHub'[i] = toHub[i] /\ IsTurn(i) /\ toHub[i].replay
    BY <1>3 DEF IsTurn, Grown
  <2>2. \E j \in DOMAIN toHub' : i < j /\ toHub'[j].t = "attachAck"
    BY <1>3, <2>1 DEF IInv, ViewOK, ReplayedOK, Grown
  <2>3. ASSUME View', toHub'[i].kind # "started",
               NEW j \in DOMAIN toHub', IsTurn(j)', i < j, ~toHub'[j].replay
        PROVE  \E k \in DOMAIN toHub' : IsTurn(k)' /\ i < k /\ k < j
    <3>0. View
      BY <1>6, <2>3 DEF View
    <3>1. CASE j \in DOMAIN toHub
      BY <1>3, <2>1, <2>3, <3>0, <3>1 DEF IInv, ViewOK, ReplayedOK, Grown, IsTurn
    <3>2. CASE j \notin DOMAIN toHub
      BY <1>1, <1>3, <2>1, <2>3, <3>0, <3>2 DEF IInv, ViewOK, ReplayedOK, LastTurn, Grown, IsTurn
    <3>3. QED BY <3>1, <3>2
  <2>4. QED BY <2>2, <2>3
<1>19. BusyOK'
  BY <1>1, <1>2, <1>3, <1>4, <1>5, <1>6, <1>7 DEF IInv, ViewOK, BusyOK, NextIsLive, NoTurns,
     FirstTurn, View, IsTurn, Grown, durable, hub
<1>20. ReportOK'
  BY <1>1, <1>2, <1>3, <1>4, <1>5, <1>6, <1>7 DEF IInv, ViewOK, ReportOK, View, IsTurn, Recorded,
     Grown, durable, hub
<1>21. MarksOK'
  BY <1>1, <1>2, <1>3, <1>4, <1>5, <1>6, <1>7, Typed DEF IInv, IngestOK, MarksOK, Begun, NoRunTurn,
     Attaching, Ingested, Grown, durable, hub
<1>22. TruthOK'
  BY <1>8
<1>23. PendingOK'
  BY <1>7 DEF Ingested
<1>24. NumbersOK'
  BY <1>4, <1>6, <1>7, Typed, RowsTyped DEF IInv, IngestOK, NumbersOK, WorkerRow, Ingested, Rows,
     Grown, durable, hub
<1>25. FramesOK'
  BY <1>8
<1>26. UnheldOK'
  BY <1>1, <1>2, <1>3, <1>4, <1>5, <1>6, <1>7, Typed DEF IInv, IngestOK, UnheldOK, WorkerRow,
     IsEvent, Ingested, Grown, durable, hub
<1>27. ReplayOK'
  BY <1>1, <1>2, <1>3, <1>4, <1>5, <1>6, <1>7, <1>8 DEF IInv, IngestOK, ReplayOK, Ingested, Grown,
     durable, hub
<1>28. NoSilentLoss'
  BY <1>7 DEF Ingested
<1>29. ResetBetweenEras'
  BY <1>7 DEF Ingested
<1>30. QED
  BY <1>9, <1>10, <1>11, <1>12, <1>13, <1>14, <1>15, <1>16, <1>17, <1>18, <1>19, <1>20, <1>21,
     <1>22, <1>23, <1>24, <1>25, <1>26, <1>27, <1>28, <1>29 DEF ProtocolOK, ViewOK, IngestOK

\* A codex thread is resumed: registered, its event emitted, its turn accepted.
LEMMA ResumeThreadKeeps ==
  ASSUME Ordinary, IInv, ResumeThread
  PROVE  ProtocolOK' /\ HeldOK' /\ ViewOK' /\ IngestOK'
<1>1. /\ UNCHANGED <<provider, durable, hub, activeTurn, accepting, link, toWorker, synced, doubtful, turns>>
      /\ turn = "resuming" /\ turn' = "live" /\ ~held /\ held' /\ produced[Era] = {} /\ accepting \in Nat
      /\ produced' = [produced EXCEPT ![Era] = @ \cup {ring.last + 1}]
  BY Typed DEF ResumeThread, IInv, ProtocolOK, TurnOK, IngestOK, UnheldOK
<1>2. /\ ring'.last = ring.last + 1 /\ Numbered(ring', produced[Era] \cup {ring.last + 1})
      /\ activeTurn => StartedLast(ring')
  <2>0. \E k \in {"text", "delta"} : ring' = RingAppend(ring, k)
    BY DEF ResumeThread, RingKinds
  <2>1. PICK k \in {"text", "delta"} : ring' = RingAppend(ring, k)
    BY <2>0
  <2>2. /\ WellFormed(ring, RingKinds) /\ Numbered(ring, produced[Era]) /\ produced[Era] \in SUBSET Nat
        /\ k \in RingKinds /\ (activeTurn => StartedLast(ring))
    BY <2>1, RowsTyped, Typed DEF IInv, TypeInv, IngestOK, NumbersOK, ProtocolOK, TurnOK, RingKinds
  <2>3. ring'.last = ring.last + 1
    BY <2>1, <2>2, RingShift
  <2>4. Numbered(ring', produced[Era] \cup {ring.last + 1})
    <3> DEFINE Q == produced[Era] \cup {ring.last + 1}
    <3>1. Q = IF k \in {"text", "delta"} THEN produced[Era] \cup {ring.last + 1} ELSE produced[Era]
      BY <2>1
    <3> HIDE DEF Q
    <3>2. Numbered(ring', Q)
      BY <2>1, <2>2, <3>1, NumberedAppend
    <3>3. QED BY <3>2 DEF Q
  <2>5. activeTurn => StartedLast(ring')
    BY <2>1, <2>2, StartedLastAppend
  <2>6. QED BY <2>3, <2>4, <2>5
<1>3. /\ Grown /\ (link # "open" => toHub' = toHub)
      /\ \A j \in DOMAIN toHub' : j \notin DOMAIN toHub =>
           link = "open" /\ (IsNext(toHub'[j]) \/ (toHub'[j].t = "ack" /\ toHub'[j].call = accepting))
      /\ link = "open" => \E j \in DOMAIN toHub' : toHub'[j].t = "event" /\ IsNext(toHub'[j])
  <2> DEFINE m == EventMsg(Era, ring.last + 1, "text")
             a == AckMsg(accepting)
  <2>1. SendsTwo(m, a)
    BY DEF ResumeThread, SendsTwo
  <2>2. m.t = "event" /\ IsNext(m) /\ a.t = "ack" /\ a.call = accepting
    BY DEF EventMsg, IsNext, AckMsg
  <2> HIDE DEF m, a
  <2>3. CASE link = "open"
    BY <2>1, <2>2, <2>3, TwoSent DEF IInv
  <2>4. CASE link # "open"
    BY <2>1, <2>4, NothingSent DEF SendsTwo, Grown
  <2>5. QED BY <2>3, <2>4
<1>4. /\ TruthOK' /\ PendingOK' /\ NumbersOK' /\ FramesOK' /\ UnheldOK'
      /\ NoSilentLoss' /\ ResetBetweenEras'
      /\ link = "open" /\ synced => \A w \in produced'[Era'] :
           w <= Seen' \/ \E j \in DOMAIN toHub' : Tells(toHub'[j], Era', w)
  BY <1>1, <1>2, <1>3, EventEmitted DEF durable, hub
<1>5. /\ \A i \in DOMAIN toHub' : IsTurn(i)' <=> IsTurn(i)
      /\ LiveMarksOK' /\ ReplayedOK' /\ (NextIsLive' => NextIsLive) /\ (NoTurns => NoTurns')
  BY <1>1, <1>3, MarkersKept DEF View, IsNext
<1>6. \A j \in DOMAIN toHub' : j \notin DOMAIN toHub =>
        link = "open" /\ (toHub'[j].t = "event" \/ (toHub'[j].t = "ack" /\ toHub'[j].call = accepting))
  BY <1>3 DEF IsNext
<1>7. Seen' = Seen
  BY <1>1 DEF Seen, hub
<1>8. link = "open" => attached /\ ~Attaching
  BY <1>1 DEF IInv, ProtocolOK, TurnOK
<1>9. SocketOK'
  BY <1>1, <1>3, <1>6, <1>8 DEF IInv, ProtocolOK, SocketOK, Grown, durable, hub
<1>10. ProcessesOK'
  BY <1>1 DEF IInv, ProtocolOK, ProcessesOK, Grown, durable, hub
<1>11. RunsOK'
  BY <1>1, <1>3, <1>6 DEF IInv, ProtocolOK, RunsOK, RunOK, RequestOf, AnswerOf, Grown, durable, hub
<1>12. CallsOK'
  <2>1. /\ calling' <= turns' /\ accepting' <= turns' /\ accepting <= turns
        /\ \A i \in DOMAIN toHub' : toHub'[i].t = "ack" => toHub'[i].call <= turns'
        /\ \A i \in DOMAIN toWorker' : toWorker'[i].t = "runTurn" => toWorker'[i].call \in 1 .. turns'
    BY <1>1, <1>3, <1>6 DEF IInv, ProtocolOK, CallsOK, hub, Grown
  <2>2. ASSUME link = "open", NEW i \in DOMAIN toWorker', toWorker'[i].t = "runTurn"
        PROVE  CallOK(i)'
    BY <1>1, <1>3, <1>6, <2>2 DEF IInv, ProtocolOK, CallsOK, CallOK, Grown, hub
  <2>3. QED BY <1>1, <2>1, <2>2 DEF CallsOK
<1>13. StopOK'
  BY <1>1, <1>3, <1>6 DEF IInv, ProtocolOK, StopOK, NoRunTurn, Grown, durable, hub
<1>14. TurnOK'
  BY <1>1, <1>2, <1>8 DEF IInv, ProtocolOK, TurnOK, NoRunTurn, Attaching, Grown, durable, hub
<1>15. HeldOK'
  BY <1>1, <1>3, <1>6 DEF IInv, HeldOK, Recorded, Grown, durable, hub
<1>16. SentOK'
  BY <1>1, <1>5 DEF IInv, ViewOK, SentOK, View, hub
<1>17. LiveMarksOK'
  BY <1>5
<1>18. ReplayedOK'
  BY <1>5
<1>19. BusyOK'
  BY <1>1, <1>5 DEF IInv, ViewOK, BusyOK, View, hub, durable
<1>20. ReportOK'
  BY <1>1, <1>3, <1>5, <1>6 DEF IInv, ViewOK, ReportOK, View, Recorded, IsTurn, Grown, durable, hub
<1>21. MarksOK'
  BY <1>1, <1>2, <1>7, Typed DEF IInv, IngestOK, MarksOK, Begun, durable
<1>22. TruthOK'
  BY <1>4
<1>23. PendingOK'
  BY <1>4
<1>24. NumbersOK'
  BY <1>4
<1>25. FramesOK'
  BY <1>4
<1>26. UnheldOK'
  BY <1>4
<1>27. ReplayOK'
  BY <1>1, <1>4, <1>7 DEF IInv, IngestOK, ReplayOK
<1>28. NoSilentLoss'
  BY <1>4
<1>29. ResetBetweenEras'
  BY <1>4
<1>30. QED
  BY <1>9, <1>10, <1>11, <1>12, <1>13, <1>14, <1>15, <1>16, <1>17, <1>18, <1>19, <1>20, <1>21,
     <1>22, <1>23, <1>24, <1>25, <1>26, <1>27, <1>28, <1>29 DEF ProtocolOK, ViewOK, IngestOK

\* The worker reports what it holds.
LEMMA HandleListLiveKeeps ==
  ASSUME Ordinary, IInv, HandleListLive
  PROVE  ProtocolOK' /\ HeldOK' /\ ViewOK' /\ IngestOK'
<1>1. ReadWorker /\ toWorker[1].t = "listLive" /\ toWorker[1].run \in Runs /\ link \in {"open", "hubGone"}
      /\ Head(toWorker) = toWorker[1]
  BY CommandRead, CommandFields DEF HandleListLive, IInv
<1>2. UNCHANGED <<provider, durable, hub, worker, link, synced, doubtful, turns>>
  BY DEF HandleListLive
<1>3. Grown /\ (link # "open" => toHub' = toHub)
      /\ \A j \in DOMAIN toHub' : j \notin DOMAIN toHub =>
           /\ toHub'[j].t = "live" /\ toHub'[j].run = toWorker[1].run
           /\ toHub'[j].held = held /\ toHub'[j].busy = ReportedBusy /\ j = Len(toHub) + 1 /\ link = "open"
  BY <1>1, OneSent, NothingSent DEF HandleListLive, SendsOne, LiveMsg, IInv
<1>4. link = "open" => attached /\ run[toWorker[1].run].pc \in ListPcs /\ Attaching /\ NoRunTurn
  <2> SUFFICES ASSUME link = "open" PROVE attached /\ run[toWorker[1].run].pc \in ListPcs /\ Attaching
       /\ NoRunTurn
    OBVIOUS
  <2>1. attached
    BY <1>1 DEF IInv, ProtocolOK, SocketOK, ReadWorker
  <2>2. run[toWorker[1].run].pc \in ListPcs
    BY <1>1, <2>1 DEF IInv, ProtocolOK, RunsOK, RunOK, RequestOf, ReadWorker
  <2>3. Attaching
    BY <1>1, <2>2 DEF Attaching, ListPcs
  <2>4. NoRunTurn
    BY <1>1, QueuesTyped DEF NoRunTurn, IInv, ProtocolOK, CallsOK, CallOK, ReadWorker
  <2>5. QED BY <2>1, <2>2, <2>3, <2>4
<1>5. link = "open" => (~held => turn = "none") /\ (ReportedBusy => held) /\ (View
           /\ ~ReportedBusy => turn = "none")
  BY <1>4, Typed, ProvidersAssumption DEF ReportedBusy, View, IInv, ProtocolOK, TurnOK
<1>6. /\ \A i \in DOMAIN toHub' : IsTurn(i)' <=> IsTurn(i)
      /\ LiveMarksOK' /\ ReplayedOK' /\ (NextIsLive' => NextIsLive)
  BY <1>2, <1>3, MarkersKept DEF View, worker
<1>7. Ingested
  BY <1>1, <1>2, <1>3, <1>4, <1>5, <1>6, Typed, FlushKeeps DEF Flushes, ReadWorker, Grown, durable,
     hub, worker
<1>8. /\ FramesOK' /\ TruthOK'
      /\ link = "open" /\ synced => \A w \in produced[Era] :
           w <= Seen' \/ \E j \in DOMAIN toHub' : Tells(toHub'[j], Era', w)
  BY <1>1, <1>2, <1>3, <1>4, <1>5, <1>6, <1>7, Typed, OthersSent DEF NoRunTurn, ReadWorker, Grown,
     durable, hub, worker
<1>9. SocketOK'
  BY <1>1, <1>2, <1>3, <1>4, <1>5, <1>6, <1>7 DEF IInv, ProtocolOK, SocketOK, ReadWorker, Grown,
     durable, hub, worker
<1>10. ProcessesOK'
  BY <1>1, <1>2, <1>3, <1>4, <1>5, <1>6, <1>7 DEF IInv, ProtocolOK, ProcessesOK, ReadWorker, Grown,
     durable, hub, worker
<1>11. RunsOK'
  <2> SUFFICES ASSUME attached, NEW q \in Runs PROVE RunOK(q)'
    BY <1>2 DEF RunsOK, hub
  <2>1. RunOK(q) /\ run' = run
    BY <1>2 DEF IInv, ProtocolOK, RunsOK, hub
  <2>2. \A i \in DOMAIN toWorker' : RequestOf(i, q)' => i + 1 \in DOMAIN toWorker /\ RequestOf(i + 1, q)
             /\ toWorker'[i] = toWorker[i + 1] /\ i \in Nat /\ i + 1 # 1
    BY <1>1 DEF RequestOf, ReadWorker
  <2>3. CASE q # toWorker[1].run
    BY <1>3, <2>1, <2>2, <2>3 DEF AnswerOf, Grown, RunOK
  <2>4. CASE q = toWorker[1].run
    BY <1>1, <1>3, <1>4, <2>1, <2>2, <2>4 DEF RunOK, RequestOf, ReadWorker, AnswerOf, Grown
  <2>5. QED BY <2>3, <2>4
<1>12. CallsOK'
  BY <1>1, <1>2, <1>3, <1>4, <1>5, <1>6, <1>7 DEF IInv, ProtocolOK, CallsOK, CallOK, ReadWorker,
     Grown, durable, hub, worker
<1>13. StopOK'
  BY <1>1, <1>2, <1>3, <1>4, <1>5, <1>6, <1>7 DEF IInv, ProtocolOK, StopOK, NoRunTurn, ReadWorker,
     Grown, durable, hub, worker
<1>14. TurnOK'
  BY <1>1, <1>2, <1>3, <1>4, <1>5, <1>6, <1>7 DEF IInv, ProtocolOK, TurnOK, NoRunTurn, Attaching,
     ReadWorker, Grown, durable, hub, worker
<1>15. HeldOK'
  BY <1>2, <1>3, <1>5 DEF IInv, HeldOK, Recorded, ReadWorker, Grown, durable, hub, worker
<1>16. SentOK'
  BY <1>1, <1>2, <1>3, <1>4, <1>5, <1>6, <1>7 DEF IInv, ViewOK, SentOK, View, NoTurns, ReadWorker,
     Grown, durable, hub, worker
<1>17. LiveMarksOK'
  BY <1>6
<1>18. ReplayedOK'
  BY <1>6
<1>19. BusyOK'
  BY <1>2, <1>6 DEF IInv, ViewOK, BusyOK, View, hub, durable, worker
<1>20. ReportOK'
  <2> SUFFICES ASSUME View' PROVE
          /\ \A i \in DOMAIN toHub' : toHub'[i].t = "live" /\ ~toHub'[i].busy =>
               turn' = "none" /\ \A j \in DOMAIN toHub' : IsTurn(j)' /\ i < j => toHub'[j].replay
          /\ \A r \in Runs : Recorded(r)' /\ ~run'[r].busy =>
               turn' = "none" /\ \A j \in DOMAIN toHub' : IsTurn(j)' => toHub'[j].replay
    BY DEF ReportOK
  <2>1. View /\ turn' = turn /\ run' = run /\ link = "open"
    BY <1>2 DEF View, worker, hub
  <2>2. \A j \in DOMAIN toHub' : IsTurn(j)' => IsTurn(j) /\ j \in DOMAIN toHub /\ toHub'[j] = toHub[j]
             /\ j <= Len(toHub)
    BY <1>3, <1>6 DEF IsTurn, Grown
  <2>3. ASSUME NEW i \in DOMAIN toHub', toHub'[i].t = "live", ~toHub'[i].busy
        PROVE  turn = "none" /\ \A j \in DOMAIN toHub' : IsTurn(j)' /\ i < j => toHub'[j].replay
    BY <1>3, <1>5, <2>1, <2>2, <2>3 DEF IInv, ViewOK, ReportOK, Grown
  <2>4. QED BY <2>1, <2>2, <2>3 DEF IInv, ViewOK, ReportOK, Recorded
<1>21. MarksOK'
  BY <1>1, <1>2, <1>3, <1>4, <1>5, <1>6, <1>7, Typed DEF IInv, IngestOK, MarksOK, Begun, NoRunTurn,
     Attaching, Ingested, ReadWorker, Grown, durable, hub, worker
<1>22. TruthOK'
  BY <1>8
<1>23. PendingOK'
  BY <1>7 DEF Ingested
<1>24. NumbersOK'
  BY <1>1, <1>2, <1>3, <1>4, <1>5, <1>6, <1>7 DEF IInv, IngestOK, NumbersOK, WorkerRow, Ingested,
     ReadWorker, Grown, durable, hub, worker
<1>25. FramesOK'
  BY <1>8
<1>26. UnheldOK'
  BY <1>1, <1>2, <1>3, <1>4, <1>5, <1>6, <1>7, Typed DEF IInv, IngestOK, UnheldOK, WorkerRow,
     IsEvent, Ingested, ReadWorker, Grown, durable, hub, worker
<1>27. ReplayOK'
  BY <1>1, <1>2, <1>3, <1>4, <1>5, <1>6, <1>7, <1>8 DEF IInv, IngestOK, ReplayOK, Ingested,
     ReadWorker, Grown, durable, hub, worker
<1>28. NoSilentLoss'
  BY <1>7 DEF Ingested
<1>29. ResetBetweenEras'
  BY <1>7 DEF Ingested
<1>30. QED
  BY <1>9, <1>10, <1>11, <1>12, <1>13, <1>14, <1>15, <1>16, <1>17, <1>18, <1>19, <1>20, <1>21,
     <1>22, <1>23, <1>24, <1>25, <1>26, <1>27, <1>28, <1>29 DEF ProtocolOK, ViewOK, IngestOK

\* The worker re-sends what the hub lacks, then acknowledges.
LEMMA HandleAttachKeeps ==
  ASSUME Ordinary, IInv, HandleAttach
  PROVE  ProtocolOK' /\ HeldOK' /\ ViewOK' /\ IngestOK'
<1>1. ReadWorker /\ toWorker[1].t = "attach" /\ toWorker[1].run \in Runs
           /\ toWorker[1].since \in Nat \cup {NoCursor}
      /\ link \in {"open", "hubGone"} /\ Head(toWorker) = toWorker[1]
  BY CommandRead, CommandFields DEF HandleAttach, IInv
<1>2. /\ UNCHANGED <<provider, durable, hub, worker, link, doubtful, turns>>
      /\ toWorker[1].since = NoCursor => synced' = synced
  BY <1>1, Typed DEF HandleAttach
<1>3. IF toWorker[1].since = NoCursor THEN SendsOne(AttachAck(toWorker[1].run))
      ELSE SendsReplay(toWorker[1].since, toWorker[1].run) /\ toWorker[1].since \in Nat
  <2>1. << >> \o <<AttachAck(toWorker[1].run)>> = <<AttachAck(toWorker[1].run)>>
    OBVIOUS
  <2>2. CASE toWorker[1].since = NoCursor
    BY <1>1, <2>1, <2>2 DEF HandleAttach, SendsOne
  <2>3. CASE toWorker[1].since # NoCursor
    BY <1>1, <2>3 DEF HandleAttach, SendsReplay
  <2>4. QED BY <2>2, <2>3
<1>4. /\ Grown /\ (link # "open" => toHub' = toHub)
      /\ \A j \in DOMAIN toHub' : j \notin DOMAIN toHub =>
           /\ link = "open" /\ toHub'[j].t \in {"event", "turn", "attachAck"}
           /\ toHub'[j].t = "turn" => toHub'[j].replay
           /\ toHub'[j].t = "attachAck" => toHub'[j].run = toWorker[1].run /\ \A i \in DOMAIN toHub' : i <= j
           /\ toWorker[1].since = NoCursor => toHub'[j].t = "attachAck"
           /\ toHub'[j].t # "attachAck" => \E i \in DOMAIN toHub' : j < i /\ toHub'[i].t = "attachAck"
  <2>1. CASE link # "open"
    BY <1>3, <2>1, NothingSent DEF SendsOne, SendsReplay
  <2>2. CASE link = "open" /\ toWorker[1].since = NoCursor
    BY <1>3, <2>2, OneSent DEF IInv, Grown, AttachAck
  <2>3. CASE link = "open" /\ toWorker[1].since # NoCursor
    <3> DEFINE c == toWorker[1].since
               n == Len(Replay(c))
    <3>1. c \in Nat /\ toWorker[1].run \in Runs /\ SendsReplay(c, toWorker[1].run)
      BY <1>1, <1>3, <2>3
    <3> HIDE DEF c
    <3>2. /\ Grown /\ n \in Nat /\ Len(toHub) \in Nat
          /\ Len(toHub) + n + 1 \in DOMAIN toHub'
          /\ toHub'[Len(toHub) + n + 1] = AttachAck(toWorker[1].run)
          /\ \A j \in DOMAIN toHub' : j \notin DOMAIN toHub =>
               \/ j - Len(toHub) \in 1 .. n /\ toHub'[j] = Replay(c)[j - Len(toHub)]
               \/ j = Len(toHub) + n + 1 /\ toHub'[j] = AttachAck(toWorker[1].run)
      BY <2>3, <3>1, ReplaySent DEF Grown
    <3>3. \A k \in 1 .. n : Replay(c)[k].t \in {"event", "turn"}
               /\ (Replay(c)[k].t = "turn" => Replay(c)[k].replay)
      BY <3>1, ReplayFrames DEF ReplayedEvent, ReplayedMark
    <3> HIDE DEF n
    <3>4. \A j \in DOMAIN toHub' : j <= Len(toHub) + n + 1
      BY <3>2 DEF Grown
    <3>5. ASSUME NEW j \in DOMAIN toHub', j \notin DOMAIN toHub
          PROVE  /\ toHub'[j].t \in {"event", "turn", "attachAck"}
                 /\ toHub'[j].t = "turn" => toHub'[j].replay
                 /\ toHub'[j].t = "attachAck" => toHub'[j].run = toWorker[1].run
                      /\ \A i \in DOMAIN toHub' : i <= j
                 /\ toHub'[j].t # "attachAck" => \E i \in DOMAIN toHub' : j < i /\ toHub'[i].t = "attachAck"
      <4>1. CASE j - Len(toHub) \in 1 .. n /\ toHub'[j] = Replay(c)[j - Len(toHub)]
        BY <3>2, <3>3, <3>5, <4>1 DEF Grown, AttachAck
      <4>2. CASE j = Len(toHub) + n + 1 /\ toHub'[j] = AttachAck(toWorker[1].run)
        BY <3>4, <4>2 DEF AttachAck
      <4>3. QED BY <3>2, <3>5, <4>1, <4>2
    <3>6. QED BY <2>3, <3>2, <3>5
  <2>4. QED BY <2>1, <2>2, <2>3
<1>5. link = "open" =>
         /\ attached /\ run[toWorker[1].run].pc = "attaching" /\ Attaching /\ NoRunTurn
         /\ toWorker[1].since # NoCursor => held /\ toWorker[1].since <= Seen
  <2> SUFFICES ASSUME link = "open"
               PROVE  /\ attached /\ run[toWorker[1].run].pc = "attaching" /\ Attaching /\ NoRunTurn
                      /\ toWorker[1].since # NoCursor => held /\ toWorker[1].since <= Seen
    OBVIOUS
  <2>1. attached
    BY <1>1 DEF IInv, ProtocolOK, SocketOK, ReadWorker
  <2>2. run[toWorker[1].run].pc = "attaching"
    BY <1>1, <2>1 DEF IInv, ProtocolOK, RunsOK, RunOK, RequestOf, ReadWorker
  <2>3. Attaching
    BY <1>1, <2>2 DEF Attaching
  <2>4. NoRunTurn
    BY <1>1, QueuesTyped DEF NoRunTurn, IInv, ProtocolOK, CallsOK, CallOK, ReadWorker
  <2>5. toWorker[1].since # NoCursor => held /\ toWorker[1].since <= Seen
    BY <1>1 DEF IInv, IngestOK, ReplayOK, ReadWorker
  <2>6. QED BY <2>1, <2>2, <2>3, <2>4, <2>5
<1>6. NoRunTurn' <=> NoRunTurn
  BY <1>1 DEF NoRunTurn, ReadWorker
<1>7. /\ \A i : IsTurn(i)' =>
           \/ i \in DOMAIN toHub /\ IsTurn(i) /\ toHub'[i] = toHub[i] /\ i \in DOMAIN toHub'
           \/ i \in DOMAIN toHub' /\ i \notin DOMAIN toHub /\ toHub'[i].t = "turn" /\ toHub'[i].replay
      /\ \A i : IsTurn(i) => IsTurn(i)' /\ i \in DOMAIN toHub /\ toHub'[i] = toHub[i] /\ i \in DOMAIN toHub'
      /\ \A i \in DOMAIN toHub, j \in DOMAIN toHub' : j \notin DOMAIN toHub => i < j
  BY <1>4 DEF IsTurn, Grown
<1>8. NextIsLive' => NextIsLive
  <2> SUFFICES ASSUME NextIsLive' PROVE NextIsLive
    OBVIOUS
  <2>1. CASE NoTurns' /\ turn' # "none"
    BY <1>2, <1>4, <2>1 DEF NextIsLive, NoTurns, Grown, worker
  <2>2. CASE \E i \in DOMAIN toHub' : FirstTurn(i)' /\ ~toHub'[i].replay
    BY <1>4, <1>7, <2>2 DEF FirstTurn, Grown, NextIsLive
  <2>3. QED BY <2>1, <2>2 DEF NextIsLive
<1>9. \A i \in DOMAIN toHub' : i \notin DOMAIN toHub /\ IsTurn(i)' /\ toHub'[i].kind # "started"
           /\ LastTurn(i)' /\ View => turn = "none"
  <2> SUFFICES ASSUME NEW i \in DOMAIN toHub', i \notin DOMAIN toHub, IsTurn(i)', toHub'[i].kind # "started", LastTurn(i)', View
               PROVE  ~activeTurn
    BY DEF View, IInv, ProtocolOK, TurnOK
  <2>1. link = "open" /\ toWorker[1].since # NoCursor /\ toHub'[i].t = "turn"
    BY <1>4 DEF View, IsTurn
  <2> DEFINE c == toWorker[1].since
  <2>2. c \in Nat /\ toWorker[1].run \in Runs /\ SendsReplay(c, toWorker[1].run)
    BY <1>1, <1>3, <2>1
  <2> HIDE DEF c
  <2>3. /\ i - Len(toHub) \in 1 .. Len(Replay(c)) /\ toHub'[i] = Replay(c)[i - Len(toHub)]
        /\ \A k \in 1 .. Len(Replay(c)) : Len(toHub) + k \in DOMAIN toHub'
             /\ toHub'[Len(toHub) + k] = Replay(c)[k]
        /\ i \in Nat /\ Len(toHub) \in Nat
    <3>1. /\ Grown
          /\ \A k \in 1 .. Len(Replay(c)) : Len(toHub) + k \in DOMAIN toHub'
               /\ toHub'[Len(toHub) + k] = Replay(c)[k]
          /\ \A j \in DOMAIN toHub' : j \notin DOMAIN toHub =>
               \/ j - Len(toHub) \in 1 .. Len(Replay(c)) /\ toHub'[j] = Replay(c)[j - Len(toHub)]
               \/ j = Len(toHub) + Len(Replay(c)) + 1 /\ toHub'[j] = AttachAck(toWorker[1].run)
      BY <2>1, <2>2, ReplaySent
    <3>2. AttachAck(toWorker[1].run).t # "turn"
      BY DEF AttachAck
    <3>3. QED BY <2>1, <3>1, <3>2 DEF Grown
  <2>4. ReplayedMark(c, i - Len(toHub))
    BY <2>1, <2>2, <2>3, ReplayFrames DEF ReplayedEvent
  <2>5. ASSUME activeTurn
        PROVE  FALSE
    <3>1. PICK k \in 1 .. Len(Replay(c)) : i - Len(toHub) < k /\ Replay(c)[k].t = "turn"
      BY <2>3, <2>4, <2>5 DEF ReplayedMark
    <3>2. PICK m \in DOMAIN toHub' : m = Len(toHub) + k /\ toHub'[m] = Replay(c)[k]
      BY <2>3, <3>1
    <3>3. IsTurn(m)'
      BY <3>1, <3>2 DEF IsTurn
    <3>4. m > i
      BY <2>3, <3>1, <3>2
    <3>5. m <= i
      BY <3>2, <3>3 DEF LastTurn
    <3>6. QED BY <2>3, <3>1, <3>2, <3>4, <3>5
  <2>6. QED BY <2>5
<1>10. LiveMarksOK'
  <2> SUFFICES ASSUME View', NEW i \in DOMAIN toHub', IsTurn(i)', ~toHub'[i].replay
               PROVE  IF toHub'[i].kind = "started" THEN \A j \in DOMAIN toHub' : IsTurn(j)' => i <= j
                      ELSE turn' = "none" /\ \A j \in DOMAIN toHub' : IsTurn(j)' /\ i < j => toHub'[j].replay
    BY DEF LiveMarksOK
  <2>1. View /\ turn' = turn
    BY <1>2 DEF View, worker
  <2>2. i \in DOMAIN toHub /\ IsTurn(i) /\ toHub'[i] = toHub[i] /\ ~toHub[i].replay
    BY <1>4, <1>7 DEF Grown
  <2>3. IF toHub[i].kind = "started" THEN \A j \in DOMAIN toHub : IsTurn(j) => i <= j
        ELSE turn = "none" /\ \A j \in DOMAIN toHub : IsTurn(j) /\ i < j => toHub[j].replay
    BY <2>1, <2>2 DEF IInv, ViewOK, LiveMarksOK
  <2>4. \A j \in DOMAIN toHub' : IsTurn(j)' => (j \in DOMAIN toHub /\ IsTurn(j) /\ toHub'[j] = toHub[j])
             \/ (i <= j /\ toHub'[j].replay)
    BY <1>4, <1>7, <2>2 DEF Grown
  <2>5. QED BY <2>1, <2>2, <2>3, <2>4
<1>11. ReplayedOK'
  <2> SUFFICES ASSUME NEW i \in DOMAIN toHub', IsTurn(i)', toHub'[i].replay
               PROVE  /\ \E j \in DOMAIN toHub' : i < j /\ toHub'[j].t = "attachAck"
                      /\ View' /\ toHub'[i].kind # "started" =>
                           /\ LastTurn(i)' => turn' = "none"
                           /\ \A j \in DOMAIN toHub' : IsTurn(j)' /\ i < j /\ ~toHub'[j].replay =>
                                \E k \in DOMAIN toHub' : IsTurn(k)' /\ i < k /\ k < j
    BY DEF ReplayedOK
  <2>0. (View' <=> View) /\ turn' = turn
    BY <1>2 DEF View, worker
  <2>1. CASE i \notin DOMAIN toHub
    BY <1>4, <1>7, <1>9, <2>0, <2>1 DEF IsTurn, Grown
  <2>2. CASE i \in DOMAIN toHub
    <3>1. IsTurn(i) /\ toHub'[i] = toHub[i] /\ toHub[i].replay
      BY <1>4, <1>7, <2>2 DEF Grown
    <3>2. PICK j \in DOMAIN toHub : i < j /\ toHub[j].t = "attachAck"
      BY <2>2, <3>1 DEF IInv, ViewOK, ReplayedOK
    <3>3. LastTurn(i)' => LastTurn(i)
      BY <1>4, <1>7, <3>1 DEF LastTurn, Grown
    <3>4. View /\ toHub[i].kind # "started" =>
            /\ LastTurn(i) => turn = "none"
            /\ \A l \in DOMAIN toHub : IsTurn(l) /\ i < l /\ ~toHub[l].replay =>
                 \E k \in DOMAIN toHub : IsTurn(k) /\ i < k /\ k < l
      BY <2>2, <3>1 DEF IInv, ViewOK, ReplayedOK
    <3>5. ASSUME View, toHub[i].kind # "started", NEW l \in DOMAIN toHub', IsTurn(l)', i < l, ~toHub'[l].replay
          PROVE  \E k \in DOMAIN toHub' : IsTurn(k)' /\ i < k /\ k < l
      BY <1>4, <1>7, <3>4, <3>5 DEF Grown
    <3>6. \E k \in DOMAIN toHub' : i < k /\ toHub'[k].t = "attachAck"
      BY <1>4, <3>2 DEF Grown
    <3>7. QED BY <2>0, <3>1, <3>3, <3>4, <3>5, <3>6
  <2>3. QED BY <2>1, <2>2
<1>12. Ingested
  BY <1>2, Typed, FlushKeeps DEF Flushes, durable, hub, worker
<1>13. /\ FramesOK' /\ TruthOK'
       /\ link = "open" /\ synced' => \A w \in produced[Era] :
            w <= Seen' \/ \E j \in DOMAIN toHub' : Tells(toHub'[j], Era', w)
  <2>1. CASE toWorker[1].since = NoCursor \/ link # "open"
    BY <1>2, <1>4, <1>6, <1>12, <2>1, Typed, OthersSent DEF durable, hub, worker
  <2>2. CASE toWorker[1].since # NoCursor /\ link = "open"
    <3> DEFINE c == toWorker[1].since
    <3>1. c \in Nat /\ toWorker[1].run \in Runs /\ SendsReplay(c, toWorker[1].run) /\ held /\ c <= Seen
      BY <1>1, <1>3, <1>5, <2>2
    <3> HIDE DEF c
    <3>2. \A i \in DOMAIN toHub : IsEvent(i) => toHub[i].era = Era
      BY <3>1, EraOnWire
    <3>3. /\ Grown
          /\ \A k \in 1 .. Len(Replay(c)) :
               Len(toHub) + k \in DOMAIN toHub' /\ toHub'[Len(toHub) + k] = Replay(c)[k]
          /\ \A j \in DOMAIN toHub' : j \notin DOMAIN toHub /\ toHub'[j].t = "event" =>
               j - Len(toHub) \in 1 .. Len(Replay(c)) /\ toHub'[j] = Replay(c)[j - Len(toHub)]
      <4>1. /\ Grown
            /\ \A k \in 1 .. Len(Replay(c)) : Len(toHub) + k \in DOMAIN toHub'
                 /\ toHub'[Len(toHub) + k] = Replay(c)[k]
            /\ \A j \in DOMAIN toHub' : j \notin DOMAIN toHub =>
                 \/ j - Len(toHub) \in 1 .. Len(Replay(c)) /\ toHub'[j] = Replay(c)[j - Len(toHub)]
                 \/ j = Len(toHub) + Len(Replay(c)) + 1 /\ toHub'[j] = AttachAck(toWorker[1].run)
        BY <2>2, <3>1, ReplaySent
      <4>2. AttachAck(toWorker[1].run).t # "event"
        BY DEF AttachAck
      <4>3. QED BY <4>1, <4>2
    <3>4. /\ \A k \in 1 .. Len(Replay(c)) : ReplayedEvent(c, k) \/ ReplayedMark(c, k)
          /\ \A w \in produced[Era] : w > c => \E k \in 1 .. Len(Replay(c)) : Tells(Replay(c)[k], Era, w)
          /\ Len(Replay(c)) \in Nat
      BY <3>1, ReplayFrames
    <3>5. /\ Era' = Era /\ Seen' = Seen /\ Seen \in Nat /\ Era \in Nat /\ Era >= 1
          /\ UNCHANGED <<ring, held, turn, produced, link, retired>>
          /\ \A w \in produced[Era] : w \in Nat
      BY <1>2, <1>12, Typed, RowsTyped DEF Ingested, worker, durable
    <3>6. ASSUME NEW j \in DOMAIN toHub', j \notin DOMAIN toHub, toHub'[j].t = "event"
          PROVE  /\ toHub'[j].era = Era
                 /\ FrameOK(j)'
      <4>1. ReplayedEvent(c, j - Len(toHub)) /\ j - Len(toHub) \in 1 .. Len(Replay(c))
                 /\ toHub'[j] = Replay(c)[j - Len(toHub)]
        BY <3>3, <3>4, <3>6 DEF ReplayedMark
      <4>2. toHub'[j].era = Era /\ toHub'[j].wseq \in Nat /\ toHub'[j].wseq > 0 /\ toHub'[j].wseq <= ring.last
        BY <4>1 DEF ReplayedEvent
      <4>3. ASSUME toHub'[j].kind # "gap", NEW w \in produced[Era], w < toHub'[j].wseq
            PROVE  w <= Seen \/ \E i \in DOMAIN toHub' : i < j /\ Tells(toHub'[i], Era, w)
        <5>1. CASE w <= c
          BY <3>1, <3>5, <5>1
        <5>2. CASE w > c
          <6>1. PICK k \in 1 .. Len(Replay(c)) : k < j - Len(toHub) /\ Tells(Replay(c)[k], Era, w)
            BY <3>1, <3>5, <4>1, <4>3, <5>2 DEF ReplayedEvent
          <6>2. Len(toHub) + k \in DOMAIN toHub' /\ toHub'[Len(toHub) + k] = Replay(c)[k]
            BY <3>3
          <6>3. Len(toHub) + k < j
            BY <3>3, <3>6, <6>1 DEF Grown
          <6>4. QED BY <6>1, <6>2, <6>3
        <5>3. QED BY <3>1, <3>5, <5>1, <5>2
      <4>4. toHub'[j].kind # "gap" => toHub'[j].wseq \in produced[Era]
        BY <4>1 DEF ReplayedEvent
      <4>5. FrameOK(j)'
        BY <3>5, <4>2, <4>3, <4>4 DEF FrameOK
      <4>6. QED BY <4>2, <4>5
    <3>7. ASSUME NEW j \in DOMAIN toHub, IsEvent(j)
          PROVE  FrameOK(j)'
      BY <3>2, <3>3, <3>5, <3>7 DEF IInv, IngestOK, FramesOK, Grown, FrameOK
    <3>8. \A i : IsEvent(i)' => (i \in DOMAIN toHub /\ IsEvent(i) /\ toHub'[i] = toHub[i])
               \/ (i \in DOMAIN toHub' /\ i \notin DOMAIN toHub /\ toHub'[i].t = "event")
      BY <3>3 DEF IsEvent, Grown
    <3>9. FramesOK'
      BY <3>2, <3>6, <3>7, <3>8 DEF FramesOK
    <3>10. TruthOK'
      BY <1>12, <3>2, <3>6, <3>8, TruthKept
    <3>11. \A w \in produced[Era] : w <= Seen' \/ \E j \in DOMAIN toHub' : Tells(toHub'[j], Era', w)
      <4> TAKE w \in produced[Era]
      <4>1. CASE w <= c
        BY <3>1, <3>5, <4>1
      <4>2. CASE w > c
        BY <3>3, <3>4, <3>5, <4>2
      <4>3. QED BY <3>1, <3>5, <4>1, <4>2
    <3>12. QED BY <3>9, <3>10, <3>11
  <2>3. QED BY <2>1, <2>2
<1>14. Ingested
  BY <1>12
<1>15. SocketOK'
  BY <1>1, <1>2, <1>4, <1>5, <1>6 DEF IInv, ProtocolOK, SocketOK, ReadWorker, Grown, durable, hub,
     worker
<1>16. ProcessesOK'
  BY <1>1, <1>2, <1>4, <1>5, <1>6 DEF IInv, ProtocolOK, ProcessesOK, ReadWorker, Grown, durable,
     hub, worker
<1>17. RunsOK'
  <2> SUFFICES ASSUME attached, NEW q \in Runs PROVE RunOK(q)'
    BY <1>2 DEF RunsOK, hub
  <2>1. RunOK(q) /\ run' = run
    BY <1>2 DEF IInv, ProtocolOK, RunsOK, hub
  <2>2. \A i \in DOMAIN toWorker' : RequestOf(i, q)' => i + 1 \in DOMAIN toWorker /\ RequestOf(i + 1, q)
             /\ toWorker'[i] = toWorker[i + 1] /\ i \in Nat /\ i + 1 # 1
    BY <1>1 DEF RequestOf, ReadWorker
  <2>3. CASE q # toWorker[1].run
    <3>1. \A i \in DOMAIN toHub' : AnswerOf(i, q)' => i \in DOMAIN toHub /\ AnswerOf(i, q)
               /\ toHub'[i] = toHub[i]
      BY <1>4, <2>3 DEF AnswerOf, Grown
    <3>2. QED BY <2>1, <2>2, <3>1 DEF RunOK
  <2>4. CASE q = toWorker[1].run
    <3>1. /\ \A i \in DOMAIN toWorker' : ~RequestOf(i, q)'
          /\ \A i \in DOMAIN toHub : ~AnswerOf(i, q)
      BY <1>1, <2>1, <2>2, <2>4 DEF RunOK, RequestOf, ReadWorker
    <3>2. \A i \in DOMAIN toHub' : AnswerOf(i, q)' =>
            toHub'[i].t = "attachAck" /\ link = "open" /\ \A j \in DOMAIN toHub' : j <= i
      BY <1>4, <3>1 DEF AnswerOf, Grown
    <3>3. \A i, j \in DOMAIN toHub' : AnswerOf(i, q)' /\ AnswerOf(j, q)' => i = j
      BY <1>4, <3>2 DEF Grown
    <3>4. QED BY <1>5, <2>1, <2>4, <3>1, <3>2, <3>3 DEF RunOK
  <2>5. QED BY <2>3, <2>4
<1>18. CallsOK'
  BY <1>1, <1>2, <1>4, <1>5, <1>6 DEF IInv, ProtocolOK, CallsOK, CallOK, ReadWorker, Grown, durable,
     hub, worker
<1>19. StopOK'
  BY <1>1, <1>2, <1>4, <1>5, <1>6 DEF IInv, ProtocolOK, StopOK, NoRunTurn, ReadWorker, Grown,
     durable, hub, worker
<1>20. TurnOK'
  BY <1>1, <1>2, <1>4, <1>5, <1>6 DEF IInv, ProtocolOK, TurnOK, NoRunTurn, Attaching, ReadWorker,
     Grown, durable, hub, worker
<1>21. HeldOK'
  BY <1>2, <1>4, <1>5 DEF IInv, HeldOK, Recorded, ReadWorker, Grown, durable, hub, worker
<1>22. SentOK'
  BY <1>2, <1>5, <1>6 DEF IInv, SentOK, View, NoRunTurn, ReadWorker, Grown, durable, hub, worker
<1>23. LiveMarksOK'
  BY <1>10
<1>24. ReplayedOK'
  BY <1>11
<1>25. BusyOK'
  BY <1>2, <1>8 DEF IInv, ViewOK, BusyOK, View, hub, durable, worker
<1>26. ReportOK'
  BY <1>2, <1>4, <1>7 DEF ReportOK, View, worker, hub, Grown, IInv, ViewOK, Recorded
<1>27. MarksOK'
  BY <1>1, <1>2, <1>5, <1>6, <1>12, Typed DEF IInv, IngestOK, MarksOK, Begun, NoRunTurn, Attaching,
     Ingested, ReadWorker, Grown, durable, hub, worker
<1>28. TruthOK'
  BY <1>13
<1>29. PendingOK'
  BY <1>14 DEF Ingested
<1>30. NumbersOK'
  BY <1>2, <1>12 DEF IInv, IngestOK, NumbersOK, WorkerRow, Ingested, ReadWorker, Grown, durable,
     hub, worker
<1>31. FramesOK'
  BY <1>13
<1>32. UnheldOK'
  BY <1>2, <1>4, <1>5, <1>12, Typed DEF IInv, IngestOK, UnheldOK, WorkerRow, IsEvent, Ingested,
     ReadWorker, Grown, durable, hub, worker
<1>33. ReplayOK'
  BY <1>1, <1>2, <1>13, <1>12 DEF IInv, IngestOK, ReplayOK, Ingested, ReadWorker, durable, hub, worker
<1>34. NoSilentLoss'
  BY <1>14 DEF Ingested
<1>35. ResetBetweenEras'
  BY <1>14 DEF Ingested
<1>36. QED
  BY <1>15, <1>16, <1>17, <1>18, <1>19, <1>20, <1>21, <1>22, <1>23, <1>24, <1>25, <1>26, <1>27,
     <1>28, <1>29, <1>30, <1>31, <1>32, <1>33, <1>34, <1>35 DEF ProtocolOK, ViewOK, IngestOK

\* A turn begins, or the resumption of its thread.
LEMMA HandleRunTurnKeeps ==
  ASSUME Ordinary, IInv, HandleRunTurn
  PROVE  ProtocolOK' /\ HeldOK' /\ ViewOK' /\ IngestOK'
<1>1. ReadWorker /\ toWorker[1].t = "runTurn" /\ toWorker[1].call \in Nat /\ link \in {"open", "hubGone"}
      /\ Head(toWorker) = toWorker[1]
  BY CommandRead, CommandFields DEF HandleRunTurn, IInv
<1>2. /\ UNCHANGED <<provider, durable, hub, produced, link, synced, doubtful, turns>>
      /\ turn = "none" /\ accepting' = toWorker[1].call /\ activeTurn' = TRUE
      /\ \/ turn' = "live" /\ held' = TRUE /\ (held \/ provider = "claude")
         \/ turn' = "resuming" /\ ~held /\ ~held' /\ provider = "codex"
  BY <1>1, Typed, ProvidersAssumption DEF HandleRunTurn
<1>3. Grown /\ (link # "open" => toHub' = toHub)
      /\ \A j \in DOMAIN toHub' : j \notin DOMAIN toHub =>
           \/ /\ toHub'[j].t = "turn" /\ toHub'[j].kind = "started" /\ ~toHub'[j].replay
              /\ j = Len(toHub) + 1
           \/ toHub'[j].t = "ack" /\ toHub'[j].call = toWorker[1].call /\ turn' = "live"
  BY <1>1, OneSent, TwoSent, NothingSent DEF HandleRunTurn, SendsOne, SendsTwo, TurnMsg, AckMsg, IInv
<1>4. ring'.last = ring.last + 1 /\ Numbered(ring', produced[Era]) /\ StartedLast(ring')
  <2>1. ring' = RingAppend(ring, "started") /\ "started" \in RingKinds /\ "started" \notin {"text", "delta"}
    BY DEF HandleRunTurn, RingKinds
  <2>2. WellFormed(ring, RingKinds) /\ Numbered(ring, produced[Era]) /\ produced[Era] \in SUBSET Nat
    BY RowsTyped, Typed DEF IInv, TypeInv, IngestOK, NumbersOK
  <2>3. ring'.last = ring.last + 1
    BY <2>1, <2>2, RingShift
  <2>4. Numbered(ring', produced[Era])
    BY <2>1, <2>2, NumberedAppend
  <2>5. StartedLast(ring')
    BY <2>1, <2>2, StartedLastAppend
  <2>6. QED BY <2>3, <2>4, <2>5
<1>5. ~NoRunTurn /\ \A i \in DOMAIN toHub : IsEvent(i) => toHub[i].era = Era
  BY <1>1, EraOnWire DEF NoRunTurn, ReadWorker
<1>6. /\ \A i \in DOMAIN toHub : toHub[i].t \notin {"live", "attachAck"} /\ ~(IsTurn(i) /\ toHub[i].replay)
      /\ \A r \in Runs : ~Recorded(r)
      /\ link = "open" => CallOK(1)
      /\ \A i \in DOMAIN toWorker : toWorker[i].t # "stopSession"
      /\ View => busy /\ NoTurns /\ \A i \in DOMAIN toWorker' : toWorker'[i].t # "runTurn"
  <2>1. link = "open" => CallOK(1)
    BY <1>1 DEF IInv, ProtocolOK, CallsOK, ReadWorker
  <2>2. link # "open" => toHub = << >> /\ DOMAIN toHub = {} /\ \A r \in Runs : run[r].pc \in {"none", "ready"}
    BY <1>1 DEF IInv, ProtocolOK, SocketOK
  <2>3. \A i \in DOMAIN toHub : toHub[i].t \notin {"live", "attachAck"}
    BY <2>1, <2>2 DEF CallOK
  <2>4. \A i \in DOMAIN toHub : ~(IsTurn(i) /\ toHub[i].replay)
    BY <2>3 DEF IInv, ViewOK, ReplayedOK
  <2>5. \A r \in Runs : ~Recorded(r)
    BY <2>1, <2>2 DEF CallOK, HeardPcs, Recorded
  <2>6. \A i \in DOMAIN toWorker : toWorker[i].t # "stopSession"
    BY <1>1, <1>5 DEF IInv, ProtocolOK, StopOK
  <2>7. View => busy /\ NoTurns /\ \A i \in DOMAIN toWorker' : toWorker'[i].t # "runTurn"
    BY <1>1 DEF IInv, ViewOK, SentOK, ReadWorker
  <2>8. QED BY <2>1, <2>3, <2>4, <2>5, <2>6, <2>7
<1>7. Ingested
  BY <1>1, <1>2, <1>3, <1>4, <1>5, <1>6, Typed, FlushKeeps DEF Flushes, ReadWorker, Grown, durable,
     hub
<1>8. /\ FramesOK' /\ TruthOK'
      /\ link = "open" /\ synced => \A w \in produced[Era] :
           w <= Seen' \/ \E j \in DOMAIN toHub' : Tells(toHub'[j], Era', w)
  BY <1>1, <1>2, <1>3, <1>4, <1>5, <1>6, <1>7, Typed, OthersSent DEF NoRunTurn, ReadWorker, Grown,
     durable, hub
<1>9. SocketOK'
  BY <1>1, <1>2, <1>3 DEF IInv, ProtocolOK, SocketOK, ReadWorker, Grown, durable, hub
<1>10. ProcessesOK'
  BY <1>1, <1>2, <1>3, <1>4, <1>5, <1>6, <1>7 DEF IInv, ProtocolOK, ProcessesOK, ReadWorker, Grown,
     durable, hub
<1>11. RunsOK'
  BY <1>1, <1>2, <1>3, <1>4, <1>5, <1>6, <1>7 DEF IInv, ProtocolOK, RunsOK, RunOK, RequestOf,
     AnswerOf, ReadWorker, Grown, durable, hub
<1>12. CallsOK'
  <2>1. \A i \in DOMAIN toWorker' : toWorker'[i].t = "runTurn" =>
          i \in Nat /\ i + 1 \in DOMAIN toWorker /\ toWorker'[i] = toWorker[i + 1] /\ i + 1 # 1
               /\ toWorker[i + 1].t = "runTurn"
    BY <1>1 DEF ReadWorker
  <2>2. toWorker[1].call \in 1 .. turns
    BY <1>1 DEF IInv, ProtocolOK, CallsOK, ReadWorker
  <2>3. calling' <= turns' /\ accepting' <= turns'
    BY <1>2, <2>2, Typed DEF IInv, ProtocolOK, CallsOK, hub
  <2>4. \A i \in DOMAIN toHub' : toHub'[i].t = "ack" => toHub'[i].call <= turns'
    BY <1>2, <1>3, <2>2 DEF IInv, ProtocolOK, CallsOK, Grown
  <2>5. \A i \in DOMAIN toWorker' : toWorker'[i].t = "runTurn" => toWorker'[i].call \in 1 .. turns'
    BY <1>2, <2>1 DEF IInv, ProtocolOK, CallsOK
  <2>6. ASSUME link = "open", NEW i \in DOMAIN toWorker', toWorker'[i].t = "runTurn"
        PROVE  CallOK(i)'
    <3>1. CallOK(i + 1) /\ toWorker'[i] = toWorker[i + 1] /\ i + 1 \in DOMAIN toWorker /\ i \in Nat
      BY <2>1, <2>6 DEF IInv, ProtocolOK, CallsOK
    <3>2. toWorker[1].call # toWorker'[i].call
      BY <1>1, <2>1, <2>6, <3>1 DEF CallOK, ReadWorker
    <3>3. \A j \in DOMAIN toWorker' :
            /\ toWorker'[j].t = "runTurn" /\ toWorker'[j].call = toWorker'[i].call => j = i
            /\ toWorker'[j].t \in {"listLive", "attach"} => i < j
      BY <1>1, <2>1, <3>1 DEF CallOK, ReadWorker
    <3>4. \A j \in DOMAIN toHub' : toHub'[j].t \notin {"live", "attachAck"}
               /\ (toHub'[j].t = "ack" => toHub'[j].call # toWorker'[i].call)
      BY <1>3, <3>1, <3>2 DEF CallOK, Grown
    <3>5. calling' = toWorker'[i].call \/ doubtful'
      BY <1>2, <3>1 DEF CallOK, hub
    <3>6. \A r \in Runs : run'[r].pc \notin HeardPcs
      BY <1>2, <3>1 DEF CallOK, hub
    <3>7. QED BY <1>2, <3>2, <3>3, <3>4, <3>5, <3>6 DEF CallOK
  <2>7. QED BY <1>2, <2>3, <2>4, <2>5, <2>6 DEF CallsOK
<1>13. StopOK'
  BY <1>1, <1>2, <1>3, <1>4, <1>5, <1>6, <1>7 DEF IInv, ProtocolOK, StopOK, NoRunTurn, ReadWorker,
     Grown, durable, hub
<1>14. TurnOK'
  BY <1>1, <1>2, <1>3, <1>4, <1>5, <1>6, <1>7 DEF IInv, ProtocolOK, TurnOK, NoRunTurn, Attaching,
     ReadWorker, Grown, durable, hub
<1>15. HeldOK'
  BY <1>1, <1>2, <1>3, <1>4, <1>5, <1>6, <1>7 DEF IInv, HeldOK, Recorded, ReadWorker, Grown,
     durable, hub
<1>16. SentOK'
  BY <1>1, <1>2, <1>3, <1>4, <1>5, <1>6, <1>7 DEF IInv, ViewOK, SentOK, View, NoTurns, ReadWorker,
     Grown, durable, hub
<1>17. LiveMarksOK'
  BY <1>2, <1>3, <1>6 DEF LiveMarksOK, View, NoTurns, IsTurn, Grown
<1>18. ReplayedOK'
  BY <1>1, <1>2, <1>3, <1>4, <1>5, <1>6, <1>7 DEF IInv, ViewOK, ReplayedOK, View, IsTurn, LastTurn,
     ReadWorker, Grown, durable, hub
<1>19. BusyOK'
  BY <1>1, <1>2, <1>3, <1>4, <1>5, <1>6, <1>7 DEF IInv, ViewOK, BusyOK, NextIsLive, NoTurns,
     FirstTurn, View, IsTurn, ReadWorker, Grown, durable, hub
<1>20. ReportOK'
  BY <1>1, <1>2, <1>3, <1>4, <1>5, <1>6, <1>7 DEF IInv, ViewOK, ReportOK, View, IsTurn, Recorded,
     ReadWorker, Grown, durable, hub
<1>21. MarksOK'
  BY <1>1, <1>2, <1>3, <1>4, <1>5, <1>6, <1>7, Typed DEF IInv, IngestOK, MarksOK, Begun, NoRunTurn,
     Attaching, Ingested, ReadWorker, Grown, durable, hub
<1>22. TruthOK'
  BY <1>8
<1>23. PendingOK'
  BY <1>7 DEF Ingested
<1>24. NumbersOK'
  BY <1>2, <1>4, <1>7, Typed, RowsTyped DEF IInv, IngestOK, NumbersOK, WorkerRow, Ingested, Rows,
     ReadWorker, Grown, durable, hub
<1>25. FramesOK'
  BY <1>8
<1>26. UnheldOK'
  BY <1>1, <1>2, <1>3, <1>4, <1>5, <1>6, <1>7, Typed DEF IInv, IngestOK, UnheldOK, WorkerRow,
     IsEvent, Ingested, ReadWorker, Grown, durable, hub
<1>27. ReplayOK'
  BY <1>1, <1>2, <1>3, <1>4, <1>5, <1>6, <1>7, <1>8 DEF IInv, IngestOK, ReplayOK, Ingested,
     ReadWorker, Grown, durable, hub
<1>28. NoSilentLoss'
  BY <1>7 DEF Ingested
<1>29. ResetBetweenEras'
  BY <1>7 DEF Ingested
<1>30. QED
  BY <1>9, <1>10, <1>11, <1>12, <1>13, <1>14, <1>15, <1>16, <1>17, <1>18, <1>19, <1>20, <1>21,
     <1>22, <1>23, <1>24, <1>25, <1>26, <1>27, <1>28, <1>29 DEF ProtocolOK, ViewOK, IngestOK

\* A second turn is announced and refused, which only a given-up call leads to.
LEMMA RefuseRunTurnKeeps ==
  ASSUME Ordinary, IInv, RefuseRunTurn
  PROVE  ProtocolOK' /\ HeldOK' /\ ViewOK' /\ IngestOK'
<1>1. ReadWorker /\ toWorker[1].t = "runTurn" /\ toWorker[1].call \in Nat /\ link \in {"open", "hubGone"}
      /\ Head(toWorker) = toWorker[1]
  BY CommandRead, CommandFields DEF RefuseRunTurn, IInv
<1>2. /\ UNCHANGED <<provider, durable, hub, turn, accepting, produced, link, synced, doubtful, turns>>
      /\ turn = "live" /\ held /\ held' /\ ~activeTurn'
  BY DEF RefuseRunTurn, IInv, ProtocolOK, TurnOK
<1>3. Grown /\ (link # "open" => toHub' = toHub)
      /\ \A j \in DOMAIN toHub' : j \notin DOMAIN toHub =>
           \/ toHub'[j].t = "turn" /\ ~toHub'[j].replay
           \/ toHub'[j].t = "ack" /\ toHub'[j].call = toWorker[1].call
  BY <1>1, ThreeSent, NothingSent DEF RefuseRunTurn, SendsThree, TurnMsg, AckMsg, IInv
<1>4. ring'.last \in Nat /\ ring'.last > ring.last /\ Numbered(ring', produced[Era])
  <2> DEFINE mid == RingAppend(ring, "started")
  <2>1. ring' = RingAppend(mid, "errored")
    BY DEF RefuseRunTurn
  <2>2. {"started", "errored"} \subseteq RingKinds /\ {"started", "errored"} \cap {"text", "delta"} = {}
    BY DEF RingKinds
  <2>3. WellFormed(ring, RingKinds) /\ Numbered(ring, produced[Era]) /\ produced[Era] \in SUBSET Nat
    BY RowsTyped, Typed DEF IInv, TypeInv, IngestOK, NumbersOK
  <2>4. WellFormed(mid, RingKinds) /\ mid.last = ring.last + 1 /\ ring.last \in Nat
    BY <2>2, <2>3, RingShift
  <2>5. Numbered(mid, produced[Era])
    BY <2>2, <2>3, NumberedAppend
  <2> HIDE DEF mid
  <2>6. ring'.last \in Nat /\ ring'.last > ring.last
    BY <2>1, <2>2, <2>4, RingShift
  <2>7. Numbered(ring', produced[Era])
    BY <2>1, <2>2, <2>3, <2>4, <2>5, NumberedAppend
  <2>8. QED BY <2>6, <2>7
<1>5. ~NoRunTurn /\ \A i \in DOMAIN toHub : IsEvent(i) => toHub[i].era = Era
  BY <1>1, EraOnWire DEF NoRunTurn, ReadWorker
<1>6. /\ \A i \in DOMAIN toHub : toHub[i].t \notin {"live", "attachAck"} /\ ~(IsTurn(i) /\ toHub[i].replay)
      /\ \A r \in Runs : ~Recorded(r)
      /\ link = "open" => CallOK(1)
      /\ \A i \in DOMAIN toWorker : toWorker[i].t # "stopSession"
      /\ ~View
  <2>1. link = "open" => CallOK(1)
    BY <1>1 DEF IInv, ProtocolOK, CallsOK, ReadWorker
  <2>2. link # "open" => toHub = << >> /\ DOMAIN toHub = {} /\ \A r \in Runs : run[r].pc \in {"none", "ready"}
    BY <1>1 DEF IInv, ProtocolOK, SocketOK
  <2>3. \A i \in DOMAIN toHub : toHub[i].t \notin {"live", "attachAck"}
    BY <2>1, <2>2 DEF CallOK
  <2>4. \A i \in DOMAIN toHub : ~(IsTurn(i) /\ toHub[i].replay)
    BY <2>3 DEF IInv, ViewOK, ReplayedOK
  <2>5. \A r \in Runs : ~Recorded(r)
    BY <2>1, <2>2 DEF CallOK, HeardPcs, Recorded
  <2>6. \A i \in DOMAIN toWorker : toWorker[i].t # "stopSession"
    BY <1>1, <1>5 DEF IInv, ProtocolOK, StopOK
  <2>7. ~View
    BY <1>1, <1>2 DEF IInv, ViewOK, SentOK, ReadWorker
  <2>8. QED BY <2>1, <2>3, <2>4, <2>5, <2>6, <2>7
<1>7. Ingested
  BY <1>1, <1>2, <1>3, <1>4, <1>5, <1>6, Typed, FlushKeeps DEF Flushes, ReadWorker, Grown, durable,
     hub
<1>8. /\ FramesOK' /\ TruthOK'
      /\ link = "open" /\ synced => \A w \in produced[Era] :
           w <= Seen' \/ \E j \in DOMAIN toHub' : Tells(toHub'[j], Era', w)
  BY <1>1, <1>2, <1>3, <1>4, <1>5, <1>6, <1>7, Typed, OthersSent DEF NoRunTurn, ReadWorker, Grown,
     durable, hub
<1>9. SocketOK'
  BY <1>1, <1>2, <1>3 DEF IInv, ProtocolOK, SocketOK, ReadWorker, Grown, durable, hub
<1>10. ProcessesOK'
  BY <1>1, <1>2, <1>3, <1>4, <1>5, <1>6, <1>7 DEF IInv, ProtocolOK, ProcessesOK, ReadWorker, Grown,
     durable, hub
<1>11. RunsOK'
  <2> SUFFICES ASSUME attached, NEW r \in Runs PROVE RunOK(r)'
    BY <1>2 DEF RunsOK, hub
  <2>1. RunOK(r) /\ run'[r].pc = run[r].pc
    BY <1>2 DEF IInv, ProtocolOK, RunsOK, hub
  <2>2. \A i \in DOMAIN toHub' : ~AnswerOf(i, r)'
    BY <1>3, <1>6 DEF AnswerOf, Grown
  <2>3. \A i \in DOMAIN toWorker' : RequestOf(i, r)' => i \in Nat /\ i + 1 \in DOMAIN toWorker
             /\ RequestOf(i + 1, r) /\ toWorker'[i] = toWorker[i + 1]
    BY <1>1 DEF RequestOf, ReadWorker
  <2>4. QED BY <2>1, <2>2, <2>3 DEF RunOK
<1>12. CallsOK'
  <2>1. \A i \in DOMAIN toWorker' : toWorker'[i].t = "runTurn" =>
          i \in Nat /\ i + 1 \in DOMAIN toWorker /\ toWorker'[i] = toWorker[i + 1] /\ i + 1 # 1
               /\ toWorker[i + 1].t = "runTurn"
    BY <1>1 DEF ReadWorker
  <2>2. toWorker[1].call \in 1 .. turns
    BY <1>1 DEF IInv, ProtocolOK, CallsOK, ReadWorker
  <2>3. calling' <= turns' /\ accepting' <= turns'
    BY <1>2, <2>2, Typed DEF IInv, ProtocolOK, CallsOK, hub
  <2>4. \A i \in DOMAIN toHub' : toHub'[i].t = "ack" => toHub'[i].call <= turns'
    BY <1>2, <1>3, <2>2 DEF IInv, ProtocolOK, CallsOK, Grown
  <2>5. \A i \in DOMAIN toWorker' : toWorker'[i].t = "runTurn" => toWorker'[i].call \in 1 .. turns'
    BY <1>2, <2>1 DEF IInv, ProtocolOK, CallsOK
  <2>6. ASSUME link = "open", NEW i \in DOMAIN toWorker', toWorker'[i].t = "runTurn"
        PROVE  CallOK(i)'
    <3>1. CallOK(i + 1) /\ toWorker'[i] = toWorker[i + 1] /\ i + 1 \in DOMAIN toWorker /\ i \in Nat
      BY <2>1, <2>6 DEF IInv, ProtocolOK, CallsOK
    <3>2. toWorker[1].call # toWorker'[i].call
      BY <1>1, <2>1, <2>6, <3>1 DEF CallOK, ReadWorker
    <3>3. \A j \in DOMAIN toWorker' :
            /\ toWorker'[j].t = "runTurn" /\ toWorker'[j].call = toWorker'[i].call => j = i
            /\ toWorker'[j].t \in {"listLive", "attach"} => i < j
      BY <1>1, <2>1, <3>1 DEF CallOK, ReadWorker
    <3>4. \A j \in DOMAIN toHub' : toHub'[j].t \notin {"live", "attachAck"}
               /\ (toHub'[j].t = "ack" => toHub'[j].call # toWorker'[i].call)
      BY <1>3, <3>1, <3>2 DEF CallOK, Grown
    <3>5. calling' = toWorker'[i].call \/ doubtful'
      BY <1>2, <3>1 DEF CallOK, hub
    <3>6. \A r \in Runs : run'[r].pc \notin HeardPcs
      BY <1>2, <3>1 DEF CallOK, hub
    <3>7. QED BY <1>2, <3>2, <3>3, <3>4, <3>5, <3>6 DEF CallOK
  <2>7. QED BY <1>2, <2>3, <2>4, <2>5, <2>6 DEF CallsOK
<1>13. StopOK'
  BY <1>1, <1>2, <1>3, <1>4, <1>5, <1>6, <1>7 DEF IInv, ProtocolOK, StopOK, NoRunTurn, ReadWorker,
     Grown, durable, hub
<1>14. TurnOK'
  BY <1>1, <1>2, <1>3, <1>4, <1>5, <1>6, <1>7 DEF IInv, ProtocolOK, TurnOK, NoRunTurn, Attaching,
     View, ReadWorker, Grown, durable, hub
<1>15. HeldOK'
  BY <1>1, <1>2, <1>3, <1>4, <1>5, <1>6, <1>7 DEF IInv, HeldOK, Recorded, ReadWorker, Grown,
     durable, hub
<1>16. SentOK'
  BY <1>1, <1>2, <1>3, <1>4, <1>5, <1>6, <1>7 DEF IInv, ViewOK, SentOK, View, NoTurns, ReadWorker,
     Grown, durable, hub
<1>17. LiveMarksOK'
  BY <1>1, <1>2, <1>3, <1>4, <1>5, <1>6, <1>7 DEF IInv, ViewOK, LiveMarksOK, View, IsTurn,
     ReadWorker, Grown, durable, hub
<1>18. ReplayedOK'
  BY <1>1, <1>2, <1>3, <1>4, <1>5, <1>6, <1>7 DEF IInv, ViewOK, ReplayedOK, View, IsTurn, LastTurn,
     ReadWorker, Grown, durable, hub
<1>19. BusyOK'
  BY <1>1, <1>2, <1>3, <1>4, <1>5, <1>6, <1>7 DEF IInv, ViewOK, BusyOK, NextIsLive, NoTurns,
     FirstTurn, View, IsTurn, ReadWorker, Grown, durable, hub
<1>20. ReportOK'
  BY <1>1, <1>2, <1>3, <1>4, <1>5, <1>6, <1>7 DEF IInv, ViewOK, ReportOK, View, IsTurn, Recorded,
     ReadWorker, Grown, durable, hub
<1>21. MarksOK'
  BY <1>1, <1>2, <1>3, <1>4, <1>5, <1>6, <1>7, Typed DEF IInv, IngestOK, MarksOK, Begun, NoRunTurn,
     Attaching, Ingested, ReadWorker, Grown, durable, hub
<1>22. TruthOK'
  BY <1>8
<1>23. PendingOK'
  BY <1>7 DEF Ingested
<1>24. NumbersOK'
  BY <1>2, <1>4, <1>7, Typed, RowsTyped DEF IInv, IngestOK, NumbersOK, WorkerRow, Ingested, Rows,
     ReadWorker, Grown, durable, hub
<1>25. FramesOK'
  BY <1>8
<1>26. UnheldOK'
  BY <1>1, <1>2, <1>3, <1>4, <1>5, <1>6, <1>7, Typed DEF IInv, IngestOK, UnheldOK, WorkerRow,
     IsEvent, Ingested, ReadWorker, Grown, durable, hub
<1>27. ReplayOK'
  BY <1>1, <1>2, <1>3, <1>4, <1>5, <1>6, <1>7, <1>8 DEF IInv, IngestOK, ReplayOK, Ingested,
     ReadWorker, Grown, durable, hub
<1>28. NoSilentLoss'
  BY <1>7 DEF Ingested
<1>29. ResetBetweenEras'
  BY <1>7 DEF Ingested
<1>30. QED
  BY <1>9, <1>10, <1>11, <1>12, <1>13, <1>14, <1>15, <1>16, <1>17, <1>18, <1>19, <1>20, <1>21,
     <1>22, <1>23, <1>24, <1>25, <1>26, <1>27, <1>28, <1>29 DEF ProtocolOK, ViewOK, IngestOK

\* The worker forgets a session that was handed off.
LEMMA HandleStopSessionKeeps ==
  ASSUME Ordinary, IInv, HandleStopSession
  PROVE  ProtocolOK' /\ HeldOK' /\ ViewOK' /\ IngestOK'
<1>1. ReadWorker /\ toWorker[1].t = "stopSession" /\ link \in {"open", "hubGone"}
  BY CommandRead DEF HandleStopSession, IInv
<1>2. /\ UNCHANGED <<provider, durable, hub, turn, accepting, link, toHub, synced, doubtful, turns>>
      /\ ring' = EmptyRing /\ ~held' /\ ~activeTurn'  /\ produced' = Append(produced, {})
  BY DEF HandleStopSession
<1>3. /\ retired /\ turn = "none" /\ NoRunTurn /\ NoRunTurn'
      /\ \A i \in DOMAIN toWorker' : ~(toWorker'[i].t = "attach" /\ toWorker'[i].since # NoCursor)
  BY <1>1 DEF IInv, ProtocolOK, StopOK, ReadWorker, NoRunTurn
<1>4. StartedLast(ring') /\ ring'.last = 0 /\ ring'.kinds = << >>
  BY <1>2 DEF StartedLast, EmptyRing
<1>5. Era' = Era + 1 /\ produced'[Era + 1] = {}
  BY <1>2, EraBegins
<1>6. /\ TruthOK' /\ PendingOK' /\ NumbersOK' /\ FramesOK' /\ UnheldOK'
      /\ NoSilentLoss' /\ ResetBetweenEras'
  BY <1>2, <1>3, NewEra DEF durable, hub
<1>7. SocketOK'
  BY <1>1, <1>2, <1>3, <1>4, <1>5 DEF IInv, ProtocolOK, SocketOK, ReadWorker, durable, hub
<1>8. ProcessesOK'
  BY <1>1, <1>2, <1>3, <1>4, <1>5 DEF IInv, ProtocolOK, ProcessesOK, ReadWorker, durable, hub
<1>9. RunsOK'
  BY <1>1, <1>2, <1>3, <1>4, <1>5 DEF IInv, ProtocolOK, RunsOK, RunOK, RequestOf, AnswerOf,
     ReadWorker, durable, hub
<1>10. CallsOK'
  BY <1>1, <1>2, <1>3, <1>4, <1>5 DEF IInv, ProtocolOK, CallsOK, CallOK, ReadWorker, durable, hub
<1>11. StopOK'
  BY <1>1, <1>2, <1>3 DEF IInv, ProtocolOK, StopOK, NoRunTurn, ReadWorker, durable, hub
<1>12. TurnOK'
  BY <1>1, <1>2, <1>3, <1>4, <1>5 DEF IInv, ProtocolOK, TurnOK, NoRunTurn, Attaching, ReadWorker,
     durable, hub
<1>13. HeldOK'
  BY <1>1, <1>2, <1>3, <1>4, <1>5 DEF IInv, HeldOK, Recorded, ReadWorker, durable, hub
<1>14. SentOK'
  BY <1>1, <1>2, <1>3, <1>4, <1>5 DEF IInv, ViewOK, SentOK, View, NoTurns, ReadWorker, durable, hub
<1>15. LiveMarksOK'
  BY <1>1, <1>2, <1>3, <1>4, <1>5 DEF IInv, ViewOK, LiveMarksOK, View, IsTurn, ReadWorker, durable,
     hub
<1>16. ReplayedOK'
  BY <1>1, <1>2, <1>3, <1>4, <1>5 DEF IInv, ViewOK, ReplayedOK, View, IsTurn, LastTurn, ReadWorker,
     durable, hub
<1>17. BusyOK'
  BY <1>1, <1>2, <1>3, <1>4, <1>5 DEF IInv, ViewOK, BusyOK, NextIsLive, NoTurns, FirstTurn, View,
     IsTurn, ReadWorker, durable, hub
<1>18. ReportOK'
  BY <1>1, <1>2, <1>3, <1>4, <1>5 DEF IInv, ViewOK, ReportOK, View, IsTurn, Recorded, ReadWorker,
     durable, hub
<1>19. MarksOK'
  BY <1>1, <1>2, <1>3, <1>4, <1>5 DEF IInv, IngestOK, MarksOK, Begun, NoRunTurn, Attaching, Seen,
     Larger, ReadWorker, durable, hub
<1>20. TruthOK'
  BY <1>6
<1>21. PendingOK'
  BY <1>6
<1>22. NumbersOK'
  BY <1>6
<1>23. FramesOK'
  BY <1>6
<1>24. UnheldOK'
  BY <1>6
<1>25. ReplayOK'
  BY <1>1, <1>2, <1>3, <1>4, <1>5 DEF IInv, IngestOK, ReplayOK, Tells, Seen, Larger, Era,
     ReadWorker, durable, hub
<1>26. NoSilentLoss'
  BY <1>6
<1>27. ResetBetweenEras'
  BY <1>6
<1>28. QED
  BY <1>7, <1>8, <1>9, <1>10, <1>11, <1>12, <1>13, <1>14, <1>15, <1>16, <1>17, <1>18, <1>19, <1>20,
     <1>21, <1>22, <1>23, <1>24, <1>25, <1>26, <1>27 DEF ProtocolOK, ViewOK, IngestOK

\* A hello is welcomed: the link has replayed an empty ring only.
LEMMA AcceptKeeps ==
  ASSUME Ordinary, IInv, Accept
  PROVE  ProtocolOK' /\ HeldOK' /\ ViewOK' /\ IngestOK'
<1>1. /\ UNCHANGED <<provider, durable, hub, worker, toWorker, turns>>
      /\ link = "hello" /\ link' = "open" /\ Resumed /\ (synced' => ring = EmptyRing)
      /\ doubtful' = (turn # "none" /\ ~activeTurn)
  BY DEF Accept
<1>2. /\ ~attached /\ toWorker = << >> /\ DOMAIN toWorker = {} /\ toHub = << >> /\ NoRunTurn /\ hubUp
      /\ turn # "resuming"
  BY <1>1, Typed DEF IInv, ProtocolOK, SocketOK, NoRunTurn, Resumed, Ordinary, TurnOK
<1>3. DOMAIN toHub' = {1} /\ toHub'[1].t = "welcome" /\ \A i \in DOMAIN toHub' : i = 1
           /\ toHub'[i].t = "welcome"
  BY DEF Accept, Welcome
<1>4. \A r \in Runs : run[r].pc \in {"none", "ready"}
  BY <1>2 DEF IInv, ProtocolOK, SocketOK
<1>5. synced' => produced[Era] = {}
  BY <1>1, Typed, RowsTyped DEF IInv, IngestOK, NumbersOK, Numbered, EmptyRing
<1>6. Ingested
  BY <1>1, <1>2, <1>3, <1>4, <1>5, Typed, FlushKeeps DEF Flushes, durable, hub, worker
<1>7. SocketOK'
  BY <1>1, <1>2, <1>3, <1>4, <1>5, <1>6 DEF IInv, ProtocolOK, SocketOK, durable, hub, worker
<1>8. ProcessesOK'
  BY <1>1, <1>2, <1>3, <1>4, <1>5, <1>6 DEF IInv, ProtocolOK, ProcessesOK, durable, hub, worker
<1>9. RunsOK'
  BY <1>1, <1>2, <1>3, <1>4, <1>5, <1>6 DEF IInv, ProtocolOK, RunsOK, RunOK, RequestOf, AnswerOf,
     durable, hub, worker
<1>10. CallsOK'
  BY <1>1, <1>2, <1>3, <1>4, <1>5, <1>6 DEF IInv, ProtocolOK, CallsOK, CallOK, durable, hub, worker
<1>11. StopOK'
  BY <1>1, <1>2, <1>3, <1>4, <1>5, <1>6 DEF IInv, ProtocolOK, StopOK, NoRunTurn, durable, hub,
     worker
<1>12. TurnOK'
  BY <1>1, <1>2, <1>3, <1>4, <1>5, <1>6 DEF IInv, ProtocolOK, TurnOK, NoRunTurn, Attaching, durable,
     hub, worker
<1>13. HeldOK'
  BY <1>1, <1>2, <1>3, <1>4, <1>5, <1>6 DEF IInv, HeldOK, Recorded, durable, hub, worker
<1>14. SentOK'
  BY <1>1, <1>2, <1>3, <1>4, <1>5, <1>6 DEF IInv, ViewOK, SentOK, View, NoTurns, durable, hub,
     worker
<1>15. LiveMarksOK'
  BY <1>1, <1>2, <1>3, <1>4, <1>5, <1>6 DEF IInv, ViewOK, LiveMarksOK, View, IsTurn, durable, hub,
     worker
<1>16. ReplayedOK'
  BY <1>1, <1>2, <1>3, <1>4, <1>5, <1>6 DEF IInv, ViewOK, ReplayedOK, View, IsTurn, LastTurn,
     durable, hub, worker
<1>17. BusyOK'
  BY <1>1, <1>2, <1>3, <1>4, <1>5, <1>6 DEF IInv, ViewOK, BusyOK, NextIsLive, NoTurns, FirstTurn,
     View, IsTurn, durable, hub, worker
<1>18. ReportOK'
  BY <1>1, <1>2, <1>3, <1>4, <1>5, <1>6 DEF IInv, ViewOK, ReportOK, View, IsTurn, Recorded, durable,
     hub, worker
<1>19. MarksOK'
  BY <1>1, <1>2, <1>3, <1>4, <1>5, <1>6, Typed DEF IInv, IngestOK, MarksOK, Begun, NoRunTurn,
     Attaching, Ingested, durable, hub, worker
<1>20. TruthOK'
  BY <1>3, <1>6, Typed DEF IInv, IngestOK, TruthOK, Ingested, IsEvent
<1>21. PendingOK'
  BY <1>6 DEF Ingested
<1>22. NumbersOK'
  BY <1>1, <1>2, <1>3, <1>4, <1>5, <1>6 DEF IInv, IngestOK, NumbersOK, WorkerRow, Ingested, durable,
     hub, worker
<1>23. FramesOK'
  BY <1>3 DEF FramesOK, IsEvent
<1>24. UnheldOK'
  BY <1>1, <1>2, <1>3, <1>6, Typed, Typed DEF IInv, IngestOK, UnheldOK, WorkerRow, IsEvent,
     Ingested, durable, hub, worker
<1>25. ReplayOK'
  BY <1>1, <1>2, <1>5, <1>6 DEF Ingested, worker, ReplayOK
<1>26. NoSilentLoss'
  BY <1>6 DEF Ingested
<1>27. ResetBetweenEras'
  BY <1>6 DEF Ingested
<1>28. QED
  BY <1>7, <1>8, <1>9, <1>10, <1>11, <1>12, <1>13, <1>14, <1>15, <1>16, <1>17, <1>18, <1>19, <1>20,
     <1>21, <1>22, <1>23, <1>24, <1>25, <1>26, <1>27 DEF ProtocolOK, ViewOK, IngestOK

\* The worker dies, and another starts with nothing.
LEMMA WorkerDeathKeeps ==
  ASSUME Ordinary, IInv, WorkerDeath
  PROVE  ProtocolOK' /\ HeldOK' /\ ViewOK' /\ IngestOK'
<1>1. /\ UNCHANGED <<provider, durable, hub, toHub, doubtful, turns>>
      /\ ring' = EmptyRing /\ ~held' /\ ~activeTurn' /\ turn' = "none" /\ accepting' = 0
           /\ produced' = Append(produced, {})
      /\ toWorker' = << >> /\ DOMAIN toWorker' = {}
  BY DEF WorkerDeath
<1>2. /\ link' \in {"none", "workerGone"}
           /\ (link \in {"open", "hello", "workerGone"} <=> link' = "workerGone")
      /\ link \in {"none", "hello", "open", "hubGone", "workerGone"}
  BY DEF IInv, TypeInv, TypeOK, ChannelOK, WorkerDeath
<1>3. StartedLast(ring') /\ ring'.last = 0 /\ ring'.kinds = << >>
  BY <1>1 DEF StartedLast, EmptyRing
<1>4. Era' = Era + 1 /\ produced'[Era + 1] = {}
  BY <1>1, EraBegins
<1>5. /\ TruthOK' /\ PendingOK' /\ NumbersOK' /\ FramesOK' /\ UnheldOK'
      /\ NoSilentLoss' /\ ResetBetweenEras'
  BY <1>1, <1>2, NewEra DEF durable, hub
<1>6. SocketOK'
  BY <1>1, <1>2, <1>3, <1>4 DEF IInv, ProtocolOK, SocketOK, durable, hub
<1>7. ProcessesOK'
  BY <1>1, <1>2, <1>3, <1>4 DEF IInv, ProtocolOK, ProcessesOK, durable, hub
<1>8. RunsOK'
  BY <1>1, <1>2, <1>3, <1>4 DEF IInv, ProtocolOK, RunsOK, RunOK, RequestOf, AnswerOf, durable, hub
<1>9. CallsOK'
  BY <1>1, <1>2, Typed DEF IInv, ProtocolOK, CallsOK, CallOK, durable, hub
<1>10. StopOK'
  BY <1>1, <1>2, <1>3, <1>4 DEF IInv, ProtocolOK, StopOK, NoRunTurn, durable, hub
<1>11. TurnOK'
  BY <1>1, <1>2, <1>3, <1>4 DEF IInv, ProtocolOK, TurnOK, NoRunTurn, Attaching, durable, hub
<1>12. HeldOK'
  BY <1>1, <1>2 DEF IInv, HeldOK, Recorded, durable, hub
<1>13. SentOK'
  BY <1>1, <1>2, <1>3, <1>4 DEF IInv, ViewOK, SentOK, View, NoTurns, durable, hub
<1>14. LiveMarksOK'
  BY <1>1, <1>2, <1>3, <1>4 DEF IInv, ViewOK, LiveMarksOK, View, IsTurn, durable, hub
<1>15. ReplayedOK'
  BY <1>1, <1>2, <1>3, <1>4 DEF IInv, ViewOK, ReplayedOK, View, IsTurn, LastTurn, durable, hub
<1>16. BusyOK'
  BY <1>1, <1>2, <1>3, <1>4 DEF IInv, ViewOK, BusyOK, NextIsLive, NoTurns, FirstTurn, View, IsTurn,
     durable, hub
<1>17. ReportOK'
  BY <1>1, <1>2, <1>3, <1>4 DEF IInv, ViewOK, ReportOK, View, IsTurn, Recorded, durable, hub
<1>18. MarksOK'
  BY <1>1, <1>2, <1>3, <1>4 DEF IInv, IngestOK, MarksOK, Begun, NoRunTurn, Attaching, Seen, Larger,
     durable, hub
<1>19. TruthOK'
  BY <1>5
<1>20. PendingOK'
  BY <1>5
<1>21. NumbersOK'
  BY <1>5
<1>22. FramesOK'
  BY <1>5
<1>23. UnheldOK'
  BY <1>5
<1>24. ReplayOK'
  BY <1>1, <1>2, <1>3, <1>4 DEF IInv, IngestOK, ReplayOK, Tells, Seen, Larger, Era, durable, hub
<1>25. NoSilentLoss'
  BY <1>5
<1>26. ResetBetweenEras'
  BY <1>5
<1>27. QED
  BY <1>6, <1>7, <1>8, <1>9, <1>10, <1>11, <1>12, <1>13, <1>14, <1>15, <1>16, <1>17, <1>18, <1>19,
     <1>20, <1>21, <1>22, <1>23, <1>24, <1>25, <1>26 DEF ProtocolOK, ViewOK, IngestOK

-----------------------------------------------------------------------------
(* The hub's process and the socket.                                       *)

\* The hub ends: its memory is gone, its requests may still be read.
LEMMA HubCrashKeeps ==
  ASSUME Ordinary, IInv, HubCrash
  PROVE  ProtocolOK' /\ HeldOK' /\ ViewOK' /\ IngestOK'
<1>1. /\ UNCHANGED <<provider, durable, status, worker, synced, doubtful, turns>>
      /\ hubUp /\ ~hubUp' /\ toHub' = << >> /\ DOMAIN toHub' = {}
      /\ guard' = NoGuard /\ pending' = NoDelta /\ ~busy' /\ calling' = 0 /\ ~attached' /\ run' = BootRuns
  BY DEF HubCrash, ClearHubMemory
<1>2. /\ link' \in {"none", "hubGone"} /\ (link' = "hubGone" <=> link = "open")
      /\ IF link = "open" THEN toWorker' = toWorker ELSE toWorker' = << >> /\ DOMAIN toWorker' = {}
  BY DEF HubCrash
<1>3. /\ \A r \in Runs : run'[r].pc \in {"none", "ready"}
      /\ run'["attached"].pc = "none"
  BY <1>1, RunsAssumption DEF BootRuns, IdleRun
<1>4. Seen' = 0 /\ pending'.era = 0 /\ Era' = Era
  BY <1>1 DEF Seen, Larger, NoGuard, NoDelta, Era, worker
<1>5. /\ TruthOK' /\ PendingOK' /\ NumbersOK' /\ FramesOK' /\ UnheldOK'
      /\ NoSilentLoss' /\ ResetBetweenEras'
  <2>1. TruthOK'
    <3>1. \A w \in produced[Era] : w \in Nat /\ w > 0 /\ (w <= cursor => Accounted(Era, w))
      BY Typed, RowsTyped DEF IInv, IngestOK, NumbersOK, TruthOK, TruthOf
    <3>2. (TruthOf(Era))'
      BY <1>1, <1>4, <3>1 DEF TruthOf, Accounted, durable, worker
    <3>3. (Unsplit(Era))'
      BY <1>1, <1>4 DEF IInv, IngestOK, TruthOK, Unsplit, WorkerRow, durable
    <3>4. QED BY <1>1, <3>2, <3>3 DEF TruthOK, IsEvent
  <2>2. NumbersOK'
    BY <1>1, <1>4 DEF IInv, IngestOK, NumbersOK, WorkerRow, durable, worker
  <2>3. UnheldOK'
    BY <1>1, <1>4, Typed DEF IInv, IngestOK, UnheldOK, WorkerRow, IsEvent, durable, worker
  <2>4. NoSilentLoss' /\ ResetBetweenEras'
    BY <1>1 DEF IInv, IngestOK, NoSilentLoss, Accounted, ResetBetweenEras, WorkerRow, durable, worker
  <2>5. PendingOK' /\ FramesOK'
    BY <1>1 DEF PendingOK, FramesOK, IsEvent
  <2>6. QED BY <2>1, <2>2, <2>3, <2>4, <2>5
<1>6. SocketOK'
  BY <1>1, <1>2, <1>3, <1>4 DEF IInv, ProtocolOK, SocketOK, durable, worker
<1>7. ProcessesOK'
  BY <1>1, <1>2 DEF IInv, ProtocolOK, ProcessesOK, durable, worker
<1>8. RunsOK'
  BY <1>1, <1>2, <1>3, <1>4 DEF IInv, ProtocolOK, RunsOK, RunOK, RequestOf, AnswerOf, durable,
     worker
<1>9. CallsOK'
  BY <1>1, <1>2, Typed DEF IInv, ProtocolOK, CallsOK, CallOK, durable, worker
<1>10. StopOK'
  BY <1>1, <1>2, <1>3, <1>4 DEF IInv, ProtocolOK, StopOK, NoRunTurn, durable, worker
<1>11. TurnOK'
  BY <1>1, <1>2, <1>3, <1>4 DEF IInv, ProtocolOK, TurnOK, NoRunTurn, Attaching, durable, worker
<1>12. HeldOK'
  BY <1>1, <1>2, <1>3, <1>4 DEF IInv, HeldOK, Recorded, durable, worker
<1>13. SentOK'
  BY <1>1, <1>2, <1>3, <1>4 DEF IInv, ViewOK, SentOK, View, NoTurns, durable, worker
<1>14. LiveMarksOK'
  BY <1>1, <1>2, <1>3, <1>4 DEF IInv, ViewOK, LiveMarksOK, View, IsTurn, durable, worker
<1>15. ReplayedOK'
  BY <1>1, <1>2, <1>3, <1>4 DEF IInv, ViewOK, ReplayedOK, View, IsTurn, LastTurn, durable, worker
<1>16. BusyOK'
  BY <1>1, <1>2, <1>3, <1>4 DEF IInv, ViewOK, BusyOK, NextIsLive, NoTurns, FirstTurn, View, IsTurn,
     durable, worker
<1>17. ReportOK'
  BY <1>1, <1>2, <1>3, <1>4 DEF IInv, ViewOK, ReportOK, View, IsTurn, Recorded, durable, worker
<1>18. MarksOK'
  BY <1>1, <1>2, <1>4, Typed DEF IInv, IngestOK, MarksOK, Begun, NoRunTurn, Attaching, Seen, Larger,
     durable, worker
<1>19. TruthOK'
  BY <1>5
<1>20. PendingOK'
  BY <1>5
<1>21. NumbersOK'
  BY <1>5
<1>22. FramesOK'
  BY <1>5
<1>23. UnheldOK'
  BY <1>5
<1>24. ReplayOK'
  BY <1>1, <1>2, <1>3, <1>4 DEF IInv, IngestOK, ReplayOK, Tells, Seen, Larger, Era, durable, worker
<1>25. NoSilentLoss'
  BY <1>5
<1>26. ResetBetweenEras'
  BY <1>5
<1>27. QED
  BY <1>6, <1>7, <1>8, <1>9, <1>10, <1>11, <1>12, <1>13, <1>14, <1>15, <1>16, <1>17, <1>18, <1>19,
     <1>20, <1>21, <1>22, <1>23, <1>24, <1>25, <1>26 DEF ProtocolOK, ViewOK, IngestOK

\* The records come back from the store.
LEMMA HubBootKeeps ==
  ASSUME Ordinary, IInv, HubBoot
  PROVE  ProtocolOK' /\ HeldOK' /\ ViewOK' /\ IngestOK'
<1>1. Ingested
  BY Typed, FlushKeeps DEF Flushes, HubBoot, durable, worker, channel
<1>2. FramesOK' /\ TruthOK'
  BY <1>1, Quiet DEF NoRunTurn, HubBoot, durable, worker, channel
<1>3. SocketOK'
  BY <1>1 DEF IInv, ProtocolOK, SocketOK, HubBoot, durable, worker, channel
<1>4. ProcessesOK'
  BY <1>1 DEF IInv, ProtocolOK, ProcessesOK, HubBoot, durable, worker, channel
<1>5. RunsOK'
  BY <1>1 DEF IInv, ProtocolOK, RunsOK, RunOK, RequestOf, AnswerOf, HubBoot, durable, worker,
     channel
<1>6. CallsOK'
  BY <1>1 DEF IInv, ProtocolOK, CallsOK, CallOK, HubBoot, durable, worker, channel
<1>7. StopOK'
  BY <1>1 DEF IInv, ProtocolOK, StopOK, NoRunTurn, HubBoot, durable, worker, channel
<1>8. TurnOK'
  BY <1>1 DEF IInv, ProtocolOK, TurnOK, NoRunTurn, Attaching, HubBoot, durable, worker, channel
<1>9. HeldOK'
  BY <1>1 DEF IInv, HeldOK, Recorded, HubBoot, durable, worker, channel
<1>10. SentOK'
  BY <1>1 DEF IInv, ViewOK, SentOK, View, NoTurns, HubBoot, durable, worker, channel
<1>11. LiveMarksOK'
  BY <1>1 DEF IInv, ViewOK, LiveMarksOK, View, IsTurn, HubBoot, durable, worker, channel
<1>12. ReplayedOK'
  BY <1>1 DEF IInv, ViewOK, ReplayedOK, View, IsTurn, LastTurn, HubBoot, durable, worker, channel
<1>13. BusyOK'
  BY <1>1 DEF IInv, ViewOK, BusyOK, NextIsLive, NoTurns, FirstTurn, View, IsTurn, HubBoot, durable,
     worker, channel
<1>14. ReportOK'
  BY <1>1 DEF IInv, ViewOK, ReportOK, View, IsTurn, Recorded, HubBoot, durable, worker, channel
<1>15. MarksOK'
  BY <1>1, Typed DEF IInv, IngestOK, MarksOK, Begun, NoRunTurn, Attaching, Ingested, HubBoot,
     durable, worker, channel
<1>16. TruthOK'
  BY <1>2
<1>17. PendingOK'
  BY <1>1 DEF Ingested
<1>18. NumbersOK'
  BY <1>1 DEF IInv, IngestOK, NumbersOK, WorkerRow, Ingested, HubBoot, durable, worker, channel
<1>19. FramesOK'
  BY <1>2
<1>20. UnheldOK'
  BY <1>1, Typed DEF IInv, IngestOK, UnheldOK, WorkerRow, IsEvent, Ingested, HubBoot, durable,
     worker, channel
<1>21. ReplayOK'
  BY <1>1 DEF IInv, IngestOK, ReplayOK, Ingested, HubBoot, durable, worker, channel
<1>22. NoSilentLoss'
  BY <1>1 DEF Ingested
<1>23. ResetBetweenEras'
  BY <1>1 DEF Ingested
<1>24. QED
  BY <1>3, <1>4, <1>5, <1>6, <1>7, <1>8, <1>9, <1>10, <1>11, <1>12, <1>13, <1>14, <1>15, <1>16,
     <1>17, <1>18, <1>19, <1>20, <1>21, <1>22, <1>23 DEF ProtocolOK, ViewOK, IngestOK

\* A new socket.
LEMMA ConnectKeeps ==
  ASSUME Ordinary, IInv, Connect
  PROVE  ProtocolOK' /\ HeldOK' /\ ViewOK' /\ IngestOK'
<1>1. Ingested
  BY Typed, FlushKeeps DEF Flushes, Connect, durable, worker, hub
<1>2. SocketOK'
  BY <1>1 DEF IInv, ProtocolOK, SocketOK, Connect, durable, worker, hub
<1>3. ProcessesOK'
  BY <1>1 DEF IInv, ProtocolOK, ProcessesOK, Connect, durable, worker, hub
<1>4. RunsOK'
  BY <1>1 DEF IInv, ProtocolOK, RunsOK, RunOK, RequestOf, AnswerOf, Connect, durable, worker, hub
<1>5. CallsOK'
  BY <1>1 DEF IInv, ProtocolOK, CallsOK, CallOK, Connect, durable, worker, hub
<1>6. StopOK'
  BY <1>1 DEF IInv, ProtocolOK, StopOK, NoRunTurn, Connect, durable, worker, hub
<1>7. TurnOK'
  BY <1>1 DEF IInv, ProtocolOK, TurnOK, NoRunTurn, Attaching, Connect, durable, worker, hub
<1>8. HeldOK'
  BY <1>1 DEF IInv, HeldOK, Recorded, Connect, durable, worker, hub
<1>9. SentOK'
  BY <1>1 DEF IInv, ViewOK, SentOK, View, NoTurns, Connect, durable, worker, hub
<1>10. LiveMarksOK'
  BY <1>1 DEF IInv, ViewOK, LiveMarksOK, View, IsTurn, Connect, durable, worker, hub
<1>11. ReplayedOK'
  BY <1>1 DEF IInv, ViewOK, ReplayedOK, View, IsTurn, LastTurn, Connect, durable, worker, hub
<1>12. BusyOK'
  BY <1>1 DEF IInv, ViewOK, BusyOK, NextIsLive, NoTurns, FirstTurn, View, IsTurn, Connect, durable,
     worker, hub
<1>13. ReportOK'
  BY <1>1 DEF IInv, ViewOK, ReportOK, View, IsTurn, Recorded, Connect, durable, worker, hub
<1>14. MarksOK'
  BY <1>1, Typed DEF IInv, IngestOK, MarksOK, Begun, NoRunTurn, Attaching, Ingested, Connect,
     durable, worker, hub
<1>15. TruthOK'
  BY <1>1, TruthKept DEF Connect
<1>16. PendingOK'
  BY <1>1 DEF Ingested
<1>17. NumbersOK'
  BY <1>1 DEF IInv, IngestOK, NumbersOK, WorkerRow, Ingested, Connect, durable, worker, hub
<1>18. FramesOK'
  BY <1>1 DEF IInv, IngestOK, FramesOK, FrameOK, Tells, IsEvent, NoRunTurn, Ingested, Connect,
     durable, worker, hub
<1>19. UnheldOK'
  BY <1>1, Typed DEF IInv, IngestOK, UnheldOK, WorkerRow, IsEvent, Ingested, Connect, durable,
     worker, hub
<1>20. ReplayOK'
  BY <1>1 DEF IInv, IngestOK, ReplayOK, Ingested, Connect, durable, worker, hub
<1>21. NoSilentLoss'
  BY <1>1 DEF Ingested
<1>22. ResetBetweenEras'
  BY <1>1 DEF Ingested
<1>23. QED
  BY <1>2, <1>3, <1>4, <1>5, <1>6, <1>7, <1>8, <1>9, <1>10, <1>11, <1>12, <1>13, <1>14, <1>15,
     <1>16, <1>17, <1>18, <1>19, <1>20, <1>21, <1>22 DEF ProtocolOK, ViewOK, IngestOK

\* The socket closes.
LEMMA DropKeeps ==
  ASSUME Ordinary, IInv, Drop
  PROVE  ProtocolOK' /\ HeldOK' /\ ViewOK' /\ IngestOK'
<1>1. "attached" \in Runs /\ run \in [Runs -> RunStates]
      /\ \A r \in Runs : run'[r].pc \in {"none", "ready"} /\ (run'[r].pc = "ready" => run[r].pc = "ready")
  BY Typed, RunsAssumption DEF Drop, IdleRun
<1>2. turn = "none" \/ link # "workerGone"
  BY DEF IInv, ProtocolOK, ProcessesOK
<1>3. Ingested
  BY <1>1, <1>2, Typed, FlushKeeps DEF Flushes, Drop, UnconfirmedTurn, SetStatus, HubTick, durable,
     worker
<1>4. SocketOK'
  BY <1>1, <1>2, <1>3 DEF IInv, ProtocolOK, SocketOK, Drop, UnconfirmedTurn, SetStatus, HubTick,
     durable, worker
<1>5. ProcessesOK'
  BY <1>1, <1>2, <1>3 DEF IInv, ProtocolOK, ProcessesOK, Drop, UnconfirmedTurn, SetStatus, HubTick,
     durable, worker
<1>6. RunsOK'
  BY <1>1, <1>2, <1>3 DEF IInv, ProtocolOK, RunsOK, RunOK, RequestOf, AnswerOf, Drop,
     UnconfirmedTurn, SetStatus, HubTick, durable, worker
<1>7. CallsOK'
  BY Typed DEF Drop, worker, IInv, ProtocolOK, CallsOK
<1>8. StopOK'
  BY <1>1, <1>2, <1>3 DEF IInv, ProtocolOK, StopOK, NoRunTurn, Drop, UnconfirmedTurn, SetStatus,
     HubTick, durable, worker
<1>9. TurnOK'
  BY <1>1, <1>2, <1>3 DEF IInv, ProtocolOK, TurnOK, NoRunTurn, Attaching, Drop, UnconfirmedTurn,
     SetStatus, HubTick, durable, worker
<1>10. HeldOK'
  BY <1>1, <1>2, <1>3 DEF IInv, HeldOK, Recorded, Drop, UnconfirmedTurn, SetStatus, HubTick,
     durable, worker
<1>11. SentOK'
  BY <1>1, <1>2, <1>3 DEF IInv, ViewOK, SentOK, View, NoTurns, Drop, UnconfirmedTurn, SetStatus,
     HubTick, durable, worker
<1>12. LiveMarksOK'
  BY <1>1, <1>2, <1>3 DEF IInv, ViewOK, LiveMarksOK, View, IsTurn, Drop, UnconfirmedTurn, SetStatus,
     HubTick, durable, worker
<1>13. ReplayedOK'
  BY <1>1, <1>2, <1>3 DEF IInv, ViewOK, ReplayedOK, View, IsTurn, LastTurn, Drop, UnconfirmedTurn,
     SetStatus, HubTick, durable, worker
<1>14. BusyOK'
  BY <1>1, <1>2, <1>3 DEF IInv, ViewOK, BusyOK, NextIsLive, NoTurns, FirstTurn, View, IsTurn, Drop,
     UnconfirmedTurn, SetStatus, HubTick, durable, worker
<1>15. ReportOK'
  BY <1>1, <1>2, <1>3 DEF IInv, ViewOK, ReportOK, View, IsTurn, Recorded, Drop, UnconfirmedTurn,
     SetStatus, HubTick, durable, worker
<1>16. MarksOK'
  BY <1>1, <1>2, <1>3, Typed DEF IInv, IngestOK, MarksOK, Begun, NoRunTurn, Attaching, Ingested,
     Drop, UnconfirmedTurn, SetStatus, HubTick, durable, worker
<1>17. TruthOK'
  BY <1>3, TruthKept DEF Drop
<1>18. PendingOK'
  BY <1>3 DEF Ingested
<1>19. NumbersOK'
  BY <1>1, <1>2, <1>3 DEF IInv, IngestOK, NumbersOK, WorkerRow, Ingested, Drop, UnconfirmedTurn,
     SetStatus, HubTick, durable, worker
<1>20. FramesOK'
  BY <1>1, <1>2, <1>3 DEF IInv, IngestOK, FramesOK, FrameOK, Tells, IsEvent, NoRunTurn, Ingested,
     Drop, UnconfirmedTurn, SetStatus, HubTick, durable, worker
<1>21. UnheldOK'
  BY <1>1, <1>2, <1>3, Typed DEF IInv, IngestOK, UnheldOK, WorkerRow, IsEvent, Ingested, Drop,
     UnconfirmedTurn, SetStatus, HubTick, durable, worker
<1>22. ReplayOK'
  BY <1>1, <1>2, <1>3 DEF IInv, IngestOK, ReplayOK, Ingested, Drop, UnconfirmedTurn, SetStatus,
     HubTick, durable, worker
<1>23. NoSilentLoss'
  BY <1>3 DEF Ingested
<1>24. ResetBetweenEras'
  BY <1>3 DEF Ingested
<1>25. QED
  BY <1>4, <1>5, <1>6, <1>7, <1>8, <1>9, <1>10, <1>11, <1>12, <1>13, <1>14, <1>15, <1>16, <1>17,
     <1>18, <1>19, <1>20, <1>21, <1>22, <1>23, <1>24 DEF ProtocolOK, ViewOK, IngestOK

\* A call is given up.
LEMMA CallTimeoutKeeps ==
  ASSUME Ordinary, IInv, CallTimeout
  PROVE  ProtocolOK' /\ HeldOK' /\ ViewOK' /\ IngestOK'
<1>1. /\ run' \in [Runs -> RunStates] /\ run \in [Runs -> RunStates] /\ "attached" \in Runs
      /\ \A r \in Runs : run'[r].pc = run[r].pc /\ run'[r].held = run[r].held /\ run'[r].busy = run[r].busy
  BY TouchedOnly, Typed, RunsAssumption DEF CallTimeout
<1>2. Ingested
  BY <1>1, Typed, FlushKeeps DEF Flushes, CallTimeout, UnconfirmedTurn, HubTick, SetStatus, durable,
     worker, channel
<1>3. FramesOK' /\ TruthOK'
  BY <1>1, <1>2, Quiet DEF NoRunTurn, CallTimeout, UnconfirmedTurn, HubTick, SetStatus, durable,
     worker, channel
<1>4. SocketOK'
  BY <1>1, <1>2 DEF IInv, ProtocolOK, SocketOK, CallTimeout, UnconfirmedTurn, HubTick, SetStatus,
     durable, worker, channel
<1>5. ProcessesOK'
  BY <1>1, <1>2 DEF IInv, ProtocolOK, ProcessesOK, CallTimeout, UnconfirmedTurn, HubTick, SetStatus,
     durable, worker, channel
<1>6. RunsOK'
  BY <1>1, <1>2 DEF IInv, ProtocolOK, RunsOK, RunOK, RequestOf, AnswerOf, CallTimeout,
     UnconfirmedTurn, HubTick, SetStatus, durable, worker, channel
<1>7. CallsOK'
  <2>1. calling' <= turns' /\ accepting' <= turns'
    BY <1>1, Typed DEF IInv, ProtocolOK, CallsOK, CallTimeout, worker, channel
  <2>2. /\ \A i \in DOMAIN toHub : toHub[i].t = "ack" => toHub[i].call <= turns'
        /\ \A i \in DOMAIN toWorker : toWorker[i].t = "runTurn" => toWorker[i].call \in 1 .. turns'
    BY Typed, FieldsTyped DEF IInv, ProtocolOK, CallsOK, CallTimeout, worker, channel
  <2>3. ASSUME link = "open", NEW i \in DOMAIN toWorker, toWorker[i].t = "runTurn"
        PROVE  CallOK(i)'
    BY <1>1, <2>3 DEF IInv, ProtocolOK, CallsOK, CallOK, CallTimeout, worker, channel
  <2>4. QED BY <2>1, <2>2, <2>3 DEF CallsOK, CallTimeout, worker, channel
<1>8. StopOK'
  BY <1>1, <1>2 DEF IInv, ProtocolOK, StopOK, NoRunTurn, CallTimeout, UnconfirmedTurn, HubTick,
     SetStatus, durable, worker, channel
<1>9. TurnOK'
  BY <1>1, <1>2 DEF IInv, ProtocolOK, TurnOK, NoRunTurn, Attaching, CallTimeout, UnconfirmedTurn,
     HubTick, SetStatus, durable, worker, channel
<1>10. HeldOK'
  BY <1>1, <1>2 DEF IInv, HeldOK, Recorded, CallTimeout, UnconfirmedTurn, HubTick, SetStatus,
     durable, worker, channel
<1>11. SentOK'
  BY <1>1, <1>2 DEF IInv, ViewOK, SentOK, View, NoTurns, CallTimeout, UnconfirmedTurn, HubTick,
     SetStatus, durable, worker, channel
<1>12. LiveMarksOK'
  BY <1>1, <1>2 DEF IInv, ViewOK, LiveMarksOK, View, IsTurn, CallTimeout, UnconfirmedTurn, HubTick,
     SetStatus, durable, worker, channel
<1>13. ReplayedOK'
  BY <1>1, <1>2 DEF IInv, ViewOK, ReplayedOK, View, IsTurn, LastTurn, CallTimeout, UnconfirmedTurn,
     HubTick, SetStatus, durable, worker, channel
<1>14. BusyOK'
  BY <1>1, <1>2 DEF IInv, ViewOK, BusyOK, NextIsLive, NoTurns, FirstTurn, View, IsTurn, CallTimeout,
     UnconfirmedTurn, HubTick, SetStatus, durable, worker, channel
<1>15. ReportOK'
  BY <1>1, <1>2 DEF IInv, ViewOK, ReportOK, View, IsTurn, Recorded, CallTimeout, UnconfirmedTurn,
     HubTick, SetStatus, durable, worker, channel
<1>16. MarksOK'
  BY <1>1, <1>2, Typed DEF IInv, IngestOK, MarksOK, Begun, NoRunTurn, Attaching, Ingested,
     CallTimeout, UnconfirmedTurn, HubTick, SetStatus, durable, worker, channel
<1>17. TruthOK'
  BY <1>3
<1>18. PendingOK'
  BY <1>2 DEF Ingested
<1>19. NumbersOK'
  BY <1>1, <1>2 DEF IInv, IngestOK, NumbersOK, WorkerRow, Ingested, CallTimeout, UnconfirmedTurn,
     HubTick, SetStatus, durable, worker, channel
<1>20. FramesOK'
  BY <1>3
<1>21. UnheldOK'
  BY <1>1, <1>2, Typed DEF IInv, IngestOK, UnheldOK, WorkerRow, IsEvent, Ingested, CallTimeout,
     UnconfirmedTurn, HubTick, SetStatus, durable, worker, channel
<1>22. ReplayOK'
  BY <1>1, <1>2 DEF IInv, IngestOK, ReplayOK, Ingested, CallTimeout, UnconfirmedTurn, HubTick,
     SetStatus, durable, worker, channel
<1>23. NoSilentLoss'
  BY <1>2 DEF Ingested
<1>24. ResetBetweenEras'
  BY <1>2 DEF Ingested
<1>25. QED
  BY <1>4, <1>5, <1>6, <1>7, <1>8, <1>9, <1>10, <1>11, <1>12, <1>13, <1>14, <1>15, <1>16, <1>17,
     <1>18, <1>19, <1>20, <1>21, <1>22, <1>23, <1>24 DEF ProtocolOK, ViewOK, IngestOK

-----------------------------------------------------------------------------
(* The frames that the hub reads.                                          *)

\* The welcome starts attachWorker().
LEMMA RecvWelcomeKeeps ==
  ASSUME Ordinary, IInv, RecvWelcome
  PROVE  ProtocolOK' /\ HeldOK' /\ ViewOK' /\ IngestOK'
<1>1. ReadHub /\ Head(toHub) = toHub[1] /\ toHub[1].t = "welcome" /\ toHub[1] \in ToHubMsgs /\ hubUp
           /\ link \in {"open", "workerGone"}
  BY FrameRead DEF IInv, RecvWelcome
<1>2. SentWorker(ListLive("attached")) /\ "attached" \in Runs /\ run \in [Runs -> RunStates]
  BY WorkerSent, Typed, RunsAssumption DEF IInv, RecvWelcome
<1>3. ~attached /\ calling = 0 /\ link # "hello" /\ toWorker = << >> /\ DOMAIN toWorker = {}
      /\ \A r \in Runs : run[r].pc \in {"none", "ready"} /\ (r = "attached" => run[r].pc = "none")
  BY <1>1 DEF IInv, ProtocolOK, SocketOK, ReadHub
<1>4. \A i \in DOMAIN toHub' : toHub'[i].t \in {"event", "turn"} /\ ~(toHub'[i].t = "turn"
           /\ toHub'[i].replay)
  BY <1>1, <1>3 DEF IInv, ProtocolOK, SocketOK, ReadHub, ViewOK, ReplayedOK, IsTurn
<1>5. Ingested
  BY <1>1, <1>2, <1>3, <1>4, Typed, FlushKeeps DEF Flushes, RecvWelcome, ReadHub, SentWorker,
     ListLive, Listing, IdleRun, durable, worker
<1>6. /\ FramesOK' /\ TruthOK' /\ \A i \in DOMAIN toHub' : IsEvent(i)' <=> IsEvent(i + 1)
      /\ link = "open" /\ synced => \A w \in produced[Era] :
           w <= Seen' \/ \E j \in DOMAIN toHub' : Tells(toHub'[j], Era', w)
  BY <1>1, <1>5, OtherRead DEF NoRunTurn, RecvWelcome, ReadHub, SentWorker, ListLive, Listing,
     IdleRun, durable, worker
<1>7. SocketOK'
  BY <1>1, <1>2, <1>3, <1>4, <1>5 DEF IInv, ProtocolOK, SocketOK, RecvWelcome, ReadHub, SentWorker,
     ListLive, Listing, IdleRun, durable, worker
<1>8. ProcessesOK'
  BY <1>1, <1>2, <1>3, <1>4, <1>5 DEF IInv, ProtocolOK, ProcessesOK, RecvWelcome, ReadHub,
     SentWorker, ListLive, Listing, IdleRun, durable, worker
<1>9. RunsOK'
  <2> SUFFICES ASSUME NEW r \in Runs PROVE RunOK(r)'
    BY DEF RunsOK
  <2>1. \A i \in DOMAIN toWorker' :
          i = 1 /\ toWorker'[i].t = "listLive" /\ toWorker'[i].run = "attached"
    BY <1>2, <1>3 DEF SentWorker, ListLive
  <2>2. run'["attached"].pc = "listing"
    BY <1>2 DEF RecvWelcome, Listing, IdleRun
  <2>3. \A i \in DOMAIN toHub' : ~AnswerOf(i, r)'
    BY <1>4 DEF AnswerOf
  <2>4. \A i \in DOMAIN toWorker' : RequestOf(i, r)' => i = 1 /\ toWorker'[i].t = "listLive" /\ r = "attached"
    BY <2>1 DEF RequestOf
  <2>5. QED BY <2>2, <2>3, <2>4 DEF RunOK, ListPcs
<1>10. CallsOK'
  BY <1>1, <1>2, <1>3, <1>4, <1>5 DEF IInv, ProtocolOK, CallsOK, CallOK, RecvWelcome, ReadHub,
     SentWorker, ListLive, Listing, IdleRun, durable, worker
<1>11. StopOK'
  BY <1>1, <1>2, <1>3, <1>4, <1>5 DEF IInv, ProtocolOK, StopOK, NoRunTurn, RecvWelcome, ReadHub,
     SentWorker, ListLive, Listing, IdleRun, durable, worker
<1>12. TurnOK'
  BY <1>1, <1>2, <1>3, <1>4, <1>5 DEF IInv, ProtocolOK, TurnOK, NoRunTurn, Attaching, RecvWelcome,
     ReadHub, SentWorker, ListLive, Listing, IdleRun, durable, worker
<1>13. HeldOK'
  BY <1>1, <1>2, <1>3, <1>4, <1>5 DEF IInv, HeldOK, Recorded, RecvWelcome, ReadHub, SentWorker,
     ListLive, Listing, IdleRun, durable, worker
<1>14. SentOK'
  BY <1>1, <1>2, <1>3, <1>4, <1>5 DEF IInv, ViewOK, SentOK, View, NoTurns, RecvWelcome, ReadHub,
     SentWorker, ListLive, Listing, IdleRun, durable, worker
<1>15. LiveMarksOK'
  BY <1>1, <1>2, <1>3, <1>4, <1>5 DEF IInv, ViewOK, LiveMarksOK, View, IsTurn, RecvWelcome, ReadHub,
     SentWorker, ListLive, Listing, IdleRun, durable, worker
<1>16. ReplayedOK'
  BY <1>1, <1>2, <1>3, <1>4, <1>5 DEF IInv, ViewOK, ReplayedOK, View, IsTurn, LastTurn, RecvWelcome,
     ReadHub, SentWorker, ListLive, Listing, IdleRun, durable, worker
<1>17. BusyOK'
  BY <1>1, <1>2, <1>3, <1>4, <1>5, NextKept DEF IInv, ViewOK, BusyOK, View, RecvWelcome, ReadHub,
     SentWorker, ListLive, Listing, IdleRun, durable, worker
<1>18. ReportOK'
  BY <1>1, <1>2, <1>3, <1>4, <1>5 DEF IInv, ViewOK, ReportOK, View, IsTurn, Recorded, RecvWelcome,
     ReadHub, SentWorker, ListLive, Listing, IdleRun, durable, worker
<1>19. MarksOK'
  BY <1>1, <1>2, <1>3, <1>4, <1>5, Typed DEF IInv, IngestOK, MarksOK, Begun, NoRunTurn, Attaching,
     Ingested, RecvWelcome, ReadHub, SentWorker, ListLive, Listing, IdleRun, durable, worker
<1>20. TruthOK'
  BY <1>6
<1>21. PendingOK'
  BY <1>5 DEF Ingested
<1>22. NumbersOK'
  BY <1>1, <1>2, <1>3, <1>4, <1>5 DEF IInv, IngestOK, NumbersOK, WorkerRow, Ingested, RecvWelcome,
     ReadHub, SentWorker, ListLive, Listing, IdleRun, durable, worker
<1>23. FramesOK'
  BY <1>6
<1>24. UnheldOK'
  BY <1>1, <1>2, <1>3, <1>4, <1>5, <1>6, Typed DEF IInv, IngestOK, UnheldOK, WorkerRow, IsEvent,
     Ingested, RecvWelcome, ReadHub, SentWorker, ListLive, Listing, IdleRun, durable, worker
<1>25. ReplayOK'
  BY <1>1, <1>2, <1>3, <1>4, <1>5, <1>6 DEF IInv, IngestOK, ReplayOK, Ingested, RecvWelcome,
     ReadHub, SentWorker, ListLive, Listing, IdleRun, durable, worker
<1>26. NoSilentLoss'
  BY <1>5 DEF Ingested
<1>27. ResetBetweenEras'
  BY <1>5 DEF Ingested
<1>28. QED
  BY <1>7, <1>8, <1>9, <1>10, <1>11, <1>12, <1>13, <1>14, <1>15, <1>16, <1>17, <1>18, <1>19, <1>20,
     <1>21, <1>22, <1>23, <1>24, <1>25, <1>26, <1>27 DEF ProtocolOK, ViewOK, IngestOK

\* An event of the worker is ingested.
LEMMA RecvEventKeeps ==
  ASSUME Ordinary, IInv, RecvEvent
  PROVE  ProtocolOK' /\ HeldOK' /\ ViewOK' /\ IngestOK'
<1>1. ReadHub /\ Head(toHub) = toHub[1] /\ toHub[1].t = "event" /\ toHub[1] \in ToHubMsgs /\ hubUp
           /\ link \in {"open", "workerGone"}
  BY FrameRead DEF IInv, RecvEvent
<1>2. IngestOK'
  BY <1>1, EventIngested DEF RecvEvent, Ingests, worker, Attaching
<1>3. SocketOK'
  BY <1>1 DEF IInv, ProtocolOK, SocketOK, RecvEvent, ReadHub, worker
<1>4. ProcessesOK'
  BY <1>1 DEF IInv, ProtocolOK, ProcessesOK, RecvEvent, ReadHub, worker
<1>5. RunsOK'
  BY <1>1 DEF RunsOK, RecvEvent, IInv, ProtocolOK, RunOK, RequestOf, AnswerOf, ReadHub
<1>6. CallsOK'
  BY <1>1 DEF IInv, ProtocolOK, CallsOK, CallOK, RecvEvent, ReadHub, worker
<1>7. StopOK'
  BY <1>1 DEF IInv, ProtocolOK, StopOK, NoRunTurn, RecvEvent, ReadHub, worker
<1>8. TurnOK'
  BY <1>1 DEF IInv, ProtocolOK, TurnOK, NoRunTurn, Attaching, RecvEvent, ReadHub, worker
<1>9. HeldOK'
  BY <1>1 DEF IInv, HeldOK, Recorded, RecvEvent, ReadHub, worker
<1>10. SentOK'
  BY <1>1 DEF IInv, ViewOK, SentOK, View, NoTurns, RecvEvent, ReadHub, worker
<1>11. LiveMarksOK'
  BY <1>1 DEF IInv, ViewOK, LiveMarksOK, View, IsTurn, RecvEvent, ReadHub, worker
<1>12. ReplayedOK'
  BY <1>1 DEF IInv, ViewOK, ReplayedOK, View, IsTurn, LastTurn, RecvEvent, ReadHub, worker
<1>13. BusyOK'
  BY <1>1, NextKept DEF IInv, ViewOK, BusyOK, View, RecvEvent, worker
<1>14. ReportOK'
  BY <1>1 DEF IInv, ViewOK, ReportOK, View, IsTurn, Recorded, RecvEvent, ReadHub, worker
<1>15. MarksOK'
  BY <1>2 DEF IngestOK
<1>16. TruthOK'
  BY <1>2 DEF IngestOK
<1>17. PendingOK'
  BY <1>2 DEF IngestOK
<1>18. NumbersOK'
  BY <1>2 DEF IngestOK
<1>19. FramesOK'
  BY <1>2 DEF IngestOK
<1>20. UnheldOK'
  BY <1>2 DEF IngestOK
<1>21. ReplayOK'
  BY <1>2 DEF IngestOK
<1>22. NoSilentLoss'
  BY <1>2 DEF IngestOK
<1>23. ResetBetweenEras'
  BY <1>2 DEF IngestOK
<1>24. QED
  BY <1>3, <1>4, <1>5, <1>6, <1>7, <1>8, <1>9, <1>10, <1>11, <1>12, <1>13, <1>14, <1>15, <1>16,
     <1>17, <1>18, <1>19, <1>20, <1>21, <1>22, <1>23 DEF ProtocolOK, ViewOK, IngestOK

\* A marker of a turn, live or replayed.
LEMMA RecvTurnKeeps ==
  ASSUME Ordinary, IInv, RecvTurn
  PROVE  ProtocolOK' /\ HeldOK' /\ ViewOK' /\ IngestOK'
<1>1. ReadHub /\ Head(toHub) = toHub[1] /\ toHub[1].t = "turn" /\ toHub[1] \in ToHubMsgs /\ hubUp
           /\ link \in {"open", "workerGone"}
  BY FrameRead DEF IInv, RecvTurn
<1>2. /\ run' \in [Runs -> RunStates] /\ run \in [Runs -> RunStates] /\ "attached" \in Runs
      /\ \A r \in Runs : run'[r].pc = run[r].pc /\ run'[r].held = run[r].held /\ run'[r].busy = run[r].busy
  BY TouchedOnly, Typed, RunsAssumption DEF RecvTurn
<1>3. Ingested
  BY <1>1, <1>2, Typed, FlushKeeps DEF Flushes, RecvTurn, ReadHub, durable, worker
<1>4. /\ FramesOK' /\ TruthOK' /\ \A i \in DOMAIN toHub' : IsEvent(i)' <=> IsEvent(i + 1)
      /\ link = "open" /\ synced => \A w \in produced[Era] :
           w <= Seen' \/ \E j \in DOMAIN toHub' : Tells(toHub'[j], Era', w)
  BY <1>1, <1>3, OtherRead DEF NoRunTurn, RecvTurn, ReadHub, durable, worker
<1>5. SocketOK'
  BY <1>1, <1>2, <1>3 DEF IInv, ProtocolOK, SocketOK, RecvTurn, ReadHub, durable, worker
<1>6. ProcessesOK'
  BY <1>1, <1>2, <1>3 DEF IInv, ProtocolOK, ProcessesOK, RecvTurn, ReadHub, durable, worker
<1>7. RunsOK'
  <2> SUFFICES ASSUME attached, NEW r \in Runs PROVE RunOK(r)'
    BY DEF RunsOK, RecvTurn
  <2>1. RunOK(r) /\ run'[r].pc = run[r].pc
    BY <1>2 DEF IInv, ProtocolOK, RunsOK
  <2>2. QED BY <1>1, <2>1 DEF RunOK, RequestOf, AnswerOf, ReadHub, RecvTurn
<1>8. CallsOK'
  BY <1>1, <1>2, <1>3 DEF IInv, ProtocolOK, CallsOK, CallOK, RecvTurn, ReadHub, durable, worker
<1>9. StopOK'
  BY <1>1, <1>2, <1>3 DEF IInv, ProtocolOK, StopOK, NoRunTurn, RecvTurn, ReadHub, durable, worker
<1>10. TurnOK'
  BY <1>1, <1>2, <1>3 DEF IInv, ProtocolOK, TurnOK, NoRunTurn, Attaching, RecvTurn, ReadHub,
     durable, worker
<1>11. HeldOK'
  BY <1>1, <1>2, <1>3 DEF IInv, HeldOK, Recorded, RecvTurn, ReadHub, durable, worker
<1>12. SentOK'
  BY <1>1, <1>2, <1>3 DEF IInv, ViewOK, SentOK, View, NoTurns, RecvTurn, ReadHub, durable, worker
<1>13. LiveMarksOK'
  BY <1>1, <1>2, <1>3 DEF IInv, ViewOK, LiveMarksOK, View, IsTurn, RecvTurn, ReadHub, durable,
     worker
<1>14. ReplayedOK'
  BY <1>1, <1>2, <1>3 DEF IInv, ViewOK, ReplayedOK, View, IsTurn, LastTurn, RecvTurn, ReadHub,
     durable, worker
<1>15. BusyOK'
  <2> SUFFICES ASSUME View, busy' = FALSE, NextIsLive' PROVE FALSE
    BY DEF BusyOK, View, RecvTurn
  <2>1. IsTurn(1) /\ toHub[1].kind # "started" /\ 1 \in DOMAIN toHub /\ FirstTurn(1)
    BY <1>1 DEF RecvTurn, IsTurn, ReadHub, FirstTurn, ReadHub
  <2>2. CASE NoTurns' /\ turn # "none"
    BY <1>1, <2>1, <2>2 DEF LastTurn, IsTurn, NoTurns, ReadHub, IInv, ViewOK, LiveMarksOK, ReplayedOK
  <2>3. ASSUME NEW i \in DOMAIN toHub', FirstTurn(i)', ~toHub'[i].replay
        PROVE  FALSE
    <3>1. IsTurn(i + 1) /\ ~toHub[i + 1].replay /\ 1 < i + 1 /\ i \in Nat /\ i + 1 \in DOMAIN toHub
      BY <1>1, <2>3 DEF FirstTurn, IsTurn, ReadHub
    <3>2. CASE ~toHub[1].replay
      BY <2>1, <3>1, <3>2 DEF IInv, ViewOK, LiveMarksOK
    <3>3. CASE toHub[1].replay
      BY <1>1, <2>1, <2>3, <3>1, <3>3 DEF IInv, ViewOK, ReplayedOK, ReadHub, FirstTurn, IsTurn
    <3>4. QED BY <3>2, <3>3
  <2>4. QED BY <2>2, <2>3 DEF NextIsLive, FirstTurn, IsTurn, RecvTurn, worker
<1>16. ReportOK'
  BY <1>1, <1>2, <1>3 DEF IInv, ViewOK, ReportOK, View, IsTurn, Recorded, RecvTurn, ReadHub,
     durable, worker
<1>17. MarksOK'
  BY <1>2, <1>3, Typed DEF Begun, NoRunTurn, Attaching, RecvTurn, worker, IInv, IngestOK, MarksOK, Ingested
<1>18. TruthOK'
  BY <1>4
<1>19. PendingOK'
  BY <1>3 DEF Ingested
<1>20. NumbersOK'
  BY <1>1, <1>2, <1>3 DEF IInv, IngestOK, NumbersOK, WorkerRow, Ingested, RecvTurn, ReadHub,
     durable, worker
<1>21. FramesOK'
  BY <1>4
<1>22. UnheldOK'
  BY <1>1, <1>2, <1>3, <1>4, Typed DEF IInv, IngestOK, UnheldOK, WorkerRow, IsEvent, Ingested,
     RecvTurn, ReadHub, durable, worker
<1>23. ReplayOK'
  BY <1>1, <1>2, <1>3, <1>4 DEF IInv, IngestOK, ReplayOK, Ingested, RecvTurn, ReadHub, durable,
     worker
<1>24. NoSilentLoss'
  BY <1>3 DEF Ingested
<1>25. ResetBetweenEras'
  BY <1>3 DEF Ingested
<1>26. QED
  BY <1>5, <1>6, <1>7, <1>8, <1>9, <1>10, <1>11, <1>12, <1>13, <1>14, <1>15, <1>16, <1>17, <1>18,
     <1>19, <1>20, <1>21, <1>22, <1>23, <1>24, <1>25 DEF ProtocolOK, ViewOK, IngestOK

\* The reply to a listLive() is in.
LEMMA RecvLiveKeeps ==
  ASSUME Ordinary, IInv, RecvLive
  PROVE  ProtocolOK' /\ HeldOK' /\ ViewOK' /\ IngestOK'
<1>1. ReadHub /\ Head(toHub) = toHub[1] /\ toHub[1].t = "live" /\ toHub[1] \in ToHubMsgs /\ hubUp
           /\ link \in {"open", "workerGone"}
  BY FrameRead DEF IInv, RecvLive
<1>2. attached /\ toHub[1].run \in Runs /\ run \in [Runs -> RunStates] /\ "attached" \in Runs
  BY <1>1, FieldsTyped, Typed, RunsAssumption DEF IInv, ProtocolOK, SocketOK, ReadHub
<1>3. run[toHub[1].run].pc \in ListPcs
  BY <1>1, <1>2 DEF IInv, ProtocolOK, RunsOK, RunOK, AnswerOf, ReadHub
<1>4. run["attached"].pc \in {"listing", "listed"} /\ ~run["attached"].touched =>
        run'["attached"].pc \in {"listing", "listed"} /\ ~run'["attached"].touched
  <2>1. run["attached"] \in RunStates
    BY <1>2
  <2>2. run'["attached"] = run["attached"]
          \/ (run'["attached"].touched = run["attached"].touched
                /\ run'["attached"].pc = (IF run["attached"].pc = "listing" THEN "listed" ELSE "relisted")
                /\ run["attached"].pc \in ListPcs)
    <3>1. CASE toHub[1].run = "attached"
      BY <1>1, <1>2, <1>3, <2>1, <3>1 DEF RecvLive, RunStates
    <3>2. CASE toHub[1].run # "attached"
      BY <1>1, <1>2, <3>2 DEF RecvLive
    <3>3. QED BY <3>1, <3>2
  <2>3. QED BY <2>2 DEF ListPcs
<1>5. Ingested
  BY <1>1, <1>2, <1>3, <1>4, Typed, FlushKeeps DEF Flushes, RecvLive, ReadHub, durable, worker,
     ListPcs, HeardPcs
<1>6. /\ FramesOK' /\ TruthOK' /\ \A i \in DOMAIN toHub' : IsEvent(i)' <=> IsEvent(i + 1)
      /\ link = "open" /\ synced => \A w \in produced[Era] :
           w <= Seen' \/ \E j \in DOMAIN toHub' : Tells(toHub'[j], Era', w)
  BY <1>1, <1>5, OtherRead DEF NoRunTurn, RecvLive, ReadHub, durable, worker, ListPcs, HeardPcs
<1>7. SocketOK'
  BY <1>1, <1>2, <1>3, <1>4, <1>5 DEF IInv, ProtocolOK, SocketOK, RecvLive, ReadHub, durable,
     worker, ListPcs, HeardPcs
<1>8. ProcessesOK'
  BY <1>1, <1>2, <1>3, <1>4, <1>5 DEF IInv, ProtocolOK, ProcessesOK, RecvLive, ReadHub, durable,
     worker, ListPcs, HeardPcs
<1>9. RunsOK'
  BY <1>1, <1>2, <1>3, <1>4, <1>5 DEF IInv, ProtocolOK, RunsOK, RunOK, RequestOf, AnswerOf,
     RecvLive, ReadHub, durable, worker, ListPcs, HeardPcs
<1>10. CallsOK'
  BY <1>1, <1>2, <1>3, <1>4, <1>5 DEF IInv, ProtocolOK, CallsOK, CallOK, RecvLive, ReadHub, durable,
     worker, ListPcs, HeardPcs
<1>11. StopOK'
  BY <1>1, <1>2, <1>3, <1>4, <1>5 DEF IInv, ProtocolOK, StopOK, NoRunTurn, RecvLive, ReadHub,
     durable, worker, ListPcs, HeardPcs
<1>12. TurnOK'
  BY <1>1, <1>2, <1>3, <1>4, <1>5 DEF IInv, ProtocolOK, TurnOK, NoRunTurn, Attaching, RecvLive,
     ReadHub, durable, worker, ListPcs, HeardPcs
<1>13. HeldOK'
  BY <1>1, <1>2, <1>3, <1>4, <1>5 DEF IInv, HeldOK, Recorded, RecvLive, ReadHub, durable, worker,
     ListPcs, HeardPcs
<1>14. SentOK'
  BY <1>1, <1>2, <1>3, <1>4, <1>5 DEF IInv, ViewOK, SentOK, View, NoTurns, RecvLive, ReadHub,
     durable, worker, ListPcs, HeardPcs
<1>15. LiveMarksOK'
  BY <1>1, <1>2, <1>3, <1>4, <1>5 DEF IInv, ViewOK, LiveMarksOK, View, IsTurn, RecvLive, ReadHub,
     durable, worker, ListPcs, HeardPcs
<1>16. ReplayedOK'
  BY <1>1, <1>2, <1>3, <1>4, <1>5 DEF IInv, ViewOK, ReplayedOK, View, IsTurn, LastTurn, RecvLive,
     ReadHub, durable, worker, ListPcs, HeardPcs
<1>17. BusyOK'
  BY <1>1, <1>2, <1>3, <1>4, <1>5, NextKept DEF IInv, ViewOK, BusyOK, View, RecvLive, ReadHub,
     durable, worker, ListPcs, HeardPcs
<1>18. ReportOK'
  BY <1>1, <1>2, <1>3, <1>4, <1>5 DEF IInv, ViewOK, ReportOK, View, IsTurn, Recorded, RecvLive,
     ReadHub, durable, worker, ListPcs, HeardPcs
<1>19. MarksOK'
  BY <1>1, <1>2, <1>3, <1>4, <1>5, Typed DEF IInv, IngestOK, MarksOK, Begun, NoRunTurn, Attaching,
     Ingested, RecvLive, ReadHub, durable, worker, ListPcs, HeardPcs
<1>20. TruthOK'
  BY <1>6
<1>21. PendingOK'
  BY <1>5 DEF Ingested
<1>22. NumbersOK'
  BY <1>1, <1>2, <1>3, <1>4, <1>5 DEF IInv, IngestOK, NumbersOK, WorkerRow, Ingested, RecvLive,
     ReadHub, durable, worker, ListPcs, HeardPcs
<1>23. FramesOK'
  BY <1>6
<1>24. UnheldOK'
  BY <1>1, <1>2, <1>3, <1>4, <1>5, <1>6, Typed DEF IInv, IngestOK, UnheldOK, WorkerRow, IsEvent,
     Ingested, RecvLive, ReadHub, durable, worker, ListPcs, HeardPcs
<1>25. ReplayOK'
  BY <1>1, <1>2, <1>3, <1>4, <1>5, <1>6 DEF IInv, IngestOK, ReplayOK, Ingested, RecvLive, ReadHub,
     durable, worker, ListPcs, HeardPcs
<1>26. NoSilentLoss'
  BY <1>5 DEF Ingested
<1>27. ResetBetweenEras'
  BY <1>5 DEF Ingested
<1>28. QED
  BY <1>7, <1>8, <1>9, <1>10, <1>11, <1>12, <1>13, <1>14, <1>15, <1>16, <1>17, <1>18, <1>19, <1>20,
     <1>21, <1>22, <1>23, <1>24, <1>25, <1>26, <1>27 DEF ProtocolOK, ViewOK, IngestOK

\* The acknowledgement of a turn.
LEMMA RecvAckKeeps ==
  ASSUME Ordinary, IInv, RecvAck
  PROVE  ProtocolOK' /\ HeldOK' /\ ViewOK' /\ IngestOK'
<1>1. ReadHub /\ Head(toHub) = toHub[1] /\ toHub[1].t = "ack" /\ toHub[1] \in ToHubMsgs /\ hubUp
           /\ link \in {"open", "workerGone"}
  BY FrameRead DEF IInv, RecvAck
<1>2. Ingested
  BY <1>1, Typed, FlushKeeps DEF Flushes, RecvAck, ReadHub, durable, worker
<1>3. /\ FramesOK' /\ TruthOK' /\ \A i \in DOMAIN toHub' : IsEvent(i)' <=> IsEvent(i + 1)
      /\ link = "open" /\ synced => \A w \in produced[Era] :
           w <= Seen' \/ \E j \in DOMAIN toHub' : Tells(toHub'[j], Era', w)
  BY <1>1, <1>2, OtherRead DEF NoRunTurn, RecvAck, ReadHub, durable, worker
<1>4. SocketOK'
  BY <1>1, <1>2 DEF IInv, ProtocolOK, SocketOK, RecvAck, ReadHub, durable, worker
<1>5. ProcessesOK'
  BY <1>1, <1>2 DEF IInv, ProtocolOK, ProcessesOK, RecvAck, ReadHub, durable, worker
<1>6. RunsOK'
  BY <1>1, <1>2 DEF IInv, ProtocolOK, RunsOK, RunOK, RequestOf, AnswerOf, RecvAck, ReadHub, durable,
     worker
<1>7. CallsOK'
  BY <1>1, Typed, FieldsTyped DEF IInv, ProtocolOK, CallsOK, CallOK, RecvAck, ReadHub, durable,
     worker
<1>8. StopOK'
  BY <1>1, <1>2 DEF IInv, ProtocolOK, StopOK, NoRunTurn, RecvAck, ReadHub, durable, worker
<1>9. TurnOK'
  BY <1>1, <1>2 DEF IInv, ProtocolOK, TurnOK, NoRunTurn, Attaching, RecvAck, ReadHub, durable,
     worker
<1>10. HeldOK'
  BY <1>1, <1>2 DEF IInv, HeldOK, Recorded, RecvAck, ReadHub, durable, worker
<1>11. SentOK'
  BY <1>1, <1>2 DEF IInv, ViewOK, SentOK, View, NoTurns, RecvAck, ReadHub, durable, worker
<1>12. LiveMarksOK'
  BY <1>1, <1>2 DEF IInv, ViewOK, LiveMarksOK, View, IsTurn, RecvAck, ReadHub, durable, worker
<1>13. ReplayedOK'
  BY <1>1, <1>2 DEF IInv, ViewOK, ReplayedOK, View, IsTurn, LastTurn, RecvAck, ReadHub, durable,
     worker
<1>14. BusyOK'
  BY <1>1, <1>2, NextKept DEF IInv, ViewOK, BusyOK, View, RecvAck, ReadHub, durable, worker
<1>15. ReportOK'
  BY <1>1, <1>2 DEF IInv, ViewOK, ReportOK, View, IsTurn, Recorded, RecvAck, ReadHub, durable,
     worker
<1>16. MarksOK'
  BY <1>1, <1>2, Typed DEF IInv, IngestOK, MarksOK, Begun, NoRunTurn, Attaching, Ingested, RecvAck,
     ReadHub, durable, worker
<1>17. TruthOK'
  BY <1>3
<1>18. PendingOK'
  BY <1>2 DEF Ingested
<1>19. NumbersOK'
  BY <1>1, <1>2 DEF IInv, IngestOK, NumbersOK, WorkerRow, Ingested, RecvAck, ReadHub, durable,
     worker
<1>20. FramesOK'
  BY <1>3
<1>21. UnheldOK'
  BY <1>1, <1>2, <1>3, Typed DEF IInv, IngestOK, UnheldOK, WorkerRow, IsEvent, Ingested, RecvAck,
     ReadHub, durable, worker
<1>22. ReplayOK'
  BY <1>1, <1>2, <1>3 DEF IInv, IngestOK, ReplayOK, Ingested, RecvAck, ReadHub, durable, worker
<1>23. NoSilentLoss'
  BY <1>2 DEF Ingested
<1>24. ResetBetweenEras'
  BY <1>2 DEF Ingested
<1>25. QED
  BY <1>4, <1>5, <1>6, <1>7, <1>8, <1>9, <1>10, <1>11, <1>12, <1>13, <1>14, <1>15, <1>16, <1>17,
     <1>18, <1>19, <1>20, <1>21, <1>22, <1>23, <1>24 DEF ProtocolOK, ViewOK, IngestOK

\* The acknowledgement of an attach() is in.
LEMMA RecvAttachAckKeeps ==
  ASSUME Ordinary, IInv, RecvAttachAck
  PROVE  ProtocolOK' /\ HeldOK' /\ ViewOK' /\ IngestOK'
<1>1. ReadHub /\ Head(toHub) = toHub[1] /\ toHub[1].t = "attachAck" /\ toHub[1] \in ToHubMsgs /\ hubUp
           /\ link \in {"open", "workerGone"}
  BY FrameRead DEF IInv, RecvAttachAck
<1>2. attached /\ toHub[1].run \in Runs /\ run \in [Runs -> RunStates]
  BY <1>1, FieldsTyped, Typed DEF IInv, ProtocolOK, SocketOK, ReadHub
<1>3. run[toHub[1].run].pc = "attaching"
  BY <1>1, <1>2 DEF IInv, ProtocolOK, RunsOK, RunOK, AnswerOf, ReadHub
<1>4. Ingested
  BY <1>1, <1>2, <1>3, Typed, FlushKeeps DEF Flushes, RecvAttachAck, ReadHub, durable, worker,
     ListPcs, HeardPcs
<1>5. /\ FramesOK' /\ TruthOK' /\ \A i \in DOMAIN toHub' : IsEvent(i)' <=> IsEvent(i + 1)
      /\ link = "open" /\ synced => \A w \in produced[Era] :
           w <= Seen' \/ \E j \in DOMAIN toHub' : Tells(toHub'[j], Era', w)
  BY <1>1, <1>4, OtherRead DEF NoRunTurn, RecvAttachAck, ReadHub, durable, worker, ListPcs, HeardPcs
<1>6. SocketOK'
  BY <1>1, <1>2, <1>3, <1>4 DEF IInv, ProtocolOK, SocketOK, RecvAttachAck, ReadHub, durable, worker,
     ListPcs, HeardPcs
<1>7. ProcessesOK'
  BY <1>1, <1>2, <1>3, <1>4 DEF IInv, ProtocolOK, ProcessesOK, RecvAttachAck, ReadHub, durable,
     worker, ListPcs, HeardPcs
<1>8. RunsOK'
  BY <1>1, <1>2, <1>3, <1>4 DEF IInv, ProtocolOK, RunsOK, RunOK, RequestOf, AnswerOf, RecvAttachAck,
     ReadHub, durable, worker, ListPcs, HeardPcs
<1>9. CallsOK'
  BY <1>1, <1>2, <1>3, <1>4 DEF IInv, ProtocolOK, CallsOK, CallOK, RecvAttachAck, ReadHub, durable,
     worker, ListPcs, HeardPcs
<1>10. StopOK'
  BY <1>1, <1>2, <1>3, <1>4 DEF IInv, ProtocolOK, StopOK, NoRunTurn, RecvAttachAck, ReadHub,
     durable, worker, ListPcs, HeardPcs
<1>11. TurnOK'
  BY <1>1, <1>2, <1>3, <1>4 DEF IInv, ProtocolOK, TurnOK, NoRunTurn, Attaching, RecvAttachAck,
     ReadHub, durable, worker, ListPcs, HeardPcs
<1>12. HeldOK'
  BY <1>1, <1>2, <1>3, <1>4 DEF IInv, HeldOK, Recorded, RecvAttachAck, ReadHub, durable, worker,
     ListPcs, HeardPcs
<1>13. SentOK'
  BY <1>1, <1>2, <1>3, <1>4 DEF IInv, ViewOK, SentOK, View, NoTurns, RecvAttachAck, ReadHub,
     durable, worker, ListPcs, HeardPcs
<1>14. LiveMarksOK'
  BY <1>1, <1>2, <1>3, <1>4 DEF IInv, ViewOK, LiveMarksOK, View, IsTurn, RecvAttachAck, ReadHub,
     durable, worker, ListPcs, HeardPcs
<1>15. ReplayedOK'
  BY <1>1, <1>2, <1>3, <1>4 DEF IInv, ViewOK, ReplayedOK, View, IsTurn, LastTurn, RecvAttachAck,
     ReadHub, durable, worker, ListPcs, HeardPcs
<1>16. BusyOK'
  BY <1>1, <1>2, <1>3, <1>4, NextKept DEF IInv, ViewOK, BusyOK, View, RecvAttachAck, ReadHub,
     durable, worker, ListPcs, HeardPcs
<1>17. ReportOK'
  BY <1>1, <1>2, <1>3, <1>4 DEF IInv, ViewOK, ReportOK, View, IsTurn, Recorded, RecvAttachAck,
     ReadHub, durable, worker, ListPcs, HeardPcs
<1>18. MarksOK'
  BY <1>1, <1>2, <1>3, <1>4, Typed DEF IInv, IngestOK, MarksOK, Begun, NoRunTurn, Attaching,
     Ingested, RecvAttachAck, ReadHub, durable, worker, ListPcs, HeardPcs
<1>19. TruthOK'
  BY <1>5
<1>20. PendingOK'
  BY <1>4 DEF Ingested
<1>21. NumbersOK'
  BY <1>1, <1>2, <1>3, <1>4 DEF IInv, IngestOK, NumbersOK, WorkerRow, Ingested, RecvAttachAck,
     ReadHub, durable, worker, ListPcs, HeardPcs
<1>22. FramesOK'
  BY <1>5
<1>23. UnheldOK'
  BY <1>1, <1>2, <1>3, <1>4, <1>5, Typed DEF IInv, IngestOK, UnheldOK, WorkerRow, IsEvent, Ingested,
     RecvAttachAck, ReadHub, durable, worker, ListPcs, HeardPcs
<1>24. ReplayOK'
  BY <1>1, <1>2, <1>3, <1>4, <1>5 DEF IInv, IngestOK, ReplayOK, Ingested, RecvAttachAck, ReadHub,
     durable, worker, ListPcs, HeardPcs
<1>25. NoSilentLoss'
  BY <1>4 DEF Ingested
<1>26. ResetBetweenEras'
  BY <1>4 DEF Ingested
<1>27. QED
  BY <1>6, <1>7, <1>8, <1>9, <1>10, <1>11, <1>12, <1>13, <1>14, <1>15, <1>16, <1>17, <1>18, <1>19,
     <1>20, <1>21, <1>22, <1>23, <1>24, <1>25, <1>26 DEF ProtocolOK, ViewOK, IngestOK

-----------------------------------------------------------------------------
(* attachWorker(), timers and requests.                                    *)

\* A call of attachWorker() claims the session or passes it over.
LEMMA ReconcileKeeps ==
  ASSUME Ordinary, NEW r \in Runs, IInv, Reconcile(r)
  PROVE  ProtocolOK' /\ HeldOK' /\ ViewOK' /\ IngestOK'
<1>1. Recorded(r) /\ hubUp /\ busy' = RepairedBusy(r) /\ busy' \in BOOLEAN
  BY Typed DEF Reconcile, Recorded, RepairedBusy, RunStates
<1>2. \A pc \in {"attaching", "relisting"} : Await(r, pc) =>
        \E next \in RunStates : next.pc = pc /\ run' = [RunsAfter(r) EXCEPT ![r] = next]
  <2> SUFFICES ASSUME NEW pc \in {"attaching", "relisting"}, Await(r, pc)
               PROVE  \E next \in RunStates : next.pc = pc /\ run' = [RunsAfter(r) EXCEPT ![r] = next]
    OBVIOUS
  <2> DEFINE next == [IdleRun EXCEPT !.pc = pc, !.busyAt = busy']
  <2>1. next \in RunStates /\ next.pc = pc
    BY <1>1 DEF IdleRun, RunStates, RunPcs
  <2>2. run' = [RunsAfter(r) EXCEPT ![r] = next]
    BY DEF Await
  <2>3. QED BY <2>1, <2>2
<1>3. \E m : /\ SentWorker(m) /\ m.run = r
             /\ (m.t = "attach" /\ Await(r, "attaching")) \/ (m.t = "listLive" /\ Await(r, "relisting"))
             /\ m.t = "attach" /\ m.since # NoCursor =>
                  ClaimSession(r) /\ m.since = cursor
  <2>1. CASE ClaimSession(r)
    <3> DEFINE m == Attach(r, cursor)
    <3>1. m.t = "attach" /\ m.run = r /\ m.since = cursor
      BY DEF Attach
    <3>2. toWorker' = Append(toWorker, m) /\ Await(r, "attaching")
      BY <2>1 DEF ClaimSession
    <3> HIDE DEF m
    <3>3. SentWorker(m)
      BY <3>2, WorkerSent DEF IInv
    <3>4. QED BY <2>1, <3>1, <3>2, <3>3
  <2>2. CASE Await(r, "attaching") /\ toWorker' = Append(toWorker, Attach(r, NoCursor))
    <3> DEFINE m == Attach(r, NoCursor)
    <3>1. m.t = "attach" /\ m.run = r /\ m.since = NoCursor
      BY DEF Attach
    <3>2. toWorker' = Append(toWorker, m)
      BY <2>2
    <3> HIDE DEF m
    <3>3. SentWorker(m)
      BY <3>2, WorkerSent DEF IInv
    <3>4. QED BY <2>2, <3>1, <3>3
  <2>3. CASE Await(r, "relisting") /\ toWorker' = Append(toWorker, ListLive(r))
    <3> DEFINE m == ListLive(r)
    <3>1. m.t = "listLive" /\ m.run = r
      BY DEF ListLive
    <3>2. toWorker' = Append(toWorker, m)
      BY <2>3
    <3> HIDE DEF m
    <3>3. SentWorker(m)
      BY <3>2, WorkerSent DEF IInv
    <3>4. QED BY <2>3, <3>1, <3>3
  <2>4. QED BY <2>1, <2>2, <2>3 DEF Reconcile, PassOver
<1>4. PICK m :
        /\ SentWorker(m) /\ m.run = r /\ m.t \in {"attach", "listLive"}
        /\ (m.t = "attach" /\ Await(r, "attaching")) \/ (m.t = "listLive" /\ Await(r, "relisting"))
        /\ m.t = "attach" /\ m.since # NoCursor => ClaimSession(r) /\ m.since = cursor
  BY <1>3
<1>5. PICK next \in RunStates : next.pc = (IF m.t = "attach" THEN "attaching" ELSE "relisting")
                              /\ run' = [RunsAfter(r) EXCEPT ![r] = next]
  BY <1>2, <1>4
<1>6. /\ attached /\ link \in {"open", "workerGone"} /\ (link = "open" => NoRunTurn)
      /\ run' \in [Runs -> RunStates] /\ run'[r].pc = (IF m.t = "attach" THEN "attaching" ELSE "relisting")
      /\ \A q \in Runs : q # r => run'[q].pc = run[q].pc /\ run'[q].held = run[q].held
           /\ run'[q].busy = run[q].busy
      /\ \A i \in DOMAIN toWorker : ~RequestOf(i, r)
      /\ \A i \in DOMAIN toHub : ~AnswerOf(i, r)
  BY <1>1, <1>5, ReplyUsed
<1>7. run \in [Runs -> RunStates] /\ "attached" \in Runs
  BY Typed, RunsAssumption
<1>8. /\ UNCHANGED <<ring, turn, activeTurn, held, accepting, produced, link, toHub, retired, attached, hubUp, synced>>
      /\ UNCHANGED <<provider, journal, cursor, pending, calling, doubtful, turns>>
      /\ Attaching /\ Attaching' /\ (link = "open" => NoRunTurn')
  BY <1>1, <1>4, <1>6 DEF Reconcile, worker, Attaching, Recorded, NoRunTurn, SentWorker
<1>9. ClaimSession(r) => ~retired /\ (link = "open" => held)
  BY <1>1 DEF IInv, ProtocolOK, ProcessesOK, ClaimSession, HeldOK
<1>10. IngestOK'
  <2>1. guard' = guard \/ guard' = Larger(IF guard = NoGuard THEN cursor ELSE guard, cursor)
    BY DEF Reconcile, ClaimSession, PassOver
  <2>2. Seen' \in Nat /\ Seen' >= Seen /\ (Seen' = Seen \/ Seen' = cursor)
    BY <1>8, <2>1, Typed, SeenFacts DEF Seen, Larger, NoGuard, IInv
  <2>3. ClaimSession(r) => Seen' >= cursor
    BY <1>8, Typed DEF ClaimSession, Seen, Larger, NoGuard
  <2>4. QED BY <1>4, <1>8, <1>9, <2>2, <2>3, ClaimIngest
<1>11. retired => status' = status /\ stored' = stored
  BY <1>1, <1>9 DEF Reconcile, PassOver
<1>12. SocketOK'
  BY <1>1, <1>4, <1>6, <1>7, <1>8 DEF IInv, ProtocolOK, SocketOK, SentWorker
<1>13. ProcessesOK'
  BY <1>1, <1>8, <1>11 DEF IInv, ProtocolOK, ProcessesOK, SentWorker
<1>14. RunsOK'
  <2> SUFFICES ASSUME NEW q \in Runs PROVE RunOK(q)'
    BY DEF RunsOK
  <2>1. RunOK(q)
    BY <1>6 DEF IInv, ProtocolOK, RunsOK
  <2>2. CASE q # r
    BY <1>4, <1>6, <1>8, <2>1, <2>2 DEF RequestOf, SentWorker, RunOK, AnswerOf
  <2>3. CASE q = r
    BY <1>4, <1>6, <1>8, <2>3 DEF RequestOf, SentWorker, RunOK, AnswerOf, ListPcs
  <2>4. QED BY <2>2, <2>3
<1>15. CallsOK'
  BY <1>4, <1>8 DEF IInv, ProtocolOK, CallsOK, SentWorker, NoRunTurn
<1>16. StopOK'
  BY <1>4, <1>8, <1>9 DEF IInv, ProtocolOK, StopOK, NoRunTurn, SentWorker
<1>17. TurnOK'
  BY <1>6, <1>8 DEF IInv, ProtocolOK, TurnOK, NoRunTurn, Attaching, SentWorker
<1>18. HeldOK'
  BY <1>1, <1>4, <1>6, <1>7, <1>8 DEF IInv, HeldOK, Recorded, SentWorker
<1>19. SentOK'
  BY <1>8 DEF SentOK, View, NoRunTurn
<1>20. LiveMarksOK'
  BY <1>8 DEF IInv, ViewOK, LiveMarksOK, View, IsTurn, SentWorker
<1>21. ReplayedOK'
  BY <1>8 DEF IInv, ViewOK, ReplayedOK, View, IsTurn, LastTurn, SentWorker
<1>22. BusyOK'
  BY <1>1, <1>5, <1>8, BusyRepaired
<1>23. ReportOK'
  BY <1>1, <1>4, <1>6, <1>7, <1>8 DEF IInv, ViewOK, ReportOK, View, IsTurn, Recorded, SentWorker
<1>24. MarksOK'
  BY <1>10 DEF IngestOK
<1>25. TruthOK'
  BY <1>10 DEF IngestOK
<1>26. PendingOK'
  BY <1>10 DEF IngestOK
<1>27. NumbersOK'
  BY <1>10 DEF IngestOK
<1>28. FramesOK'
  BY <1>10 DEF IngestOK
<1>29. UnheldOK'
  BY <1>10 DEF IngestOK
<1>30. ReplayOK'
  BY <1>10 DEF IngestOK
<1>31. NoSilentLoss'
  BY <1>10 DEF IngestOK
<1>32. ResetBetweenEras'
  BY <1>10 DEF IngestOK
<1>33. QED
  BY <1>12, <1>13, <1>14, <1>15, <1>16, <1>17, <1>18, <1>19, <1>20, <1>21, <1>22, <1>23, <1>24,
     <1>25, <1>26, <1>27, <1>28, <1>29, <1>30, <1>31, <1>32 DEF ProtocolOK, ViewOK, IngestOK

\* The attach() is acknowledged: list again.
LEMMA RelistKeeps ==
  ASSUME Ordinary, NEW r \in Runs, IInv, Relist(r)
  PROVE  ProtocolOK' /\ HeldOK' /\ ViewOK' /\ IngestOK'
<1>1. SentWorker(ListLive(r)) /\ run \in [Runs -> RunStates] /\ "attached" \in Runs
  BY WorkerSent, Typed, RunsAssumption DEF IInv, Relist
<1>2. attached /\ run[r].pc = "drained" /\ run'[r].pc = "relisting"
      /\ \A q \in Runs : q # r => run'[q] = run[q]
  BY <1>1 DEF IInv, ProtocolOK, SocketOK, Relist, Listing, IdleRun
<1>3. Ingested
  BY <1>1, <1>2, Typed, FlushKeeps DEF Flushes, Relist, SentWorker, ListLive, Listing, IdleRun,
     durable, worker, channel
<1>4. FramesOK' /\ TruthOK'
  BY <1>1, <1>2, <1>3, Quiet DEF NoRunTurn, Relist, SentWorker, ListLive, Listing, IdleRun, durable,
     worker, channel
<1>5. SocketOK'
  BY <1>1, <1>2, <1>3 DEF IInv, ProtocolOK, SocketOK, Relist, SentWorker, ListLive, Listing,
     IdleRun, durable, worker, channel
<1>6. ProcessesOK'
  BY <1>1, <1>2, <1>3 DEF IInv, ProtocolOK, ProcessesOK, Relist, SentWorker, ListLive, Listing,
     IdleRun, durable, worker, channel
<1>7. RunsOK'
  <2> SUFFICES ASSUME NEW q \in Runs PROVE RunOK(q)'
    BY DEF RunsOK
  <2>1. RunOK(q)
    BY <1>2 DEF IInv, ProtocolOK, RunsOK
  <2>2. CASE q # r
    BY <1>1, <1>2, <2>1, <2>2 DEF RequestOf, SentWorker, ListLive, RunOK, AnswerOf, Relist
  <2>3. CASE q = r
    BY <1>1, <1>2, <2>1, <2>3 DEF RunOK, ListPcs, RequestOf, SentWorker, ListLive, AnswerOf, Relist
  <2>4. QED BY <2>2, <2>3
<1>8. CallsOK'
  BY <1>1, <1>2 DEF IInv, ProtocolOK, CallsOK, Relist, worker, SentWorker, ListLive, CallOK, HeardPcs
<1>9. StopOK'
  BY <1>1, <1>2, <1>3 DEF IInv, ProtocolOK, StopOK, NoRunTurn, Relist, SentWorker, ListLive,
     Listing, IdleRun, durable, worker, channel
<1>10. TurnOK'
  BY <1>1, <1>2, <1>3 DEF IInv, ProtocolOK, TurnOK, NoRunTurn, Attaching, Relist, SentWorker,
     ListLive, Listing, IdleRun, durable, worker, channel
<1>11. HeldOK'
  BY <1>1, <1>2, <1>3 DEF IInv, HeldOK, Recorded, Relist, SentWorker, ListLive, Listing, IdleRun,
     durable, worker, channel
<1>12. SentOK'
  BY <1>1, <1>2, <1>3 DEF IInv, ViewOK, SentOK, View, NoTurns, Relist, SentWorker, ListLive,
     Listing, IdleRun, durable, worker, channel
<1>13. LiveMarksOK'
  BY <1>1, <1>2, <1>3 DEF IInv, ViewOK, LiveMarksOK, View, IsTurn, Relist, SentWorker, ListLive,
     Listing, IdleRun, durable, worker, channel
<1>14. ReplayedOK'
  BY <1>1, <1>2, <1>3 DEF IInv, ViewOK, ReplayedOK, View, IsTurn, LastTurn, Relist, SentWorker,
     ListLive, Listing, IdleRun, durable, worker, channel
<1>15. BusyOK'
  BY <1>1, <1>2, <1>3 DEF IInv, ViewOK, BusyOK, NextIsLive, NoTurns, FirstTurn, View, IsTurn,
     Relist, SentWorker, ListLive, Listing, IdleRun, durable, worker, channel
<1>16. ReportOK'
  BY <1>1, <1>2, <1>3 DEF IInv, ViewOK, ReportOK, View, IsTurn, Recorded, Relist, SentWorker,
     ListLive, Listing, IdleRun, durable, worker, channel
<1>17. MarksOK'
  BY <1>1, <1>2, <1>3, Typed DEF IInv, IngestOK, MarksOK, Begun, NoRunTurn, Attaching, Ingested,
     Relist, SentWorker, ListLive, Listing, IdleRun, durable, worker, channel
<1>18. TruthOK'
  BY <1>4
<1>19. PendingOK'
  BY <1>3 DEF Ingested
<1>20. NumbersOK'
  BY <1>1, <1>2, <1>3 DEF IInv, IngestOK, NumbersOK, WorkerRow, Ingested, Relist, SentWorker,
     ListLive, Listing, IdleRun, durable, worker, channel
<1>21. FramesOK'
  BY <1>4
<1>22. UnheldOK'
  BY <1>1, <1>2, <1>3, Typed DEF IInv, IngestOK, UnheldOK, WorkerRow, IsEvent, Ingested, Relist,
     SentWorker, ListLive, Listing, IdleRun, durable, worker, channel
<1>23. ReplayOK'
  BY <1>1, <1>2, <1>3 DEF IInv, IngestOK, ReplayOK, Ingested, Relist, SentWorker, ListLive, Listing,
     IdleRun, durable, worker, channel
<1>24. NoSilentLoss'
  BY <1>3 DEF Ingested
<1>25. ResetBetweenEras'
  BY <1>3 DEF Ingested
<1>26. QED
  BY <1>5, <1>6, <1>7, <1>8, <1>9, <1>10, <1>11, <1>12, <1>13, <1>14, <1>15, <1>16, <1>17, <1>18,
     <1>19, <1>20, <1>21, <1>22, <1>23, <1>24, <1>25 DEF ProtocolOK, ViewOK, IngestOK

\* The sweep at the end of a call of attachWorker().
LEMMA SweepKeeps ==
  ASSUME Ordinary, NEW r \in Runs, IInv, Sweep(r)
  PROVE  ProtocolOK' /\ HeldOK' /\ ViewOK' /\ IngestOK'
<1>1. Recorded(r) /\ hubUp /\ IdleRun \in RunStates /\ IdleRun.pc = "none"
      /\ run' = [RunsAfter(r) EXCEPT ![r] = IdleRun] /\ busy' = RepairedBusy(r)
  BY DEF Sweep, Recorded, IdleRun, RunStates, RunPcs
<1>2. /\ attached /\ link \in {"open", "workerGone"} /\ (link = "open" => NoRunTurn)
      /\ run' \in [Runs -> RunStates] /\ run'[r].pc = "none"
      /\ \A q \in Runs : q # r => run'[q].pc = run[q].pc /\ run'[q].held = run[q].held
           /\ run'[q].busy = run[q].busy
      /\ \A i \in DOMAIN toWorker : ~RequestOf(i, r)
      /\ \A i \in DOMAIN toHub : ~AnswerOf(i, r)
  BY <1>1, ReplyUsed
<1>3. run \in [Runs -> RunStates] /\ "attached" \in Runs
  BY Typed, RunsAssumption
<1>4. /\ UNCHANGED <<ring, turn, held, produced, link, toHub, toWorker, retired, attached, synced>>
      /\ Attaching' => Attaching
  BY <1>2 DEF Sweep, worker, channel, Attaching
<1>5. IngestOK'
  <2>1. CASE run[r].held
    <3>1. link = "open" => held \/ retired
      BY <1>1, <2>1 DEF IInv, HeldOK
    <3>2. UNCHANGED <<journal, cursor, guard, pending>>
      BY <2>1 DEF Sweep
    <3>3. Ingested
      BY <1>4, <3>2, Typed, FlushKeeps DEF Flushes
    <3>4. FramesOK' /\ TruthOK'
      BY <1>4, <3>3, Quiet DEF NoRunTurn
    <3>5. MarksOK'
      BY <1>4, <3>1, <3>2 DEF IInv, IngestOK, MarksOK, Begun, NoRunTurn, Seen
    <3>6. NumbersOK' /\ UnheldOK'
      BY <1>4, <3>2 DEF IInv, IngestOK, NumbersOK, WorkerRow, Era, UnheldOK, IsEvent
    <3>7. ReplayOK'
      BY <1>4, <3>2 DEF IInv, IngestOK, ReplayOK, Seen, Era
    <3>8. QED BY <3>3, <3>4, <3>5, <3>6, <3>7 DEF IngestOK, Ingested
  <2>2. CASE ~run[r].held
    BY <1>1, <1>2, <1>4, <2>2, SweepSweeps, SweptIngest DEF IInv, HeldOK, ProtocolOK, ProcessesOK, Sweep
  <2>3. QED BY <2>1, <2>2
<1>6. retired => status' = status /\ stored' = stored
  BY <1>1 DEF IInv, ProtocolOK, ProcessesOK, Sweep, SweepStale
<1>7. SocketOK'
  BY <1>1, <1>2, <1>3, <1>4 DEF IInv, ProtocolOK, SocketOK, Sweep, worker, channel
<1>8. ProcessesOK'
  BY <1>1, <1>4, <1>6 DEF IInv, ProtocolOK, ProcessesOK, Sweep, worker, channel
<1>9. RunsOK'
  BY <1>2, <1>4 DEF RunsOK, IInv, ProtocolOK, RunOK, RequestOf, AnswerOf
<1>10. CallsOK'
  BY <1>2, <1>4 DEF IInv, ProtocolOK, CallsOK, Sweep, worker, channel, NoRunTurn
<1>11. StopOK'
  BY <1>4 DEF IInv, ProtocolOK, StopOK, NoRunTurn, Sweep, worker, channel
<1>12. TurnOK'
  BY <1>2, <1>4 DEF IInv, ProtocolOK, TurnOK, NoRunTurn, Attaching, Sweep, worker, channel
<1>13. HeldOK'
  BY <1>1, <1>2, <1>3, <1>4 DEF IInv, HeldOK, Recorded, Sweep, worker, channel
<1>14. SentOK'
  BY <1>2, <1>4 DEF SentOK, View, NoRunTurn
<1>15. LiveMarksOK'
  BY <1>1, <1>2, <1>3, <1>4 DEF IInv, ViewOK, LiveMarksOK, View, IsTurn, Sweep, worker, channel
<1>16. ReplayedOK'
  BY <1>1, <1>2, <1>3, <1>4 DEF IInv, ViewOK, ReplayedOK, View, IsTurn, LastTurn, Sweep, worker,
     channel
<1>17. BusyOK'
  BY <1>1, <1>4, BusyRepaired DEF Sweep, channel
<1>18. ReportOK'
  BY <1>1, <1>2, <1>3, <1>4 DEF IInv, ViewOK, ReportOK, View, IsTurn, Recorded, Sweep, worker,
     channel
<1>19. MarksOK'
  BY <1>5 DEF IngestOK
<1>20. TruthOK'
  BY <1>5 DEF IngestOK
<1>21. PendingOK'
  BY <1>5 DEF IngestOK
<1>22. NumbersOK'
  BY <1>5 DEF IngestOK
<1>23. FramesOK'
  BY <1>5 DEF IngestOK
<1>24. UnheldOK'
  BY <1>5 DEF IngestOK
<1>25. ReplayOK'
  BY <1>5 DEF IngestOK
<1>26. NoSilentLoss'
  BY <1>5 DEF IngestOK
<1>27. ResetBetweenEras'
  BY <1>5 DEF IngestOK
<1>28. QED
  BY <1>7, <1>8, <1>9, <1>10, <1>11, <1>12, <1>13, <1>14, <1>15, <1>16, <1>17, <1>18, <1>19, <1>20,
     <1>21, <1>22, <1>23, <1>24, <1>25, <1>26, <1>27 DEF ProtocolOK, ViewOK, IngestOK

\* reconcileStale() of a promoted hub.
LEMMA ReconcileStaleKeeps ==
  ASSUME Ordinary, IInv, ReconcileStale
  PROVE  ProtocolOK' /\ HeldOK' /\ ViewOK' /\ IngestOK'
<1>1. run \in [Runs -> RunStates] /\ "attached" \in Runs /\ "promote" \in Runs /\ run["promote"].pc = "ready"
      /\ (attached => SentWorker(ListLive("promote"))) /\ (~attached => toWorker' = toWorker)
  BY WorkerSent, Typed, RunsAssumption DEF IInv, ReconcileStale
<1>2. /\ run'["promote"].pc = IF attached THEN "listing" ELSE "none"
      /\ \A q \in Runs : q # "promote" => run'[q] = run[q]
  BY <1>1 DEF ReconcileStale, Listing, IdleRun
<1>3. link = "open" /\ attached => turn # "resuming" /\ (held \/ provider = "claude" \/ NoRunTurn)
  <2> SUFFICES ASSUME link = "open", attached PROVE turn # "resuming" /\ (held \/ provider = "claude"
       \/ NoRunTurn)
    OBVIOUS
  <2>1. CASE held \/ provider = "claude"
    BY <2>1 DEF IInv, ProtocolOK, TurnOK
  <2>2. CASE ~(held \/ provider = "claude")
    <3>1. turn # "resuming" /\ calling = 0 /\ ~doubtful
      BY <2>2 DEF ReconcileStale, Resumed, Ordinary
    <3>2. ASSUME NEW i \in DOMAIN toWorker, toWorker[i].t = "runTurn"
          PROVE  FALSE
      BY <3>1, <3>2, Typed DEF IInv, ProtocolOK, CallsOK, CallOK
    <3>3. QED BY <3>1, <3>2 DEF NoRunTurn
  <2>3. QED BY <2>1, <2>2
<1>4. Ingested
  BY <1>1, <1>2, <1>3, Typed, FlushKeeps DEF Flushes, ReconcileStale, SentWorker, ListLive, durable,
     worker, channel
<1>5. FramesOK' /\ TruthOK'
  BY <1>1, <1>2, <1>3, <1>4, Quiet DEF NoRunTurn, ReconcileStale, SentWorker, ListLive, durable,
     worker, channel
<1>6. SocketOK'
  BY <1>1, <1>2, <1>3, <1>4 DEF IInv, ProtocolOK, SocketOK, ReconcileStale, SentWorker, ListLive,
     durable, worker, channel
<1>7. ProcessesOK'
  BY <1>1, <1>2, <1>3, <1>4 DEF IInv, ProtocolOK, ProcessesOK, ReconcileStale, SentWorker, ListLive,
     durable, worker, channel
<1>8. RunsOK'
  <2> SUFFICES ASSUME attached, NEW q \in Runs PROVE RunOK(q)'
    BY DEF RunsOK, ReconcileStale
  <2>1. RunOK(q)
    BY DEF IInv, ProtocolOK, RunsOK
  <2>2. CASE q # "promote"
    BY <1>1, <1>2, <2>1, <2>2 DEF RequestOf, SentWorker, ListLive, RunOK, AnswerOf, ReconcileStale
  <2>3. CASE q = "promote"
    BY <1>1, <1>2, <2>1, <2>3 DEF RunOK, ListPcs, RequestOf, SentWorker, ListLive, AnswerOf, ReconcileStale
  <2>4. QED BY <2>2, <2>3
<1>9. CallsOK'
  <2>1. calling' <= turns' /\ accepting' <= turns'
             /\ (\A i \in DOMAIN toHub' : toHub'[i].t = "ack" => toHub'[i].call <= turns')
    BY DEF IInv, ProtocolOK, CallsOK, ReconcileStale, worker
  <2>2. ASSUME NEW i \in DOMAIN toWorker', toWorker'[i].t = "runTurn"
        PROVE  i \in DOMAIN toWorker /\ toWorker'[i] = toWorker[i] /\ toWorker'[i].call \in 1 .. turns'
    BY <1>1, <2>2 DEF IInv, ProtocolOK, CallsOK, ReconcileStale, SentWorker, ListLive
  <2>3. ASSUME link = "open", NEW i \in DOMAIN toWorker, toWorker[i].t = "runTurn"
        PROVE  CallOK(i)'
    BY <1>1, <1>2, <2>3, QueuesTyped DEF IInv, ProtocolOK, CallsOK, SentWorker, ListLive, CallOK, HeardPcs,
       ReconcileStale, worker
  <2>4. QED BY <2>1, <2>2, <2>3 DEF CallsOK, ReconcileStale
<1>10. StopOK'
  BY <1>1, <1>2, <1>3, <1>4 DEF IInv, ProtocolOK, StopOK, NoRunTurn, ReconcileStale, SentWorker,
     ListLive, durable, worker, channel
<1>11. TurnOK'
  BY <1>1, <1>2, <1>3, <1>4 DEF IInv, ProtocolOK, TurnOK, NoRunTurn, Attaching, ReconcileStale,
     SentWorker, ListLive, durable, worker, channel
<1>12. HeldOK'
  BY <1>1, <1>2, <1>3, <1>4 DEF IInv, HeldOK, Recorded, ReconcileStale, SentWorker, ListLive,
     durable, worker, channel
<1>13. SentOK'
  BY <1>1, <1>2, <1>3, <1>4 DEF IInv, ViewOK, SentOK, View, NoTurns, ReconcileStale, SentWorker,
     ListLive, durable, worker, channel
<1>14. LiveMarksOK'
  BY <1>1, <1>2, <1>3, <1>4 DEF IInv, ViewOK, LiveMarksOK, View, IsTurn, ReconcileStale, SentWorker,
     ListLive, durable, worker, channel
<1>15. ReplayedOK'
  BY <1>1, <1>2, <1>3, <1>4 DEF IInv, ViewOK, ReplayedOK, View, IsTurn, LastTurn, ReconcileStale,
     SentWorker, ListLive, durable, worker, channel
<1>16. BusyOK'
  BY <1>1, <1>2, <1>3, <1>4 DEF IInv, ViewOK, BusyOK, NextIsLive, NoTurns, FirstTurn, View, IsTurn,
     ReconcileStale, SentWorker, ListLive, durable, worker, channel
<1>17. ReportOK'
  BY <1>1, <1>2, <1>3, <1>4 DEF IInv, ViewOK, ReportOK, View, IsTurn, Recorded, ReconcileStale,
     SentWorker, ListLive, durable, worker, channel
<1>18. MarksOK'
  BY <1>1, <1>2, <1>3, <1>4, Typed DEF IInv, IngestOK, MarksOK, Begun, NoRunTurn, Attaching,
     Ingested, ReconcileStale, SentWorker, ListLive, durable, worker, channel
<1>19. TruthOK'
  BY <1>5
<1>20. PendingOK'
  BY <1>4 DEF Ingested
<1>21. NumbersOK'
  BY <1>1, <1>2, <1>3, <1>4 DEF IInv, IngestOK, NumbersOK, WorkerRow, Ingested, ReconcileStale,
     SentWorker, ListLive, durable, worker, channel
<1>22. FramesOK'
  BY <1>5
<1>23. UnheldOK'
  BY <1>1, <1>2, <1>3, <1>4, Typed DEF IInv, IngestOK, UnheldOK, WorkerRow, IsEvent, Ingested,
     ReconcileStale, SentWorker, ListLive, durable, worker, channel
<1>24. ReplayOK'
  BY <1>1, <1>2, <1>3, <1>4 DEF IInv, IngestOK, ReplayOK, Ingested, ReconcileStale, SentWorker,
     ListLive, durable, worker, channel
<1>25. NoSilentLoss'
  BY <1>4 DEF Ingested
<1>26. ResetBetweenEras'
  BY <1>4 DEF Ingested
<1>27. QED
  BY <1>6, <1>7, <1>8, <1>9, <1>10, <1>11, <1>12, <1>13, <1>14, <1>15, <1>16, <1>17, <1>18, <1>19,
     <1>20, <1>21, <1>22, <1>23, <1>24, <1>25, <1>26 DEF ProtocolOK, ViewOK, IngestOK

\* The flush timer.
LEMMA FlushTimerKeeps ==
  ASSUME Ordinary, IInv, FlushTimer
  PROVE  ProtocolOK' /\ HeldOK' /\ ViewOK' /\ IngestOK'
<1>1. Ingested
  BY Typed, FlushKeeps DEF Flushes, FlushTimer, durable, worker, channel
<1>2. FramesOK' /\ TruthOK'
  BY <1>1, Quiet DEF NoRunTurn, FlushTimer, durable, worker, channel
<1>3. SocketOK'
  BY <1>1 DEF IInv, ProtocolOK, SocketOK, FlushTimer, durable, worker, channel
<1>4. ProcessesOK'
  BY <1>1 DEF IInv, ProtocolOK, ProcessesOK, FlushTimer, durable, worker, channel
<1>5. RunsOK'
  BY <1>1 DEF IInv, ProtocolOK, RunsOK, RunOK, RequestOf, AnswerOf, FlushTimer, durable, worker,
     channel
<1>6. CallsOK'
  BY <1>1 DEF IInv, ProtocolOK, CallsOK, CallOK, FlushTimer, durable, worker, channel
<1>7. StopOK'
  BY <1>1 DEF IInv, ProtocolOK, StopOK, NoRunTurn, FlushTimer, durable, worker, channel
<1>8. TurnOK'
  BY <1>1 DEF IInv, ProtocolOK, TurnOK, NoRunTurn, Attaching, FlushTimer, durable, worker, channel
<1>9. HeldOK'
  BY <1>1 DEF IInv, HeldOK, Recorded, FlushTimer, durable, worker, channel
<1>10. SentOK'
  BY <1>1 DEF IInv, ViewOK, SentOK, View, NoTurns, FlushTimer, durable, worker, channel
<1>11. LiveMarksOK'
  BY <1>1 DEF IInv, ViewOK, LiveMarksOK, View, IsTurn, FlushTimer, durable, worker, channel
<1>12. ReplayedOK'
  BY <1>1 DEF IInv, ViewOK, ReplayedOK, View, IsTurn, LastTurn, FlushTimer, durable, worker, channel
<1>13. BusyOK'
  BY <1>1 DEF IInv, ViewOK, BusyOK, NextIsLive, NoTurns, FirstTurn, View, IsTurn, FlushTimer,
     durable, worker, channel
<1>14. ReportOK'
  BY <1>1 DEF IInv, ViewOK, ReportOK, View, IsTurn, Recorded, FlushTimer, durable, worker, channel
<1>15. MarksOK'
  BY <1>1, Typed DEF IInv, IngestOK, MarksOK, Begun, NoRunTurn, Attaching, Ingested, FlushTimer,
     durable, worker, channel
<1>16. TruthOK'
  BY <1>2
<1>17. PendingOK'
  BY <1>1 DEF Ingested
<1>18. NumbersOK'
  BY <1>1 DEF IInv, IngestOK, NumbersOK, WorkerRow, Ingested, FlushTimer, durable, worker, channel
<1>19. FramesOK'
  BY <1>2
<1>20. UnheldOK'
  BY <1>1, Typed DEF IInv, IngestOK, UnheldOK, WorkerRow, IsEvent, Ingested, FlushTimer, durable,
     worker, channel
<1>21. ReplayOK'
  BY <1>1 DEF IInv, IngestOK, ReplayOK, Ingested, FlushTimer, durable, worker, channel
<1>22. NoSilentLoss'
  BY <1>1 DEF Ingested
<1>23. ResetBetweenEras'
  BY <1>1 DEF Ingested
<1>24. QED
  BY <1>3, <1>4, <1>5, <1>6, <1>7, <1>8, <1>9, <1>10, <1>11, <1>12, <1>13, <1>14, <1>15, <1>16,
     <1>17, <1>18, <1>19, <1>20, <1>21, <1>22, <1>23 DEF ProtocolOK, ViewOK, IngestOK

\* A turn with a worker: it runs none, and none is on its way.
LEMMA SendTurnKeeps ==
  ASSUME Ordinary, IInv, SendTurn
  PROVE  ProtocolOK' /\ HeldOK' /\ ViewOK' /\ IngestOK'
<1>1. /\ run' \in [Runs -> RunStates] /\ run \in [Runs -> RunStates] /\ "attached" \in Runs
      /\ \A q \in Runs : run'[q].pc = run[q].pc /\ run'[q].held = run[q].held /\ run'[q].busy = run[q].busy
  BY TouchedOnly, Typed, RunsAssumption DEF SendTurn
<1>2. SentWorker(RunTurn(turns')) /\ turns' = turns + 1 /\ turns \in Nat
  BY WorkerSent, Typed DEF IInv, SendTurn
<1>3. /\ attached /\ ~busy /\ ~Attaching /\ ~retired /\ (link = "open" => cursor <= ring.last)
      /\ \A r \in Runs : run[r].pc \in {"none", "ready"} /\ (r = "attached" => run[r].pc = "none")
  BY <1>1 DEF SendTurn, Admits, Ordinary, HubTick, Attaching, IInv, ProtocolOK, ProcessesOK, SocketOK
<1>4. /\ \A i \in DOMAIN toWorker : toWorker[i].t \notin {"listLive", "attach"}
      /\ \A i \in DOMAIN toHub : toHub[i].t \notin {"live", "attachAck"}
  BY <1>3, QueuesTyped, FieldsTyped, CommandFields DEF IInv, ProtocolOK, RunsOK, RunOK, ListPcs, RequestOf,
     AnswerOf
<1>5. \A i \in DOMAIN toHub : IsTurn(i) => ~toHub[i].replay
  BY <1>4 DEF IInv, ViewOK, ReplayedOK
<1>6. View => turn = "none" /\ NoTurns /\ NoRunTurn
  <2> SUFFICES ASSUME View PROVE turn = "none" /\ NoTurns /\ NoRunTurn
    OBVIOUS
  <2>1. ~NextIsLive
    BY <1>1, <1>3 DEF IInv, ViewOK, BusyOK
  <2>2. ASSUME NEW i \in DOMAIN toHub, IsTurn(i)
        PROVE  FALSE
    <3>1. \A j, k \in DOMAIN toHub : IsTurn(j) /\ IsTurn(k) /\ j # k => toHub[j].kind = "started"
               \/ toHub[k].kind = "started"
      BY <1>5, QueuesTyped DEF IInv, ViewOK, LiveMarksOK
    <3>2. \A j \in DOMAIN toHub : IsTurn(j) /\ toHub[j].kind = "started" => FirstTurn(j)
      BY <1>5 DEF IInv, ViewOK, LiveMarksOK, FirstTurn
    <3>3. \E j \in DOMAIN toHub : FirstTurn(j)
      BY <2>2, <3>1, <3>2, QueuesTyped DEF FirstTurn
    <3>4. QED BY <1>5, <2>1, <3>3 DEF NextIsLive, FirstTurn
  <2>3. turn = "none" /\ NoTurns
    BY <2>1, <2>2 DEF NextIsLive, NoTurns, IsTurn
  <2>4. NoRunTurn
    BY <1>3 DEF IInv, ViewOK, SentOK, NoRunTurn
  <2>5. QED BY <2>3, <2>4
<1>7. /\ \A j \in DOMAIN toWorker' : (j \in DOMAIN toWorker /\ toWorker'[j] = toWorker[j])
           \/ (j = Len(toWorker) + 1 /\ toWorker'[j].t = "runTurn" /\ toWorker'[j].call = turns')
      /\ \A j \in DOMAIN toWorker : j <= Len(toWorker) /\ j \in Nat
      /\ Len(toWorker) \in Nat
  BY <1>2 DEF SentWorker, RunTurn
<1>8. \A j \in DOMAIN toWorker' : toWorker'[j].t # "runTurn" => j \in DOMAIN toWorker
           /\ toWorker'[j] = toWorker[j]
  BY <1>7
<1>9. Ingested
  BY <1>1, <1>2, <1>3, <1>4, <1>5, <1>6, <1>7, <1>8, Typed, FlushKeeps DEF Flushes, SendTurn,
     SentWorker, RunTurn, HubTick, durable, worker, channel
<1>10. FramesOK' /\ TruthOK'
  BY <1>1, <1>2, <1>3, <1>4, <1>5, <1>6, <1>7, <1>8, <1>9, Quiet DEF NoRunTurn, SendTurn,
     SentWorker, RunTurn, HubTick, durable, worker, channel
<1>11. SocketOK'
  BY <1>1, <1>2, <1>3, <1>4, <1>5, <1>6, <1>7, <1>8, <1>9 DEF IInv, ProtocolOK, SocketOK, SendTurn,
     SentWorker, RunTurn, HubTick, durable, worker, channel
<1>12. ProcessesOK'
  BY <1>1, <1>2, <1>3, <1>4, <1>5, <1>6, <1>7, <1>8, <1>9 DEF IInv, ProtocolOK, ProcessesOK,
     SendTurn, SentWorker, RunTurn, HubTick, durable, worker, channel
<1>13. RunsOK'
  BY <1>1, <1>8 DEF RunsOK, SendTurn, IInv, ProtocolOK, RequestOf, RunOK, AnswerOf
<1>14. CallsOK'
  <2>1. calling' <= turns' /\ accepting' <= turns'
             /\ (\A i \in DOMAIN toHub' : toHub'[i].t = "ack" => toHub'[i].call <= turns')
    BY <1>2, Typed, FieldsTyped DEF IInv, ProtocolOK, CallsOK, SendTurn, worker
  <2>2. \A i \in DOMAIN toWorker' : toWorker'[i].t = "runTurn" => toWorker'[i].call \in 1 .. turns'
    BY <1>2, <1>7, QueuesTyped, CommandFields DEF IInv, ProtocolOK, CallsOK
  <2>3. ASSUME link = "open", NEW i \in DOMAIN toWorker', toWorker'[i].t = "runTurn"
        PROVE  CallOK(i)'
    <3>1. \A q \in Runs : run'[q].pc \notin HeardPcs
      BY <1>1, <1>3 DEF HeardPcs
    <3>2. calling' = turns'
      BY DEF SendTurn
    <3>3. \A j \in DOMAIN toWorker' : toWorker'[j].t \notin {"listLive", "attach"}
      BY <1>4, <1>7
    <3>4. CASE i \in DOMAIN toWorker /\ toWorker'[i] = toWorker[i]
      BY <1>2, <1>6, <1>7, <2>3, <3>1, <3>3, <3>4 DEF IInv, ProtocolOK, CallsOK, View, NoRunTurn, CallOK,
         SendTurn, worker
    <3>5. CASE i = Len(toWorker) + 1 /\ toWorker'[i].call = turns'
      <4>1. \A j \in DOMAIN toWorker' : toWorker'[j].t = "runTurn" /\ toWorker'[j].call = turns' => j = i
        BY <1>2, <1>7, <3>5 DEF IInv, ProtocolOK, CallsOK
      <4>2. \A j \in DOMAIN toHub' : toHub'[j].t \notin {"live", "attachAck"}
                 /\ (toHub'[j].t = "ack" => toHub'[j].call # turns')
        BY <1>2, <1>4, FieldsTyped DEF IInv, ProtocolOK, CallsOK, SendTurn
      <4>3. accepting' # turns'
        BY <1>2, Typed DEF IInv, ProtocolOK, CallsOK, SendTurn, worker
      <4>4. QED BY <3>1, <3>2, <3>3, <3>5, <4>1, <4>2, <4>3 DEF CallOK
    <3>6. QED BY <1>7, <2>3, <3>4, <3>5
  <2>4. QED BY <2>1, <2>2, <2>3 DEF CallsOK, SendTurn
<1>15. StopOK'
  BY <1>3, <1>8 DEF IInv, ProtocolOK, StopOK, SendTurn
<1>16. TurnOK'
  BY <1>1, <1>2, <1>3, <1>4, <1>5, <1>6, <1>7, <1>8, <1>9 DEF IInv, ProtocolOK, TurnOK, NoRunTurn,
     Attaching, SendTurn, SentWorker, RunTurn, HubTick, durable, worker, channel
<1>17. HeldOK'
  BY <1>1, <1>2, <1>3, <1>4, <1>5, <1>6, <1>7, <1>8, <1>9 DEF IInv, HeldOK, Recorded, SendTurn,
     SentWorker, RunTurn, HubTick, durable, worker, channel
<1>18. SentOK'
  BY <1>6, <1>7 DEF NoRunTurn, View, SendTurn, SentOK, NoTurns, worker
<1>19. LiveMarksOK'
  BY <1>1, <1>2, <1>3, <1>4, <1>5, <1>6, <1>7, <1>8, <1>9 DEF IInv, ViewOK, LiveMarksOK, View,
     IsTurn, SendTurn, SentWorker, RunTurn, HubTick, durable, worker, channel
<1>20. ReplayedOK'
  BY <1>1, <1>2, <1>3, <1>4, <1>5, <1>6, <1>7, <1>8, <1>9 DEF IInv, ViewOK, ReplayedOK, View,
     IsTurn, LastTurn, SendTurn, SentWorker, RunTurn, HubTick, durable, worker, channel
<1>21. BusyOK'
  BY <1>1, <1>2, <1>3, <1>4, <1>5, <1>6, <1>7, <1>8, <1>9 DEF IInv, ViewOK, BusyOK, NextIsLive,
     NoTurns, FirstTurn, View, IsTurn, SendTurn, SentWorker, RunTurn, HubTick, durable, worker,
     channel
<1>22. ReportOK'
  BY <1>1, <1>2, <1>3, <1>4, <1>5, <1>6, <1>7, <1>8, <1>9 DEF IInv, ViewOK, ReportOK, View, IsTurn,
     Recorded, SendTurn, SentWorker, RunTurn, HubTick, durable, worker, channel
<1>23. MarksOK'
  <2>1. Attaching' <=> Attaching
    BY <1>1 DEF Attaching
  <2>2. CASE link # "open"
    <3>1. link = "workerGone"
      BY <1>3, <2>2 DEF IInv, ProtocolOK, SocketOK
    <3>2. Begun' <=> Begun
      BY <3>1 DEF Begun, SendTurn, worker, channel
    <3>3. QED BY <2>1, <3>1, <3>2, <1>9, Typed DEF IInv, IngestOK, MarksOK, Ingested, SendTurn, worker, durable
  <2>3. CASE link = "open"
    <3>1. Seen <= ring.last /\ cursor <= ring.last
      BY <1>3, <2>3, Typed DEF IInv, IngestOK, MarksOK
    <3>2. Begun'
      BY <1>2, <2>3 DEF Begun, NoRunTurn, SentWorker, RunTurn, SendTurn
    <3>3. QED BY <3>1, <3>2, <1>9 DEF MarksOK, Ingested, SendTurn, durable, worker
  <2>4. QED BY <2>2, <2>3
<1>24. TruthOK'
  BY <1>10
<1>25. PendingOK'
  BY <1>9 DEF Ingested
<1>26. NumbersOK'
  BY <1>1, <1>2, <1>3, <1>4, <1>5, <1>6, <1>7, <1>8, <1>9 DEF IInv, IngestOK, NumbersOK, WorkerRow,
     Ingested, SendTurn, SentWorker, RunTurn, HubTick, durable, worker, channel
<1>27. FramesOK'
  BY <1>10
<1>28. UnheldOK'
  BY <1>1, <1>2, <1>3, <1>4, <1>5, <1>6, <1>7, <1>8, <1>9, Typed DEF IInv, IngestOK, UnheldOK,
     WorkerRow, IsEvent, Ingested, SendTurn, SentWorker, RunTurn, HubTick, durable, worker, channel
<1>29. ReplayOK'
  BY <1>1, <1>2, <1>3, <1>4, <1>5, <1>6, <1>7, <1>8, <1>9 DEF IInv, IngestOK, ReplayOK, Ingested,
     SendTurn, SentWorker, RunTurn, HubTick, durable, worker, channel
<1>30. NoSilentLoss'
  BY <1>9 DEF Ingested
<1>31. ResetBetweenEras'
  BY <1>9 DEF Ingested
<1>32. QED
  BY <1>11, <1>12, <1>13, <1>14, <1>15, <1>16, <1>17, <1>18, <1>19, <1>20, <1>21, <1>22, <1>23,
     <1>24, <1>25, <1>26, <1>27, <1>28, <1>29, <1>30, <1>31 DEF ProtocolOK, ViewOK, IngestOK

\* A turn without a worker.
LEMMA SendTurnUnattachedKeeps ==
  ASSUME Ordinary, IInv, SendTurnUnattached
  PROVE  ProtocolOK' /\ HeldOK' /\ ViewOK' /\ IngestOK'
<1>1. Ingested
  BY Typed, FlushKeeps DEF Flushes, SendTurnUnattached, UnconfirmedTurn, HubTick, SetStatus,
     durable, worker, channel, Admits
<1>2. FramesOK' /\ TruthOK'
  BY <1>1, Quiet DEF NoRunTurn, SendTurnUnattached, UnconfirmedTurn, HubTick, SetStatus, durable,
     worker, channel, Admits
<1>3. SocketOK'
  BY <1>1 DEF IInv, ProtocolOK, SocketOK, SendTurnUnattached, UnconfirmedTurn, HubTick, SetStatus,
     durable, worker, channel, Admits
<1>4. ProcessesOK'
  BY <1>1 DEF IInv, ProtocolOK, ProcessesOK, SendTurnUnattached, UnconfirmedTurn, HubTick,
     SetStatus, durable, worker, channel, Admits
<1>5. RunsOK'
  BY <1>1 DEF IInv, ProtocolOK, RunsOK, RunOK, RequestOf, AnswerOf, SendTurnUnattached,
     UnconfirmedTurn, HubTick, SetStatus, durable, worker, channel, Admits
<1>6. CallsOK'
  <2>1. calling' <= turns' /\ accepting' <= turns'
    BY Typed DEF IInv, ProtocolOK, CallsOK, SendTurnUnattached, worker, channel
  <2>2. /\ \A i \in DOMAIN toHub : toHub[i].t = "ack" => toHub[i].call <= turns'
        /\ \A i \in DOMAIN toWorker : toWorker[i].t = "runTurn" => toWorker[i].call \in 1 .. turns'
    BY Typed, FieldsTyped DEF IInv, ProtocolOK, CallsOK, SendTurnUnattached, worker, channel
  <2>3. ASSUME link = "open", NEW i \in DOMAIN toWorker, toWorker[i].t = "runTurn"
        PROVE  CallOK(i)'
    BY <2>3 DEF IInv, ProtocolOK, CallsOK, CallOK, SendTurnUnattached, worker, channel
  <2>4. QED BY <2>1, <2>2, <2>3 DEF CallsOK, SendTurnUnattached, worker, channel
<1>7. StopOK'
  BY <1>1 DEF IInv, ProtocolOK, StopOK, NoRunTurn, SendTurnUnattached, UnconfirmedTurn, HubTick,
     SetStatus, durable, worker, channel, Admits
<1>8. TurnOK'
  BY <1>1 DEF IInv, ProtocolOK, TurnOK, NoRunTurn, Attaching, SendTurnUnattached, UnconfirmedTurn,
     HubTick, SetStatus, durable, worker, channel, Admits
<1>9. HeldOK'
  BY <1>1 DEF IInv, HeldOK, Recorded, SendTurnUnattached, UnconfirmedTurn, HubTick, SetStatus,
     durable, worker, channel, Admits
<1>10. SentOK'
  BY <1>1 DEF IInv, ViewOK, SentOK, View, NoTurns, SendTurnUnattached, UnconfirmedTurn, HubTick,
     SetStatus, durable, worker, channel, Admits
<1>11. LiveMarksOK'
  BY <1>1 DEF IInv, ViewOK, LiveMarksOK, View, IsTurn, SendTurnUnattached, UnconfirmedTurn, HubTick,
     SetStatus, durable, worker, channel, Admits
<1>12. ReplayedOK'
  BY <1>1 DEF IInv, ViewOK, ReplayedOK, View, IsTurn, LastTurn, SendTurnUnattached, UnconfirmedTurn,
     HubTick, SetStatus, durable, worker, channel, Admits
<1>13. BusyOK'
  BY <1>1 DEF IInv, ViewOK, BusyOK, NextIsLive, NoTurns, FirstTurn, View, IsTurn,
     SendTurnUnattached, UnconfirmedTurn, HubTick, SetStatus, durable, worker, channel, Admits
<1>14. ReportOK'
  BY <1>1 DEF IInv, ViewOK, ReportOK, View, IsTurn, Recorded, SendTurnUnattached, UnconfirmedTurn,
     HubTick, SetStatus, durable, worker, channel, Admits
<1>15. MarksOK'
  BY <1>1, Typed DEF IInv, IngestOK, MarksOK, Begun, NoRunTurn, Attaching, Ingested,
     SendTurnUnattached, UnconfirmedTurn, HubTick, SetStatus, durable, worker, channel, Admits
<1>16. TruthOK'
  BY <1>2
<1>17. PendingOK'
  BY <1>1 DEF Ingested
<1>18. NumbersOK'
  BY <1>1 DEF IInv, IngestOK, NumbersOK, WorkerRow, Ingested, SendTurnUnattached, UnconfirmedTurn,
     HubTick, SetStatus, durable, worker, channel, Admits
<1>19. FramesOK'
  BY <1>2
<1>20. UnheldOK'
  BY <1>1, Typed DEF IInv, IngestOK, UnheldOK, WorkerRow, IsEvent, Ingested, SendTurnUnattached,
     UnconfirmedTurn, HubTick, SetStatus, durable, worker, channel, Admits
<1>21. ReplayOK'
  BY <1>1 DEF IInv, IngestOK, ReplayOK, Ingested, SendTurnUnattached, UnconfirmedTurn, HubTick,
     SetStatus, durable, worker, channel, Admits
<1>22. NoSilentLoss'
  BY <1>1 DEF Ingested
<1>23. ResetBetweenEras'
  BY <1>1 DEF Ingested
<1>24. QED
  BY <1>3, <1>4, <1>5, <1>6, <1>7, <1>8, <1>9, <1>10, <1>11, <1>12, <1>13, <1>14, <1>15, <1>16,
     <1>17, <1>18, <1>19, <1>20, <1>21, <1>22, <1>23 DEF ProtocolOK, ViewOK, IngestOK

\* The operator stops the session.
LEMMA StopKeeps ==
  ASSUME Ordinary, IInv, Stop
  PROVE  ProtocolOK' /\ HeldOK' /\ ViewOK' /\ IngestOK'
<1>1. Ingested
  BY Typed, FlushKeeps DEF Flushes, Stop, SetStatus, durable, worker, channel
<1>2. FramesOK' /\ TruthOK'
  BY <1>1, Quiet DEF NoRunTurn, Stop, SetStatus, durable, worker, channel
<1>3. SocketOK'
  BY <1>1 DEF IInv, ProtocolOK, SocketOK, Stop, SetStatus, durable, worker, channel
<1>4. ProcessesOK'
  BY <1>1 DEF IInv, ProtocolOK, ProcessesOK, Stop, SetStatus, durable, worker, channel
<1>5. RunsOK'
  BY <1>1 DEF IInv, ProtocolOK, RunsOK, RunOK, RequestOf, AnswerOf, Stop, SetStatus, durable,
     worker, channel
<1>6. CallsOK'
  BY <1>1 DEF IInv, ProtocolOK, CallsOK, CallOK, Stop, SetStatus, durable, worker, channel
<1>7. StopOK'
  BY <1>1 DEF IInv, ProtocolOK, StopOK, NoRunTurn, Stop, SetStatus, durable, worker, channel
<1>8. TurnOK'
  BY <1>1 DEF IInv, ProtocolOK, TurnOK, NoRunTurn, Attaching, Stop, SetStatus, durable, worker,
     channel
<1>9. HeldOK'
  BY <1>1 DEF IInv, HeldOK, Recorded, Stop, SetStatus, durable, worker, channel
<1>10. SentOK'
  BY <1>1 DEF IInv, ViewOK, SentOK, View, NoTurns, Stop, SetStatus, durable, worker, channel
<1>11. LiveMarksOK'
  BY <1>1 DEF IInv, ViewOK, LiveMarksOK, View, IsTurn, Stop, SetStatus, durable, worker, channel
<1>12. ReplayedOK'
  BY <1>1 DEF IInv, ViewOK, ReplayedOK, View, IsTurn, LastTurn, Stop, SetStatus, durable, worker,
     channel
<1>13. BusyOK'
  BY <1>1 DEF IInv, ViewOK, BusyOK, NextIsLive, NoTurns, FirstTurn, View, IsTurn, Stop, SetStatus,
     durable, worker, channel
<1>14. ReportOK'
  BY <1>1 DEF IInv, ViewOK, ReportOK, View, IsTurn, Recorded, Stop, SetStatus, durable, worker,
     channel
<1>15. MarksOK'
  BY <1>1, Typed DEF IInv, IngestOK, MarksOK, Begun, NoRunTurn, Attaching, Ingested, Stop,
     SetStatus, durable, worker, channel
<1>16. TruthOK'
  BY <1>2
<1>17. PendingOK'
  BY <1>1 DEF Ingested
<1>18. NumbersOK'
  BY <1>1 DEF IInv, IngestOK, NumbersOK, WorkerRow, Ingested, Stop, SetStatus, durable, worker,
     channel
<1>19. FramesOK'
  BY <1>2
<1>20. UnheldOK'
  BY <1>1, Typed DEF IInv, IngestOK, UnheldOK, WorkerRow, IsEvent, Ingested, Stop, SetStatus,
     durable, worker, channel
<1>21. ReplayOK'
  BY <1>1 DEF IInv, IngestOK, ReplayOK, Ingested, Stop, SetStatus, durable, worker, channel
<1>22. NoSilentLoss'
  BY <1>1 DEF Ingested
<1>23. ResetBetweenEras'
  BY <1>1 DEF Ingested
<1>24. QED
  BY <1>3, <1>4, <1>5, <1>6, <1>7, <1>8, <1>9, <1>10, <1>11, <1>12, <1>13, <1>14, <1>15, <1>16,
     <1>17, <1>18, <1>19, <1>20, <1>21, <1>22, <1>23 DEF ProtocolOK, ViewOK, IngestOK

\* The operator reopens the session.
LEMMA ReopenKeeps ==
  ASSUME Ordinary, IInv, Reopen
  PROVE  ProtocolOK' /\ HeldOK' /\ ViewOK' /\ IngestOK'
<1>1. ~retired
  BY DEF Ordinary, Reopen
<1>2. Ingested
  BY <1>1, Typed, FlushKeeps DEF Flushes, Reopen, SetStatus, durable, worker, channel
<1>3. FramesOK' /\ TruthOK'
  BY <1>1, <1>2, Quiet DEF NoRunTurn, Reopen, SetStatus, durable, worker, channel
<1>4. SocketOK'
  BY <1>1, <1>2 DEF IInv, ProtocolOK, SocketOK, Reopen, SetStatus, durable, worker, channel
<1>5. ProcessesOK'
  BY <1>1, <1>2 DEF IInv, ProtocolOK, ProcessesOK, Reopen, SetStatus, durable, worker, channel
<1>6. RunsOK'
  BY <1>1, <1>2 DEF IInv, ProtocolOK, RunsOK, RunOK, RequestOf, AnswerOf, Reopen, SetStatus,
     durable, worker, channel
<1>7. CallsOK'
  BY <1>1, <1>2 DEF IInv, ProtocolOK, CallsOK, CallOK, Reopen, SetStatus, durable, worker, channel
<1>8. StopOK'
  BY <1>1, <1>2 DEF IInv, ProtocolOK, StopOK, NoRunTurn, Reopen, SetStatus, durable, worker, channel
<1>9. TurnOK'
  BY <1>1, <1>2 DEF IInv, ProtocolOK, TurnOK, NoRunTurn, Attaching, Reopen, SetStatus, durable,
     worker, channel
<1>10. HeldOK'
  BY <1>1, <1>2 DEF IInv, HeldOK, Recorded, Reopen, SetStatus, durable, worker, channel
<1>11. SentOK'
  BY <1>1, <1>2 DEF IInv, ViewOK, SentOK, View, NoTurns, Reopen, SetStatus, durable, worker, channel
<1>12. LiveMarksOK'
  BY <1>1, <1>2 DEF IInv, ViewOK, LiveMarksOK, View, IsTurn, Reopen, SetStatus, durable, worker,
     channel
<1>13. ReplayedOK'
  BY <1>1, <1>2 DEF IInv, ViewOK, ReplayedOK, View, IsTurn, LastTurn, Reopen, SetStatus, durable,
     worker, channel
<1>14. BusyOK'
  BY <1>1, <1>2 DEF IInv, ViewOK, BusyOK, NextIsLive, NoTurns, FirstTurn, View, IsTurn, Reopen,
     SetStatus, durable, worker, channel
<1>15. ReportOK'
  BY <1>1, <1>2 DEF IInv, ViewOK, ReportOK, View, IsTurn, Recorded, Reopen, SetStatus, durable,
     worker, channel
<1>16. MarksOK'
  BY <1>1, <1>2, Typed DEF IInv, IngestOK, MarksOK, Begun, NoRunTurn, Attaching, Ingested, Reopen,
     SetStatus, durable, worker, channel
<1>17. TruthOK'
  BY <1>3
<1>18. PendingOK'
  BY <1>2 DEF Ingested
<1>19. NumbersOK'
  BY <1>1, <1>2 DEF IInv, IngestOK, NumbersOK, WorkerRow, Ingested, Reopen, SetStatus, durable,
     worker, channel
<1>20. FramesOK'
  BY <1>3
<1>21. UnheldOK'
  BY <1>1, <1>2, Typed DEF IInv, IngestOK, UnheldOK, WorkerRow, IsEvent, Ingested, Reopen,
     SetStatus, durable, worker, channel
<1>22. ReplayOK'
  BY <1>1, <1>2 DEF IInv, IngestOK, ReplayOK, Ingested, Reopen, SetStatus, durable, worker, channel
<1>23. NoSilentLoss'
  BY <1>2 DEF Ingested
<1>24. ResetBetweenEras'
  BY <1>2 DEF Ingested
<1>25. QED
  BY <1>4, <1>5, <1>6, <1>7, <1>8, <1>9, <1>10, <1>11, <1>12, <1>13, <1>14, <1>15, <1>16, <1>17,
     <1>18, <1>19, <1>20, <1>21, <1>22, <1>23, <1>24 DEF ProtocolOK, ViewOK, IngestOK

\* The role moves to a successor.
LEMMA HandoffKeeps ==
  ASSUME Ordinary, IInv, Handoff
  PROVE  ProtocolOK' /\ HeldOK' /\ ViewOK' /\ IngestOK'
<1>1. /\ run' \in [Runs -> RunStates] /\ run \in [Runs -> RunStates] /\ "attached" \in Runs
      /\ \A q \in Runs : run'[q].pc = run[q].pc /\ run'[q].held = run[q].held /\ run'[q].busy = run[q].busy
  BY TouchedOnly, Typed, RunsAssumption DEF Handoff
<1>2. (attached => SentWorker(StopSession)) /\ (~attached => toWorker' = toWorker)
  BY WorkerSent DEF IInv, Handoff
<1>3. turn = "none" /\ ~doubtful /\ ~retired /\ ~busy
  BY DEF Handoff, Ordinary
<1>4. link = "open" => NoRunTurn
  BY <1>3 DEF IInv, ViewOK, SentOK, View, NoRunTurn
<1>5. Ingested
  BY <1>1, <1>2, <1>3, <1>4, Typed, FlushKeeps DEF Flushes, Handoff, SentWorker, StopSession,
     HubTick, SetStatus, durable, worker, channel
<1>6. FramesOK' /\ TruthOK'
  BY <1>1, <1>2, <1>3, <1>4, <1>5, Quiet DEF NoRunTurn, Handoff, SentWorker, StopSession, HubTick,
     SetStatus, durable, worker, channel
<1>7. SocketOK'
  BY <1>1, <1>2, <1>3, <1>4, <1>5 DEF IInv, ProtocolOK, SocketOK, Handoff, SentWorker, StopSession,
     HubTick, SetStatus, durable, worker, channel
<1>8. ProcessesOK'
  BY <1>1, <1>2, <1>3, <1>4, <1>5 DEF IInv, ProtocolOK, ProcessesOK, Handoff, SentWorker,
     StopSession, HubTick, SetStatus, durable, worker, channel
<1>9. RunsOK'
  BY <1>1, <1>2 DEF RunsOK, Handoff, IInv, ProtocolOK, RequestOf, SentWorker, StopSession, RunOK, AnswerOf
<1>10. CallsOK'
  BY <1>2, <1>4 DEF IInv, ProtocolOK, CallsOK, Handoff, worker, SentWorker, StopSession, NoRunTurn
<1>11. StopOK'
  <2> SUFFICES ASSUME NEW i \in DOMAIN toWorker', toWorker'[i].t = "stopSession", link \in {"open", "hubGone"}
               PROVE  NoRunTurn' /\ \A j \in DOMAIN toWorker' :
                        toWorker'[j].t = "attach" /\ toWorker'[j].since # NoCursor => j < i
    BY <1>3 DEF StopOK, Handoff, worker, channel
  <2>1. \A k \in DOMAIN toWorker : toWorker[k].t # "stopSession"
    BY <1>3 DEF IInv, ProtocolOK, StopOK
  <2>2. attached /\ link = "open" /\ SentWorker(StopSession)
    BY <1>2, <2>1 DEF IInv, ProtocolOK, SocketOK
  <2>3. i = Len(toWorker) + 1
    BY <2>1, <2>2 DEF SentWorker
  <2>4. NoRunTurn'
    BY <1>4, <2>2 DEF NoRunTurn, SentWorker, StopSession
  <2>5. \A j \in DOMAIN toWorker' : toWorker'[j].t = "attach" => j < i
    BY <2>2, <2>3 DEF SentWorker, StopSession
  <2>6. QED BY <2>4, <2>5
<1>12. TurnOK'
  BY <1>1, <1>2, <1>3, <1>4, <1>5 DEF IInv, ProtocolOK, TurnOK, NoRunTurn, Attaching, Handoff,
     SentWorker, StopSession, HubTick, SetStatus, durable, worker, channel
<1>13. HeldOK'
  BY <1>1, <1>2, <1>3, <1>4, <1>5 DEF IInv, HeldOK, Recorded, Handoff, SentWorker, StopSession,
     HubTick, SetStatus, durable, worker, channel
<1>14. SentOK'
  BY <1>1, <1>2, <1>3, <1>4, <1>5 DEF IInv, ViewOK, SentOK, View, NoTurns, Handoff, SentWorker,
     StopSession, HubTick, SetStatus, durable, worker, channel
<1>15. LiveMarksOK'
  BY <1>1, <1>2, <1>3, <1>4, <1>5 DEF IInv, ViewOK, LiveMarksOK, View, IsTurn, Handoff, SentWorker,
     StopSession, HubTick, SetStatus, durable, worker, channel
<1>16. ReplayedOK'
  BY <1>1, <1>2, <1>3, <1>4, <1>5 DEF IInv, ViewOK, ReplayedOK, View, IsTurn, LastTurn, Handoff,
     SentWorker, StopSession, HubTick, SetStatus, durable, worker, channel
<1>17. BusyOK'
  BY <1>1, <1>2, <1>3, <1>4, <1>5 DEF IInv, ViewOK, BusyOK, NextIsLive, NoTurns, FirstTurn, View,
     IsTurn, Handoff, SentWorker, StopSession, HubTick, SetStatus, durable, worker, channel
<1>18. ReportOK'
  BY <1>1, <1>2, <1>3, <1>4, <1>5 DEF IInv, ViewOK, ReportOK, View, IsTurn, Recorded, Handoff,
     SentWorker, StopSession, HubTick, SetStatus, durable, worker, channel
<1>19. MarksOK'
  BY <1>1, <1>2, <1>3, <1>4, <1>5, Typed DEF IInv, IngestOK, MarksOK, Begun, NoRunTurn, Attaching,
     Ingested, Handoff, SentWorker, StopSession, HubTick, SetStatus, durable, worker, channel
<1>20. TruthOK'
  BY <1>6
<1>21. PendingOK'
  BY <1>5 DEF Ingested
<1>22. NumbersOK'
  BY <1>1, <1>2, <1>3, <1>4, <1>5 DEF IInv, IngestOK, NumbersOK, WorkerRow, Ingested, Handoff,
     SentWorker, StopSession, HubTick, SetStatus, durable, worker, channel
<1>23. FramesOK'
  BY <1>6
<1>24. UnheldOK'
  BY <1>1, <1>2, <1>3, <1>4, <1>5, Typed DEF IInv, IngestOK, UnheldOK, WorkerRow, IsEvent, Ingested,
     Handoff, SentWorker, StopSession, HubTick, SetStatus, durable, worker, channel
<1>25. ReplayOK'
  BY <1>1, <1>2, <1>3, <1>4, <1>5 DEF IInv, IngestOK, ReplayOK, Ingested, Handoff, SentWorker,
     StopSession, HubTick, SetStatus, durable, worker, channel
<1>26. NoSilentLoss'
  BY <1>5 DEF Ingested
<1>27. ResetBetweenEras'
  BY <1>5 DEF Ingested
<1>28. QED
  BY <1>7, <1>8, <1>9, <1>10, <1>11, <1>12, <1>13, <1>14, <1>15, <1>16, <1>17, <1>18, <1>19, <1>20,
     <1>21, <1>22, <1>23, <1>24, <1>25, <1>26, <1>27 DEF ProtocolOK, ViewOK, IngestOK

\* Nothing happens.
LEMMA StutterKeeps ==
  ASSUME IInv, UNCHANGED vars
  PROVE  ProtocolOK' /\ HeldOK' /\ ViewOK' /\ IngestOK'
<1>1. /\ UNCHANGED <<provider, journal, cursor, stored, shown, retired>>
      /\ UNCHANGED <<hubUp, status, guard, pending, busy, calling, attached, run>>
      /\ UNCHANGED <<ring, turn, activeTurn, held, accepting, produced>>
      /\ UNCHANGED <<link, toHub, toWorker, synced, doubtful, faults, turns>>
  BY DEF vars, durable, hub, worker, channel
<1>2. SocketOK'
  BY <1>1 DEF IInv, ProtocolOK, SocketOK, NoRunTurn
<1>3. ProcessesOK'
  BY <1>1 DEF IInv, ProtocolOK, ProcessesOK, NoRunTurn
<1>4. RunsOK'
  BY <1>1 DEF IInv, ProtocolOK, RunsOK, RunOK, RequestOf, AnswerOf, NoRunTurn
<1>5. CallsOK'
  BY <1>1 DEF IInv, ProtocolOK, CallsOK, CallOK, NoRunTurn
<1>6. StopOK'
  BY <1>1 DEF IInv, ProtocolOK, StopOK, NoRunTurn, NoRunTurn
<1>7. TurnOK'
  BY <1>1 DEF IInv, ProtocolOK, TurnOK, NoRunTurn, Attaching, NoRunTurn
<1>8. HeldOK'
  BY <1>1 DEF IInv, HeldOK, Recorded, NoRunTurn
<1>9. SentOK'
  BY <1>1 DEF IInv, ViewOK, SentOK, View, NoTurns, NoRunTurn
<1>10. LiveMarksOK'
  BY <1>1 DEF IInv, ViewOK, LiveMarksOK, View, IsTurn, NoRunTurn
<1>11. ReplayedOK'
  BY <1>1 DEF IInv, ViewOK, ReplayedOK, View, IsTurn, LastTurn, NoRunTurn
<1>12. BusyOK'
  BY <1>1 DEF IInv, ViewOK, BusyOK, NextIsLive, NoTurns, FirstTurn, View, IsTurn, NoRunTurn
<1>13. ReportOK'
  BY <1>1 DEF IInv, ViewOK, ReportOK, View, IsTurn, Recorded, NoRunTurn
<1>14. MarksOK'
  BY <1>1 DEF IInv, IngestOK, MarksOK, Begun, NoRunTurn, Attaching, Seen, Larger, NoRunTurn
<1>15. TruthOK'
  BY <1>1 DEF IInv, IngestOK, TruthOK, TruthOf, Unsplit, Known, Accounted, IsEvent, WorkerRow, Era,
     Seen, Larger, NoRunTurn
<1>16. PendingOK'
  BY <1>1 DEF IInv, IngestOK, PendingOK, Known, Accounted, Unsplit, WorkerRow, Era, NoRunTurn
<1>17. NumbersOK'
  BY <1>1 DEF IInv, IngestOK, NumbersOK, WorkerRow, WseqAt, Era, NoRunTurn
<1>18. FramesOK'
  BY <1>1 DEF IInv, IngestOK, FramesOK, FrameOK, Tells, IsEvent, Seen, Larger, Era, NoRunTurn,
     NoRunTurn
<1>19. UnheldOK'
  BY <1>1 DEF IInv, IngestOK, UnheldOK, WorkerRow, IsEvent, Era, NoRunTurn
<1>20. ReplayOK'
  BY <1>1 DEF IInv, IngestOK, ReplayOK, Tells, Seen, Larger, Era, NoRunTurn
<1>21. NoSilentLoss'
  BY <1>1 DEF IInv, IngestOK, NoSilentLoss, Accounted, WorkerRow, NoRunTurn
<1>22. ResetBetweenEras'
  BY <1>1 DEF IInv, IngestOK, ResetBetweenEras, WorkerRow, NoRunTurn
<1>23. QED
  BY <1>2, <1>3, <1>4, <1>5, <1>6, <1>7, <1>8, <1>9, <1>10, <1>11, <1>12, <1>13, <1>14, <1>15,
     <1>16, <1>17, <1>18, <1>19, <1>20, <1>21, <1>22 DEF ProtocolOK, ViewOK, IngestOK

-----------------------------------------------------------------------------
(* The theorem.                                                            *)

\* It all begins with a session that nobody has attached to.
LEMMA InvInit == Init => IInv
<1> SUFFICES ASSUME Init PROVE IInv
  OBVIOUS
<1>1. TypeInv /\ RunsOK /\ HeldOK
  BY TypeInit DEF Init, RunsOK, HeldOK, Recorded, BootRuns, IdleRun
<1>2. /\ toHub = << >> /\ toWorker = << >> /\ DOMAIN toHub = {} /\ DOMAIN toWorker = {}
      /\ journal = << >> /\ DOMAIN journal = {} /\ produced = <<{}>> /\ Era = 1 /\ produced[1] = {}
      /\ DOMAIN produced = {1}
  BY DEF Init, Era
<1>3. ring.last = 0 /\ ring.kinds = << >> /\ DOMAIN ring.kinds = {} /\ Seen = 0 /\ cursor = 0
  BY DEF Init, EmptyRing, Seen, Larger, NoDelta
<1>4. \A r \in Runs : run[r].pc \in {"none", "ready"} /\ (r # "promote" => run[r].pc = "none")
  BY DEF Init, BootRuns, IdleRun
<1>5. SocketOK /\ ProcessesOK
  BY <1>2, <1>3, <1>4, RunsAssumption DEF Init, SocketOK, ProcessesOK
<1>6. CallsOK /\ StopOK /\ TurnOK
  BY <1>2, <1>3 DEF Init, CallsOK, StopOK, TurnOK
<1>7. ViewOK
  BY <1>2, <1>4 DEF Init, ViewOK, SentOK, LiveMarksOK, ReplayedOK, BusyOK, ReportOK, View, Recorded, NextIsLive, NoTurns
<1>8. MarksOK /\ TruthOK /\ PendingOK /\ ReplayOK
  BY <1>2, <1>3 DEF Init, MarksOK, TruthOK, TruthOf, Unsplit, PendingOK, ReplayOK
<1>9. NumbersOK /\ FramesOK /\ UnheldOK
  BY <1>2, <1>3 DEF Init, NumbersOK, Numbered, FramesOK, UnheldOK, NoDelta
<1>10. NoSilentLoss /\ ResetBetweenEras
  BY <1>2 DEF NoSilentLoss, ResetBetweenEras
<1>11. QED
  BY <1>1, <1>5, <1>6, <1>7, <1>8, <1>9, <1>10 DEF IInv, ProtocolOK, IngestOK

\* Each step keeps the invariant.
LEMMA InvStep == ASSUME Ordinary, IInv, [Next]_vars PROVE IInv'
<1>1. TypeInv'
  BY TypeStep DEF IInv
<1> SUFFICES ProtocolOK' /\ HeldOK' /\ ViewOK' /\ IngestOK'
  BY <1>1 DEF IInv
<1>2. CASE WorkerSystem
  BY <1>2, ResumeThreadKeeps, HandleListLiveKeeps, HandleAttachKeeps, HandleRunTurnKeeps,
     RefuseRunTurnKeeps, HandleStopSessionKeeps, AcceptKeeps DEF WorkerSystem
<1>3. CASE HubSystem
  <2>1. ASSUME NEW r \in Runs, Reconcile(r) \/ Relist(r) \/ Sweep(r)
        PROVE  ProtocolOK' /\ HeldOK' /\ ViewOK' /\ IngestOK'
    BY <2>1, ReconcileKeeps, RelistKeeps, SweepKeeps
  <2>2. CASE ~\E r \in Runs : Reconcile(r) \/ Relist(r) \/ Sweep(r)
    BY <1>3, <2>2, HubBootKeeps, ConnectKeeps, RecvWelcomeKeeps, RecvEventKeeps, RecvTurnKeeps,
       RecvLiveKeeps, RecvAckKeeps, RecvAttachAckKeeps, ReconcileStaleKeeps, FlushTimerKeeps DEF
       HubSystem
  <2>3. QED BY <2>1, <2>2
<1>4. CASE Environment
  BY <1>4, EmitKeeps, EndTurnKeeps, SendTurnKeeps, SendTurnUnattachedKeeps, StopKeeps, ReopenKeeps,
     HandoffKeeps, WorkerDeathKeeps, HubCrashKeeps, CallTimeoutKeeps DEF Environment
<1>5. CASE Drop
  BY <1>5, DropKeeps
<1>6. CASE UNCHANGED vars
  BY <1>6, StutterKeeps
<1>7. QED BY <1>2, <1>3, <1>4, <1>5, <1>6 DEF Next

\* What IngestSafe promises of a turn that was sent.
LEMMA InvSafe == IInv => IngestSafe
BY DEF IInv, IngestOK, ViewOK, SentOK, View, OneTurnAtATime, IngestSafe

\* No event of a worker is passed over silently, no reset marker splits an era, and no turn is
\* sent on top of one that runs: in every ordinary environment, whatever drops, crashes,
\* respawns, stops, hand-offs, timeouts and coalesced frames it has (sessions.ts
\* attachWorker(), ingestWorkerEvent(); journal.ts).
THEOREM IngestSafeCorrect == Ordinary => (Spec => []IngestSafe)
<1> SUFFICES ASSUME Ordinary PROVE Spec => []IngestSafe
  OBVIOUS
<1>1. Init => IInv
  BY InvInit
<1>2. IInv /\ [Next]_vars => IInv'
  BY InvStep
<1>3. IInv => IngestSafe
  BY InvSafe
<1>4. QED BY <1>1, <1>2, <1>3, PTL DEF Spec

-----------------------------------------------------------------------------
(* The second part: in every ordinary environment WorkerReattach           *)
(* implements ExactlyOnceLog.  Each step of the log needs a fact about the *)
(* one event it concerns: that it is not recorded yet, and that nothing    *)
(* before it is left out.  The invariant above has the latter; LogOK adds  *)
(* the former.                                                             *)

\* The row accounts for the event.
CoveredBy(row, e, w) == row.era = e /\ (w \in row.of \/ (row.kind = "gap" /\ w <= row.wseq))

\* A row records events up to its own number, declares a gap, or is a marker.
RowOK(row) ==
  \/ row.kind = "event" /\ row.of # {} /\ \A v \in row.of : v <= row.wseq
  \/ row.kind = "gap" /\ row.of = {}
  \/ row = ResetRow \/ row = StaleRow

RowsOK == \A i \in DOMAIN journal : RowOK(journal[i])

\* Pending text was produced and is not in the journal yet.
PendingFresh ==
  pending # NoDelta =>
    /\ pending.of # {} /\ pending.of \subseteq produced[pending.era]
    /\ \A v \in pending.of : v <= pending.wseq /\ ~Accounted(pending.era, v)

\* The mark covers what the journal has of the era.
MarkedOf(e) == \A w \in produced[e] : Accounted(e, w) => w <= Seen

\* The hub has asked for what it misses.
Asked == \E i \in DOMAIN toWorker : toWorker[i].t = "attach" /\ toWorker[i].since # NoCursor

\* An event of the era is on the wire, or may come at any moment.
Heard(e) ==
  \/ \E i \in DOMAIN toHub : toHub[i].t = "event" /\ toHub[i].era = e
  \/ link = "open" /\ (synced \/ Asked) /\ e = Era

\* Then the mark tells a recorded event from a new one.
LogOK == RowsOK /\ PendingFresh /\ \A e \in Nat : Heard(e) => MarkedOf(e)

LogInv == IInv /\ CursorIsHighWater /\ LogOK

\* What every step does.
LogStep == LogOK' /\ [Log!Next]_<<produced, LogOf(journal)>>

-----------------------------------------------------------------------------
(* Lemmas about rows, entries and marks.                                   *)

\* The eras of the events on the wire are eras.
LEMMA HeardEras ==
  ASSUME IInv, NEW e, Heard(e)
  PROVE  e \in 1 .. Era
BY Typed DEF Heard, IInv, IngestOK, FramesOK, FrameOK, IsEvent

\* An entry of the log accounts for what its row accounts for.
LEMMA EntryCovers ==
  ASSUME NEW row, RowOK(row), NEW e \in Nat, e >= 1, NEW w
  PROVE  Log!Covers(Entry(row), e, w) <=> CoveredBy(row, e, w)
BY DEF Log!Covers, Entry, CoveredBy, RowOK, ResetRow, StaleRow

\* An event is accounted for by a row.
LEMMA AccountedRows ==
  ASSUME NEW e, NEW w
  PROVE  Accounted(e, w) <=> \E i \in DOMAIN journal : CoveredBy(journal[i], e, w)
BY DEF Accounted, CoveredBy

\* By a row of j before the i-th.
CoveredBefore(j, i, e, w) == \E k \in 1 .. i - 1 : CoveredBy(j[k], e, w)

\* So for the entries and rows before the i-th.
LEMMA EntriesCover ==
  ASSUME NEW j, NEW i \in Nat, DOMAIN j = 1 .. Len(j), Len(j) \in Nat, i - 1 <= Len(j),
         \A k \in 1 .. i - 1 : RowOK(j[k]), NEW e \in Nat, e >= 1, NEW w
  PROVE  Log!AccountedBefore(LogOf(j), i, e, w) <=> CoveredBefore(j, i, e, w)
<1>1. \A k \in 1 .. i - 1 : k \in DOMAIN j /\ LogOf(j)[k] = Entry(j[k])
  BY DEF LogOf
<1>2. \A k \in 1 .. i - 1 : Log!Covers(LogOf(j)[k], e, w) <=> CoveredBy(j[k], e, w)
  BY <1>1, EntryCovers
<1>3. QED BY <1>2 DEF Log!AccountedBefore, CoveredBefore

\* The i-th row of j may stand where it does, in terms of rows.
Stands(j, i) ==
  LET e == j[i].era
  IN  \/ j[i] = ResetRow \/ j[i] = StaleRow
      \/ /\ e \in 1 .. Era /\ j[i].of = {}
         /\ \A w \in produced[e] : CoveredBefore(j, i, e, w) => w <= j[i].wseq
      \/ /\ e \in 1 .. Era /\ j[i].of # {} /\ j[i].of \subseteq produced[e]
         /\ \A w \in j[i].of : ~CoveredBefore(j, i, e, w)
         /\ \A w \in produced[e] \ j[i].of : ~CoveredBefore(j, i, e, w) => \A v \in j[i].of : v < w

\* Where the row may stand, its entry may.
LEMMA EntryStands ==
  ASSUME IInv, NEW j \in Seq(Rows), \A k \in DOMAIN j : RowOK(j[k]), NEW i \in DOMAIN j, Stands(j, i)
  PROVE  Log!MayStand(LogOf(j), i)
<1> DEFINE e == j[i].era
<1>1. i \in Nat /\ DOMAIN j = 1 .. Len(j) /\ Len(j) \in Nat /\ i <= Len(j) /\ DOMAIN produced = 1 .. Era
  BY Typed
<1>2. LogOf(j)[i] = Entry(j[i]) /\ LogOf(j)[i].era = e /\ LogOf(j)[i].of = j[i].of
      /\ LogOf(j)[i].through = j[i].wseq
  BY DEF LogOf, Entry
<1>3. CASE j[i] = ResetRow \/ j[i] = StaleRow
  <2>1. Entry(ResetRow) = Log!Marker /\ Entry(StaleRow) = Log!Marker
    BY DEF Entry, ResetRow, StaleRow, Log!Marker
  <2>2. LogOf(j)[i] = Log!Marker
    BY <1>2, <1>3, <2>1
  <2>3. QED BY <2>2 DEF Log!MayStand
<1>4. CASE e \in 1 .. Era
  <2>1. ASSUME NEW w PROVE Log!AccountedBefore(LogOf(j), i, e, w) <=> CoveredBefore(j, i, e, w)
    <3>1. e \in Nat /\ e >= 1 /\ i - 1 <= Len(j) /\ \A k \in 1 .. i - 1 : RowOK(j[k])
      BY <1>1, <1>4
    <3> HIDE DEF e
    <3>2. QED BY <1>1, <3>1, EntriesCover
  <2>2. CASE /\ j[i].of = {}
             /\ \A w \in produced[e] : CoveredBefore(j, i, e, w) => w <= j[i].wseq
    BY <1>1, <1>2, <1>4, <2>1, <2>2 DEF Log!MayStand
  <2>3. CASE /\ j[i].of # {} /\ j[i].of \subseteq produced[e]
             /\ \A w \in j[i].of : ~CoveredBefore(j, i, e, w)
             /\ \A w \in produced[e] \ j[i].of :
                  ~CoveredBefore(j, i, e, w) => \A v \in j[i].of : v < w
    <3>1. \A w : w \in Log!Unaccounted(LogOf(j), i, e) <=> w \in produced[e] /\ ~CoveredBefore(j, i, e, w)
      BY <2>1 DEF Log!Unaccounted
    <3>2. j[i].of \subseteq Log!Unaccounted(LogOf(j), i, e)
      BY <2>3, <3>1
    <3>3. \A w \in Log!Unaccounted(LogOf(j), i, e) \ j[i].of : \A v \in j[i].of : v < w
      BY <2>3, <3>1
    <3> HIDE DEF e
    <3>4. QED BY <1>1, <1>2, <1>4, <2>3, <3>2, <3>3 DEF Log!MayStand
  <2>4. QED BY <1>3, <2>2, <2>3 DEF Stands
<1>5. QED BY <1>3, <1>4 DEF Stands

\* Rows that may stand where they are appended are recorded.
LEMMA RowsRecorded ==
  ASSUME IInv, IInv', UNCHANGED produced, RowsOK',
         Len(journal') \in Len(journal) + 1 .. Len(journal) + 3,
         \A i \in DOMAIN journal : journal'[i] = journal[i],
         \A i \in Len(journal) + 1 .. Len(journal') : Stands(journal', i)
  PROVE  Log!Next
<1> DEFINE l == LogOf(journal)
           m == LogOf(journal')
<1>1. /\ journal \in Seq(Rows) /\ Len(journal) \in Nat /\ DOMAIN journal = 1 .. Len(journal)
      /\ journal' \in Seq(Rows) /\ Len(journal') \in Nat /\ DOMAIN journal' = 1 .. Len(journal')
  BY RowsTyped DEF IInv, TypeInv, TypeOK, DurableOK
<1>2. DOMAIN l = DOMAIN journal /\ Len(l) = Len(journal)
      /\ DOMAIN m = DOMAIN journal' /\ Len(m) = Len(journal')
  BY <1>1 DEF LogOf
<1>3. \A i \in 1 .. Len(l) : m[i] = l[i]
  BY <1>1, <1>2 DEF LogOf
<1>4. \A i \in Len(l) + 1 .. Len(m) : Log!MayStand(m, i)
  <2> SUFFICES ASSUME NEW i \in Len(l) + 1 .. Len(m) PROVE Log!MayStand(m, i)
    OBVIOUS
  <2>1. i \in DOMAIN journal' /\ Stands(journal', i)
    BY <1>1, <1>2
  <2>2. \A k \in DOMAIN journal' : RowOK(journal'[k])
    BY DEF RowsOK
  <2>3. \E j \in Seq(Rows) : j = journal'
    BY <1>1
  <2>4. PICK j \in Seq(Rows) : j = journal'
    BY <2>3
  <2>5. Log!MayStand(LogOf(j), i)
    BY <2>1, <2>2, <2>4, EntryStands
  <2>6. QED BY <2>4, <2>5
<1>5. m = l'
  OBVIOUS
<1> HIDE DEF l, m
<1>6. QED BY <1>1, <1>2, <1>3, <1>4, <1>5 DEF Log!Next, Log!Record, l, m

\* A journal that does not change is a log that does not.
LEMMA LogKept ==
  ASSUME UNCHANGED <<journal, produced>>
  PROVE  UNCHANGED <<produced, LogOf(journal)>>
BY DEF LogOf

\* A mark that does not go back covers what it covered.
LEMMA MarkKept ==
  ASSUME IInv, UNCHANGED <<journal, produced>>, Seen' \in Nat, Seen' >= Seen, NEW e \in 1 .. Era, MarkedOf(e)
  PROVE  MarkedOf(e)'
BY Typed, RowsTyped DEF MarkedOf, Accounted

\* A step that leaves the journal alone, and raises the mark for what may be heard now.
LEMMA Kept ==
  ASSUME LogInv, UNCHANGED <<journal, produced>>, PendingFresh', \A e \in Nat : Heard(e)' => MarkedOf(e)'
  PROVE  LogStep
BY LogKept DEF LogInv, LogOK, RowsOK, LogStep

\* A step that leaves the pending text alone too.
LEMMA Still ==
  ASSUME LogInv, UNCHANGED <<journal, produced, pending>>, Seen' \in Nat, Seen' >= Seen,
         \A e \in Nat : Heard(e)' => Heard(e) \/ (e \in 1 .. Era /\ MarkedOf(e))
  PROVE  LogStep
<1>1. PendingFresh'
  BY DEF LogInv, LogOK, PendingFresh, Accounted
<1>2. ASSUME NEW e \in Nat, Heard(e)' PROVE MarkedOf(e)'
  BY <1>2, HeardEras, MarkKept DEF LogInv, LogOK
<1>3. QED BY <1>1, <1>2, Kept

\* The mark covers what is journaled or pending of an era that is heard.
LEMMA KnownMarked ==
  ASSUME LogInv, NEW e \in 1 .. Era, Heard(e), NEW w \in produced[e], Known(e, w)
  PROVE  w <= Seen
<1>1. CASE Accounted(e, w)
  BY <1>1, Typed DEF LogInv, LogOK, MarkedOf
<1>2. CASE pending.era = e /\ w \in pending.of
  BY <1>2, RowsTyped, SeenFacts DEF NoDelta, LogInv, LogOK, PendingFresh, IInv
<1>3. QED BY <1>1, <1>2 DEF Known

-----------------------------------------------------------------------------
(* Pending text that is flushed.                                           *)

\* The row of the pending text accounts for the pending events.
LEMMA DeltaCovers ==
  ASSUME NEW e, NEW w
  PROVE  CoveredBy(DeltaRow(pending), e, w) <=> pending.era = e /\ w \in pending.of
BY DEF CoveredBy, DeltaRow

\* What the flushed journal accounts for was known.
LEMMA FlushedCovers ==
  ASSUME IInv, NEW e, NEW w
  PROVE  (\E i \in DOMAIN Flushed : CoveredBy(Flushed[i], e, w)) <=> Known(e, w)
<1>1. CASE pending = NoDelta
  BY <1>1, FlushedRows, AccountedRows DEF NoDelta, Known
<1>2. CASE pending # NoDelta
  BY <1>2, FlushedRows, AccountedRows, DeltaCovers DEF Known
<1>3. QED BY <1>1, <1>2

\* A flush adds one row, or none.
LEMMA FlushedShape ==
  ASSUME IInv
  PROVE  IF pending = NoDelta THEN Flushed = journal
         ELSE /\ Len(Flushed) = Len(journal) + 1
              /\ Flushed[Len(journal) + 1] = DeltaRow(pending)
BY RowsTyped DEF IInv, TypeInv, TypeOK, HubOK, Pendings, DeltaRow, Rows, Flushed

\* The row of the pending text records exactly what comes next.
LEMMA PendingStands ==
  ASSUME LogInv, pending # NoDelta, NEW j, \A i \in DOMAIN journal : j[i] = journal[i],
         NEW n, n = Len(journal) + 1, j[n] = DeltaRow(pending)
  PROVE  Stands(j, n) /\ RowOK(DeltaRow(pending))
<1> DEFINE e == pending.era
<1>1. /\ e \in 1 .. Era /\ pending.of # {} /\ pending.of \subseteq produced[e]
      /\ \A v \in pending.of : v <= pending.wseq /\ v \in Nat /\ ~Accounted(e, v)
      /\ \A w \in produced[e] : w \in Nat /\ (w <= pending.wseq => Known(e, w))
      /\ pending.wseq \in Nat
  BY Typed, RowsTyped DEF LogInv, LogOK, PendingFresh, IInv, IngestOK, PendingOK
<1>2. j[n].era = e /\ j[n].of = pending.of /\ j[n].wseq = pending.wseq
  BY DEF DeltaRow
<1>3. 1 .. n - 1 = DOMAIN journal
  BY RowsTyped DEF LogInv
<1>4. ASSUME NEW w PROVE CoveredBefore(j, n, e, w) <=> Accounted(e, w)
  BY <1>3, AccountedRows DEF CoveredBefore
<1>5. ASSUME NEW w \in produced[e], w \notin pending.of, ~Accounted(e, w), NEW v \in pending.of
      PROVE  v < w
  BY <1>1, <1>5 DEF Known
<1>6. RowOK(DeltaRow(pending))
  BY <1>1 DEF RowOK, DeltaRow
<1> HIDE DEF e
<1>7. QED BY <1>1, <1>2, <1>4, <1>5, <1>6 DEF Stands

\* The rows of the flushed journal are rows that may stand there.
LEMMA FlushedStand ==
  ASSUME LogInv, NEW j, \A i \in DOMAIN Flushed : j[i] = Flushed[i]
  PROVE  /\ \A i \in DOMAIN Flushed : i > Len(journal) => Stands(j, i)
         /\ \A i \in DOMAIN Flushed : RowOK(Flushed[i])
<1>1. CASE pending = NoDelta
  BY <1>1, FlushedShape, RowsTyped DEF LogInv, LogOK, RowsOK
<1>2. CASE pending # NoDelta
  <2> DEFINE n == Len(journal) + 1
  <2>1. /\ n \in DOMAIN Flushed /\ Flushed[n] = DeltaRow(pending) /\ DOMAIN Flushed = 1 .. n
        /\ \A i \in DOMAIN journal : i \in DOMAIN Flushed /\ Flushed[i] = journal[i]
        /\ DOMAIN journal = 1 .. Len(journal) /\ Len(journal) \in Nat
    BY <1>2, FlushedShape, FlushedRows, RowsTyped DEF LogInv
  <2>2. Stands(j, n) /\ RowOK(DeltaRow(pending))
    <3>1. j[n] = DeltaRow(pending) /\ \A i \in DOMAIN journal : j[i] = journal[i]
      BY <2>1
    <3> HIDE DEF n
    <3>2. n = Len(journal) + 1
      BY DEF n
    <3>3. QED BY <1>2, <3>1, <3>2, PendingStands
  <2>3. \A i \in DOMAIN Flushed : i = n \/ i \in DOMAIN journal
    BY <2>1
  <2>4. QED BY <2>1, <2>2, <2>3 DEF LogInv, LogOK, RowsOK
<1>3. QED BY <1>1, <1>2

\* A step that flushes the pending text, with what may be pending after it.
LEMMA FlushRecords ==
  ASSUME LogInv, IInv', journal' = Flushed, UNCHANGED produced, Seen' >= Seen, PendingFresh',
         \A e \in Nat : Heard(e)' => Heard(e)
  PROVE  LogStep
<1>0. IInv
  BY DEF LogInv
<1>1. Seen \in Nat /\ Seen' \in Nat /\ Era' = Era
  BY <1>0, Typed DEF IInv, TypeInv, TypeOK, HubOK, Seen, Larger, Pendings, NoGuard, Era
<1>2. \E j : j = journal'
  OBVIOUS
<1>3. PICK j : j = journal'
  BY <1>2
<1>4. RowsOK' /\ \A i \in DOMAIN Flushed : i > Len(journal) => Stands(j, i)
  BY <1>3, FlushedStand DEF RowsOK
<1>5. ASSUME NEW e \in Nat, Heard(e)' PROVE MarkedOf(e)'
  <2> SUFFICES ASSUME NEW w \in produced[e], Accounted(e, w)' PROVE w <= Seen'
    BY DEF MarkedOf
  <2>1. e \in 1 .. Era /\ Heard(e)
    BY <1>0, <1>5, HeardEras
  <2>2. Known(e, w)
    BY <1>0, FlushedCovers DEF Accounted, CoveredBy
  <2>3. w <= Seen /\ w \in Nat
    BY <1>0, <2>1, <2>2, KnownMarked, RowsTyped
  <2>4. QED BY <1>1, <2>3
<1>6. LogOK'
  BY <1>4, <1>5 DEF LogOK
<1>7. CASE pending = NoDelta
  BY <1>0, <1>6, <1>7, FlushedShape, LogKept DEF LogStep
<1>8. CASE pending # NoDelta
  <2>1. Len(journal') = Len(journal) + 1 /\ Len(journal) \in Nat /\ DOMAIN journal' = 1 .. Len(journal')
    BY <1>0, <1>8, FlushedShape, FlushedRows
  <2>2. \A i \in DOMAIN journal : journal'[i] = journal[i]
    BY <1>0, FlushedRows
  <2>3. \A i \in Len(journal) + 1 .. Len(journal') : Stands(j, i)
    BY <1>4, <2>1
  <2>4. \A i \in Len(journal) + 1 .. Len(journal') : Stands(journal', i)
    BY <1>3, <2>3
  <2>5. Log!Next
    BY <1>0, <1>4, <2>1, <2>2, <2>4, RowsRecorded
  <2>6. QED BY <1>6, <2>5 DEF LogStep
<1>9. QED BY <1>7, <1>8

-----------------------------------------------------------------------------
(* An event that is read.                                                  *)

\* What the invariant says of the event at the head of the socket.
FreshEvent(m) ==
  /\ m.era \in 1 .. Era /\ m.wseq \in Nat /\ m.wseq > Seen /\ Seen \in Nat
  /\ m.kind \in {"text", "delta", "gap"}
  /\ Heard(m.era)
  /\ \A w \in produced[m.era] : w \in Nat /\ (Known(m.era, w) => w <= Seen)
  /\ m.kind # "gap" =>
       /\ m.wseq \in produced[m.era]
       /\ \A w \in produced[m.era] : w < m.wseq => Known(m.era, w)

\* The head of the socket is such an event, when it is above the mark.
LEMMA HeadFresh ==
  ASSUME LogInv, NEW m, m = toHub[1], 1 \in DOMAIN toHub, m.t = "event", m.wseq > Seen
  PROVE  FreshEvent(m)
<1>0. IInv
  BY DEF LogInv
<1>1. IsEvent(1) /\ FrameOK(1) /\ Heard(m.era) /\ m.era \in 1 .. Era
  BY <1>0, HeardEras DEF IsEvent, Heard, IInv, IngestOK, FramesOK
<1>2. m.wseq \in Nat /\ m.kind \in {"text", "delta", "gap"} /\ Seen \in Nat
  BY <1>0, FieldsTyped, Typed
<1>3. \A w \in produced[m.era] : w \in Nat /\ (Known(m.era, w) => w <= Seen)
  BY <1>0, <1>1, RowsTyped, KnownMarked
<1>4. ASSUME m.kind # "gap" PROVE m.wseq \in produced[m.era]
  BY <1>1, <1>4 DEF FrameOK
<1>5. ASSUME m.kind # "gap", NEW w \in produced[m.era], w < m.wseq PROVE Known(m.era, w)
  BY <1>0, <1>1, <1>5, QueuesTyped DEF FrameOK, IInv, IngestOK, TruthOK, TruthOf
<1>6. QED BY <1>1, <1>2, <1>3, <1>4, <1>5 DEF FreshEvent

\* Its row may stand behind the flushed journal.
LEMMA EventStands ==
  ASSUME LogInv, NEW m, FreshEvent(m), NEW j, \A i \in DOMAIN Flushed : j[i] = Flushed[i],
         NEW n, n = Len(Flushed) + 1, j[n] = EventRow(m)
  PROVE  Stands(j, n) /\ RowOK(EventRow(m))
<1> DEFINE e == m.era
<1>0. IInv
  BY DEF LogInv
<1>1. EventRow(m).era = e /\ EventRow(m).wseq = m.wseq
      /\ EventRow(m).of = (IF m.kind = "gap" THEN {} ELSE {m.wseq})
  BY DEF EventRow
<1>2. RowOK(EventRow(m))
  BY DEF RowOK, EventRow, FreshEvent
<1>3. 1 .. n - 1 = DOMAIN Flushed
  BY <1>0, FlushedRows
<1>4. ASSUME NEW w PROVE CoveredBefore(j, n, e, w) <=> Known(e, w)
  BY <1>0, <1>3, FlushedCovers DEF CoveredBefore
<1>5. CASE m.kind = "gap"
  <2>1. \A w \in produced[e] : CoveredBefore(j, n, e, w) => w <= m.wseq
    BY <1>4 DEF FreshEvent
  <2>2. e \in 1 .. Era
    BY DEF FreshEvent
  <2> HIDE DEF e
  <2>3. QED BY <1>1, <1>2, <1>5, <2>1, <2>2 DEF Stands
<1>6. CASE m.kind # "gap"
  <2>1. m.wseq \in produced[e] /\ ~CoveredBefore(j, n, e, m.wseq) /\ e \in 1 .. Era
    BY <1>4, <1>6 DEF FreshEvent
  <2>2. ASSUME NEW w \in produced[e] \ {m.wseq}, ~CoveredBefore(j, n, e, w) PROVE m.wseq < w
    BY <1>4, <1>6, <2>2 DEF FreshEvent
  <2> HIDE DEF e
  <2>3. QED BY <1>1, <1>2, <1>6, <2>1, <2>2 DEF Stands
<1>7. QED BY <1>5, <1>6

\* Reading a frame lets no further era be heard.
LEMMA HeardRead ==
  ASSUME ReadHub, UNCHANGED <<link, synced, toWorker, produced>>, NEW e, Heard(e)'
  PROVE  Heard(e)
BY DEF ReadHub, Heard, Asked, Era

\* A row of its own, behind the flushed text.
LEMMA EventRecords ==
  ASSUME LogInv, IInv', NEW m, FreshEvent(m), JournalEvent(m), UNCHANGED produced,
         \A e \in Nat : Heard(e)' => Heard(e)
  PROVE  LogStep
<1>0. IInv
  BY DEF LogInv
<1> DEFINE n == Len(Flushed) + 1
<1>1. /\ n \in Nat /\ Len(journal') = n /\ DOMAIN journal' = 1 .. n /\ journal'[n] = EventRow(m)
      /\ DOMAIN Flushed = 1 .. Len(Flushed) /\ Len(Flushed) \in Nat
      /\ \A i \in DOMAIN Flushed : journal'[i] = Flushed[i]
  <2>1. Flushed \in Seq(Rows) /\ Len(Flushed) \in Nat /\ EventRow(m) \in Rows
    BY <1>0, FlushedRows, Typed DEF FreshEvent, EventRow, Rows
  <2>2. QED BY <2>1 DEF JournalEvent
<1>2. /\ Len(journal) \in Nat /\ DOMAIN journal = 1 .. Len(journal)
      /\ n \in {Len(journal) + 1, Len(journal) + 2}
      /\ \A i \in DOMAIN journal : i \in DOMAIN Flushed /\ Flushed[i] = journal[i]
  <2>1. Len(journal) \in Nat /\ DOMAIN journal = 1 .. Len(journal)
    BY <1>0, RowsTyped
  <2>2. Len(Flushed) \in {Len(journal), Len(journal) + 1}
    BY <1>0, FlushedShape
  <2>3. \A i \in DOMAIN journal : i \in DOMAIN Flushed /\ Flushed[i] = journal[i]
    BY <1>0, FlushedRows
  <2>4. n \in {Len(journal) + 1, Len(journal) + 2}
    BY <2>1, <2>2
  <2> HIDE DEF n
  <2>5. QED BY <2>1, <2>3, <2>4
<1>3. \A i \in DOMAIN journal' : i \in DOMAIN Flushed \/ i = n
  BY <1>1
<1> HIDE DEF n
<1>4. \E j : j = journal'
  OBVIOUS
<1>5. PICK j : j = journal'
  BY <1>4
<1>6. /\ \A i \in DOMAIN Flushed : i > Len(journal) => Stands(j, i)
      /\ Stands(j, n) /\ RowsOK'
  <2>1. /\ \A i \in DOMAIN Flushed : i > Len(journal) => Stands(j, i)
        /\ \A i \in DOMAIN Flushed : RowOK(Flushed[i])
    BY <1>1, <1>5, FlushedStand
  <2>2. Stands(j, n) /\ RowOK(EventRow(m))
    BY <1>1, <1>5, EventStands DEF n
  <2>3. QED BY <1>1, <1>3, <2>1, <2>2 DEF RowsOK
<1>7. \A i \in Len(journal) + 1 .. Len(journal') : Stands(journal', i)
  BY <1>1, <1>2, <1>3, <1>5, <1>6
<1>8. Log!Next
  BY <1>0, <1>1, <1>2, <1>6, <1>7, RowsRecorded
<1>9. Seen' = m.wseq /\ PendingFresh'
  BY DEF JournalEvent, Seen, Larger, NoDelta, NoGuard, FreshEvent, PendingFresh
<1>10. ASSUME NEW e \in Nat, Heard(e)' PROVE MarkedOf(e)'
  <2> SUFFICES ASSUME NEW w \in produced[e], Accounted(e, w)' PROVE w <= m.wseq
    BY <1>9 DEF MarkedOf
  <2>1. e \in 1 .. Era /\ Heard(e) /\ w \in Nat /\ m.wseq \in Nat /\ m.wseq > Seen /\ Seen \in Nat
    BY <1>0, <1>10, HeardEras, RowsTyped DEF FreshEvent
  <2>2. PICK i \in DOMAIN journal' : CoveredBy(journal'[i], e, w)
    BY DEF Accounted, CoveredBy
  <2>3. CASE i \in DOMAIN Flushed
    BY <1>0, <1>1, <2>1, <2>2, <2>3, FlushedCovers, KnownMarked
  <2>4. CASE i = n
    BY <1>1, <2>1, <2>2, <2>4 DEF CoveredBy, EventRow
  <2>5. QED BY <1>3, <2>3, <2>4
<1>11. QED BY <1>6, <1>8, <1>9, <1>10 DEF LogStep, LogOK

\* Command output that waits, merged or alone.
LEMMA DeltaRecords ==
  ASSUME LogInv, IInv', NEW m, FreshEvent(m), m.kind = "delta", BufferDelta(m), UNCHANGED produced,
         \A e \in Nat : Heard(e)' => Heard(e)
  PROVE  LogStep
<1>0. IInv
  BY DEF LogInv
<1>1. Seen \in Nat /\ Seen' \in Nat /\ m.wseq > Seen /\ m.wseq \in Nat /\ m.wseq \in produced[m.era]
      /\ ~Known(m.era, m.wseq) /\ m.era \in 1 .. Era
  <2>1. /\ m.wseq > Seen /\ m.wseq \in Nat /\ Seen \in Nat /\ m.wseq \in produced[m.era] /\ m.era \in 1 .. Era
        /\ Known(m.era, m.wseq) => m.wseq <= Seen
    BY DEF FreshEvent
  <2>2. ~Known(m.era, m.wseq)
    BY <2>1
  <2>3. Seen' \in Nat
    BY DEF IInv, TypeInv, TypeOK, HubOK, Seen, Larger, Pendings, NoGuard
  <2>4. QED BY <2>1, <2>2, <2>3
<1>2. Seen' >= Seen
  <2>1. pending'.wseq = m.wseq
    <3>1. pending \in Pendings
      BY <1>0 DEF IInv, TypeInv, TypeOK, HubOK
    <3>2. CASE pending' = [pending EXCEPT !.wseq = m.wseq, !.of = @ \cup {m.wseq}]
      BY <3>1, <3>2 DEF Pendings
    <3>3. CASE pending' = [era |-> m.era, wseq |-> m.wseq, of |-> {m.wseq}]
      BY <3>3
    <3>4. QED BY <3>2, <3>3 DEF BufferDelta
  <2>2. QED BY <1>0, <1>1, <2>1 DEF Seen, Larger, NoGuard, IInv, TypeInv, TypeOK, HubOK
<1>3. CASE /\ pending # NoDelta /\ pending.era = m.era
           /\ pending' = [pending EXCEPT !.wseq = m.wseq, !.of = @ \cup {m.wseq}]
           /\ UNCHANGED <<journal, cursor, guard>>
  <2>1. pending'.era = m.era /\ pending'.wseq = m.wseq /\ pending'.of = pending.of \cup {m.wseq}
    BY <1>0, <1>3 DEF IInv, TypeInv, TypeOK, HubOK, Pendings
  <2>2. \A v \in pending'.of : ~Accounted(m.era, v)
    BY <1>1, <1>3, <2>1 DEF LogInv, LogOK, PendingFresh, Known
  <2>3. \A v \in pending'.of : v <= m.wseq
    <3>1. \A v \in pending.of : v \in Nat /\ v <= pending.wseq
      BY <1>0, <1>3, Typed DEF LogInv, LogOK, PendingFresh
    <3>2. pending.wseq <= Seen /\ pending.wseq \in Nat
      BY <1>0, SeenFacts DEF IInv
    <3>3. QED BY <1>1, <2>1, <3>1, <3>2
  <2>4. pending'.of \subseteq produced[m.era]
    BY <1>1, <1>3, <2>1 DEF LogInv, LogOK, PendingFresh
  <2>5. PendingFresh'
    BY <1>3, <2>1, <2>2, <2>3, <2>4 DEF PendingFresh, Accounted
  <2>6. ASSUME NEW e \in Nat, Heard(e)' PROVE MarkedOf(e)'
    BY <1>0, <1>1, <1>2, <1>3, <2>6, HeardEras, MarkKept DEF LogInv, LogOK
  <2>7. QED BY <1>3, <2>5, <2>6, Kept
<1>4. CASE /\ journal' = Flushed /\ pending' = [era |-> m.era, wseq |-> m.wseq, of |-> {m.wseq}]
  <2>1. ~Accounted(m.era, m.wseq)'
    BY <1>0, <1>1, <1>4, FlushedCovers DEF Accounted, CoveredBy
  <2>2. PendingFresh'
    BY <1>1, <1>4, <2>1 DEF PendingFresh, Accounted
  <2>3. QED BY <1>0, <1>2, <1>4, <2>2, FlushRecords
<1>5. QED BY <1>3, <1>4 DEF BufferDelta

-----------------------------------------------------------------------------
(* A sweep, and what the worker produces.                                  *)

\* Markers behind the flushed journal record nothing.
LEMMA MarkersRecord ==
  ASSUME LogInv, IInv', NEW ms \in Seq({ResetRow, StaleRow}), Len(ms) <= 2,
         journal' = Flushed \o ms, UNCHANGED produced
  PROVE  RowsOK' /\ [Log!Next]_<<produced, LogOf(journal)>>
<1>0. IInv
  BY DEF LogInv
<1>1. /\ Flushed \in Seq(Rows) /\ Len(Flushed) \in Nat /\ DOMAIN Flushed = 1 .. Len(Flushed)
      /\ Len(ms) \in Nat /\ \A k \in 1 .. Len(ms) : ms[k] \in {ResetRow, StaleRow}
  BY <1>0, FlushedRows
<1>2. /\ \A i \in DOMAIN Flushed : i \in DOMAIN journal' /\ journal'[i] = Flushed[i]
      /\ \A i \in DOMAIN journal' :
           i \in DOMAIN Flushed \/ (i > Len(Flushed) /\ journal'[i] \in {ResetRow, StaleRow})
      /\ Len(journal') = Len(Flushed) + Len(ms) /\ DOMAIN journal' = 1 .. Len(journal')
  <2>1. Flushed \in Seq(Rows \cup {ResetRow, StaleRow}) /\ ms \in Seq(Rows \cup {ResetRow, StaleRow})
    BY <1>1
  <2>2. Len(Flushed \o ms) = Len(Flushed) + Len(ms) /\ DOMAIN (Flushed \o ms) = 1 .. Len(Flushed \o ms)
    BY <2>1
  <2>3. \A i \in DOMAIN (Flushed \o ms) : i \in Nat /\ i >= 1
    BY <1>1, <2>2
  <2>4. /\ \A i \in DOMAIN Flushed : i \in DOMAIN (Flushed \o ms) /\ (Flushed \o ms)[i] = Flushed[i]
        /\ \A i \in DOMAIN (Flushed \o ms) : i \in Nat /\ i >= 1 /\ i \notin DOMAIN Flushed =>
             i > Len(Flushed) /\ i - Len(Flushed) \in 1 .. Len(ms) /\ (Flushed \o ms)[i] = ms[i - Len(Flushed)]
    BY <1>1, ConcatMoves
  <2>5. \A i \in DOMAIN (Flushed \o ms) :
          i \in DOMAIN Flushed \/ (i > Len(Flushed) /\ (Flushed \o ms)[i] \in {ResetRow, StaleRow})
    BY <1>1, <2>3, <2>4
  <2>6. QED BY <2>2, <2>4, <2>5
<1>3. /\ Len(journal) \in Nat /\ DOMAIN journal = 1 .. Len(journal)
      /\ Len(Flushed) \in {Len(journal), Len(journal) + 1}
      /\ \A i \in DOMAIN journal : i \in DOMAIN Flushed /\ Flushed[i] = journal[i]
  BY <1>0, RowsTyped, FlushedShape, FlushedRows
<1>4. \E j : j = journal'
  OBVIOUS
<1>5. PICK j : j = journal'
  BY <1>4
<1>6. /\ \A i \in DOMAIN Flushed : i > Len(journal) => Stands(j, i)
      /\ \A i \in DOMAIN Flushed : RowOK(Flushed[i])
  BY <1>2, <1>5, FlushedStand
<1>7. RowsOK'
  BY <1>2, <1>6 DEF RowsOK, RowOK
<1>8. CASE Len(journal') = Len(journal)
  <2>1. Len(ms) = 0 /\ Len(Flushed) = Len(journal)
    <3>1. \A a, f, m, x \in Nat : f \in {a, a + 1} /\ x = f + m /\ x = a => m = 0 /\ f = a
      OBVIOUS
    <3>2. Len(journal') = Len(Flushed) + Len(ms) /\ Len(journal') \in Nat
      BY <1>1, <1>2
    <3>3. QED BY <1>1, <1>3, <1>8, <3>1, <3>2
  <2>2. ms = << >> /\ pending = NoDelta
    <3>0. \A a \in Nat : a # a + 1
      OBVIOUS
    <3>1. Len(Flushed) # Len(journal) + 1
      BY <1>3, <2>1, <3>0
    <3>2. pending = NoDelta
      BY <1>0, <3>1, FlushedShape
    <3>3. ms = << >>
      BY <2>1
    <3>4. QED BY <3>2, <3>3
  <2>3. Flushed = journal
    BY <1>0, <2>2, FlushedShape
  <2>4. journal' = journal
    BY <1>1, <2>2, <2>3
  <2>5. QED BY <1>7, <2>4, LogKept
<1>9. CASE Len(journal') # Len(journal)
  <2>1. Len(journal') \in Len(journal) + 1 .. Len(journal) + 3
    <3>1. \A a, f, m, x \in Nat : f \in {a, a + 1} /\ x = f + m /\ m <= 2 /\ x # a => x \in a + 1 .. a + 3
      OBVIOUS
    <3>2. Len(journal') = Len(Flushed) + Len(ms) /\ Len(journal') \in Nat
      BY <1>1, <1>2
    <3>3. QED BY <1>1, <1>3, <1>9, <3>1, <3>2
  <2>2. \A i \in Len(journal) + 1 .. Len(journal') : Stands(journal', i)
    <3> SUFFICES ASSUME NEW i \in Len(journal) + 1 .. Len(journal') PROVE Stands(j, i)
      BY <1>5
    <3>1. i \in DOMAIN journal' /\ i > Len(journal)
      BY <1>2, <1>3
    <3>2. CASE i \in DOMAIN Flushed
      BY <1>6, <3>1, <3>2
    <3>3. CASE i \notin DOMAIN Flushed
      BY <1>2, <1>5, <3>1, <3>3 DEF Stands
    <3>4. QED BY <3>2, <3>3
  <2>3. \A i \in DOMAIN journal : journal'[i] = journal[i]
    BY <1>2, <1>3
  <2>4. Log!Next
    BY <1>0, <1>7, <2>1, <2>2, <2>3, RowsRecorded
  <2>5. QED BY <1>7, <2>4
<1>10. QED BY <1>8, <1>9

\* The sweep, which forgets the mark, of a session of which nothing can be heard.
LEMMA SweepRecords ==
  ASSUME LogInv, IInv', SweepStale, UNCHANGED produced,
         \A e \in Nat : Heard(e)' => e \in 1 .. Era /\ produced[e] = {}
  PROVE  LogStep
<1>1. PICK ms : ms \in {<< >>, <<ResetRow>>, <<ResetRow, StaleRow>>} /\ journal' = Flushed \o ms
  BY DEF SweepStale
<1>2. ms \in Seq({ResetRow, StaleRow}) /\ Len(ms) <= 2
  <2>1. \A a, b : /\ << >> \in Seq({a, b}) /\ Len(<< >>) <= 2
                  /\ <<a>> \in Seq({a, b}) /\ Len(<<a>>) <= 2
                  /\ <<a, b>> \in Seq({a, b}) /\ Len(<<a, b>>) <= 2
    OBVIOUS
  <2>2. QED BY <1>1, <2>1
<1>3. RowsOK' /\ [Log!Next]_<<produced, LogOf(journal)>>
  BY <1>1, <1>2, MarkersRecord
<1>4. PendingFresh'
  BY DEF SweepStale, PendingFresh
<1>5. \A e \in Nat : Heard(e)' => MarkedOf(e)'
  BY DEF MarkedOf
<1>6. QED BY <1>3, <1>4, <1>5 DEF LogStep, LogOK

\* The worker numbers an event: the hub hears of it only where it has what came before.
LEMMA ProduceStep ==
  ASSUME LogInv, produced' = [produced EXCEPT ![Era] = @ \cup {ring.last + 1}],
         UNCHANGED <<journal, pending, guard>>,
         \A e \in Nat : Heard(e)' => Heard(e) \/ (e = Era /\ MarkedOf(Era))
  PROVE  LogStep
<1>0. IInv
  BY DEF LogInv
<1>1. /\ Era \in 1 .. Era /\ DOMAIN produced' = 1 .. Era /\ Len(produced') = Era
      /\ produced'[Era] = produced[Era] \cup {ring.last + 1}
      /\ \A e \in 1 .. Era : e # Era => produced'[e] = produced[e]
      /\ ring.last \in Nat /\ Era' = Era
  BY <1>0, EraGrows, Typed DEF Era
<1>2. ASSUME NEW i \in DOMAIN journal, journal[i].era = Era
      PROVE  journal[i].wseq \in Nat /\ journal[i].wseq <= ring.last /\ RowOK(journal[i])
             /\ journal[i] # ResetRow /\ journal[i] # StaleRow
  <2>1. journal[i] # ResetRow /\ journal[i] # StaleRow
    BY <1>1, <1>2 DEF ResetRow, StaleRow
  <2>2. RowOK(journal[i])
    BY DEF LogInv, LogOK, RowsOK
  <2>3. WorkerRow(i)
    BY <2>1, <2>2 DEF RowOK, WorkerRow, IsWorkerRow
  <2>4. QED BY <1>0, <1>2, <2>1, <2>2, <2>3, RowsTyped DEF IInv, IngestOK, NumbersOK, Rows
<1>3. ~Accounted(Era, ring.last + 1)
  BY <1>1, <1>2, AccountedRows DEF CoveredBy, RowOK
<1>4. RowsOK'
  BY DEF LogInv, LogOK, RowsOK
<1>5. PendingFresh'
  BY <1>0, <1>1 DEF PendingFresh, Accounted, IInv, IngestOK, PendingOK, LogInv, LogOK
<1>6. ASSUME NEW e \in Nat, Heard(e)' PROVE MarkedOf(e)'
  BY <1>0, <1>1, <1>3, <1>6, HeardEras DEF LogInv, LogOK, MarkedOf, Accounted, Seen
<1>7. Log!Produce
  <2>1. Len(produced) = Era /\ produced \in Seq(SUBSET Nat)
    BY <1>0 DEF Era, IInv, TypeInv, TypeOK, WorkerOK
  <2>2. produced' = [produced EXCEPT ![Era] = produced'[Era]]
    BY <1>1, <2>1
  <2>3. \A w \in produced'[Era] \ produced[Era], v \in produced[Era] : v < w
    BY <1>0, <1>1, RowsTyped DEF IInv, IngestOK, NumbersOK, Numbered
  <2>4. UNCHANGED LogOf(journal)
    BY DEF LogOf
  <2>5. \A i \in DOMAIN LogOf(journal), w \in produced'[Era] \ produced[Era] :
          LogOf(journal)[i].era = Era => LogOf(journal)[i].through < w
    BY <1>1, <1>2 DEF LogOf, Entry
  <2> HIDE DEF Era
  <2>6. QED BY <1>1, <2>1, <2>2, <2>3, <2>4, <2>5 DEF Log!Produce
<1>8. QED BY <1>4, <1>5, <1>6, <1>7 DEF LogStep, LogOK, Log!Next

\* The worker numbers afresh.
LEMMA NewEraStep ==
  ASSUME LogInv, produced' = Append(produced, {}), UNCHANGED <<journal, pending, guard>>,
         \A e \in Nat : Heard(e)' => Heard(e) \/ e = Era + 1
  PROVE  LogStep
<1>0. IInv
  BY DEF LogInv
<1>1. /\ Era' = Era + 1 /\ produced'[Era + 1] = {}
      /\ \A e \in 1 .. Era : produced'[e] = produced[e]
  BY <1>0, EraBegins
<1>2. RowsOK'
  BY DEF LogInv, LogOK, RowsOK
<1>3. PendingFresh'
  BY <1>0, <1>1 DEF PendingFresh, Accounted, IInv, IngestOK, PendingOK, LogInv, LogOK
<1>4. ASSUME NEW e \in Nat, Heard(e)' PROVE MarkedOf(e)'
  <2>1. CASE Heard(e)
    BY <1>0, <1>1, <2>1, HeardEras DEF LogInv, LogOK, MarkedOf, Accounted, Seen
  <2>2. CASE e = Era + 1
    BY <1>1, <2>2 DEF MarkedOf
  <2>3. QED BY <1>4, <2>1, <2>2
<1>5. Log!NewEra
  BY DEF Log!NewEra, LogOf
<1>6. QED BY <1>2, <1>3, <1>4, <1>5 DEF LogStep, LogOK, Log!Next

-----------------------------------------------------------------------------
(* Steps that let no further era be heard.                                 *)

\* Every event on the wire has the era of one that was there.
NoNewEvent ==
  \A i \in DOMAIN toHub' : toHub'[i].t = "event" =>
    \E j \in DOMAIN toHub : toHub[j].t = "event" /\ toHub[j].era = toHub'[i].era

\* Then no further era is heard, unless a link opens or a replay is asked for.
LEMMA HeardKept ==
  ASSUME UNCHANGED produced, NoNewEvent,
         link' = "open" => link = "open" /\ (synced' => synced \/ Asked) /\ (Asked' => Asked)
  PROVE  \A e \in Nat : Heard(e)' => Heard(e)
BY DEF NoNewEvent, Heard, Era

\* A step that changes neither the journal nor the marks, and lets nothing further be heard.
LEMMA QuietStep ==
  ASSUME LogInv, UNCHANGED <<journal, produced, pending, guard>>, NoNewEvent,
         link' = "open" => link = "open" /\ (synced' => synced \/ Asked) /\ (Asked' => Asked)
  PROVE  LogStep
BY Typed, HeardKept, Still DEF Seen, LogInv

\* A worker that reads a command is not asked for more.
LEMMA AskedRead ==
  ASSUME ReadWorker, Asked'
  PROVE  Asked
BY DEF ReadWorker, Asked

\* Nor one that is sent something else than a cursor.
LEMMA AskedSent ==
  ASSUME NEW m, SentWorker(m), m.t # "attach" \/ m.since = NoCursor, Asked'
  PROVE  Asked
BY DEF SentWorker, Asked

\* The worker sends frames that are no events.
LEMMA OtherFrames ==
  ASSUME Grown, \A j \in DOMAIN toHub' : j \notin DOMAIN toHub => toHub'[j].t # "event"
  PROVE  NoNewEvent
BY DEF Grown, NoNewEvent

\* Nothing is sent or read.
LEMMA FramesKept ==
  ASSUME UNCHANGED toHub
  PROVE  NoNewEvent
BY DEF NoNewEvent

\* The hub reads a frame.
LEMMA FramesRead ==
  ASSUME ReadHub
  PROVE  NoNewEvent
BY DEF ReadHub, NoNewEvent

\* The end of a turn is a marker of its own.
LEMMA EndTurnLog ==
  ASSUME LogInv, EndTurn
  PROVE  LogStep
<1>0. IInv
  BY DEF LogInv
<1>1. \E k \in {"completed", "errored"} :
        \/ SendsOne(TurnMsg(k, FALSE))
        \/ SendsTwo(TurnMsg(k, FALSE), AckMsg(accepting))
  BY DEF EndTurn, SendsOne, SendsTwo
<1>2. Grown /\ \A j \in DOMAIN toHub' : j \notin DOMAIN toHub => toHub'[j].t # "event"
  BY <1>0, <1>1, OneSent, TwoSent, NothingSent DEF TurnMsg, AckMsg, IInv, SendsOne, SendsTwo
<1>3. UNCHANGED <<journal, produced, pending, guard, link, synced, toWorker>>
  BY DEF EndTurn, durable, hub
<1>4. NoNewEvent
  BY <1>2, OtherFrames
<1>5. QED BY <1>3, <1>4, QuietStep DEF Asked

\* The worker reports what it holds.
LEMMA HandleListLiveLog ==
  ASSUME LogInv, HandleListLive
  PROVE  LogStep
<1>0. IInv
  BY DEF LogInv
<1>1. ReadWorker
  BY <1>0, CommandRead DEF HandleListLive, IInv
<1>2. Grown /\ \A j \in DOMAIN toHub' : j \notin DOMAIN toHub => toHub'[j].t # "event"
  BY <1>0, OneSent, NothingSent DEF HandleListLive, SendsOne, LiveMsg, IInv
<1>3. UNCHANGED <<journal, produced, pending, guard, link, synced>>
  BY DEF HandleListLive, durable, hub, worker
<1>4. NoNewEvent
  BY <1>2, OtherFrames
<1>5. QED BY <1>1, <1>3, <1>4, QuietStep, AskedRead

\* A turn begins with its marker.
LEMMA HandleRunTurnLog ==
  ASSUME LogInv, HandleRunTurn
  PROVE  LogStep
<1>0. IInv
  BY DEF LogInv
<1>1. ReadWorker
  BY <1>0, CommandRead DEF HandleRunTurn, IInv
<1>2. Grown /\ \A j \in DOMAIN toHub' : j \notin DOMAIN toHub => toHub'[j].t # "event"
  BY <1>0, OneSent, TwoSent, NothingSent DEF HandleRunTurn, SendsOne, SendsTwo, TurnMsg, AckMsg, IInv
<1>3. UNCHANGED <<journal, produced, pending, guard, link, synced>>
  BY DEF HandleRunTurn, durable, hub
<1>4. NoNewEvent
  BY <1>2, OtherFrames
<1>5. QED BY <1>1, <1>3, <1>4, QuietStep, AskedRead

\* A second turn is announced and refused.
LEMMA RefuseRunTurnLog ==
  ASSUME LogInv, RefuseRunTurn
  PROVE  LogStep
<1>0. IInv
  BY DEF LogInv
<1>1. ReadWorker
  BY <1>0, CommandRead DEF RefuseRunTurn, IInv
<1>2. Grown /\ \A j \in DOMAIN toHub' : j \notin DOMAIN toHub => toHub'[j].t # "event"
  BY <1>0, ThreeSent, NothingSent DEF RefuseRunTurn, SendsThree, TurnMsg, AckMsg, IInv
<1>3. UNCHANGED <<journal, produced, pending, guard, link, synced>>
  BY DEF RefuseRunTurn, durable, hub
<1>4. NoNewEvent
  BY <1>2, OtherFrames
<1>5. QED BY <1>1, <1>3, <1>4, QuietStep, AskedRead

\* The welcome starts attachWorker().
LEMMA RecvWelcomeLog ==
  ASSUME LogInv, RecvWelcome
  PROVE  LogStep
<1>0. IInv
  BY DEF LogInv
<1>1. ReadHub
  BY <1>0, FrameRead DEF RecvWelcome, IInv
<1>2. SentWorker(ListLive("attached"))
  BY <1>0, WorkerSent DEF RecvWelcome, IInv
<1>3. Asked' => Asked
  BY <1>2, AskedSent DEF ListLive
<1>4. UNCHANGED <<journal, produced, pending, guard, link, synced>>
  BY DEF RecvWelcome, durable, worker
<1>5. QED BY <1>1, <1>3, <1>4, FramesRead, QuietStep

\* The other frames that the hub reads without a word to the worker.
LEMMA ReplyLog ==
  ASSUME LogInv, RecvLive \/ RecvAck \/ RecvAttachAck
  PROVE  LogStep
BY FrameRead, FramesRead, QuietStep DEF LogInv, RecvLive, RecvAck, RecvAttachAck, IInv, durable, worker, Asked

\* What the hub does of its own accord, asking for no replay.
LEMMA RequestLog ==
  ASSUME LogInv, NEW m, m.t # "attach",
         toWorker' = Append(toWorker, m) \/ UNCHANGED toWorker,
         UNCHANGED <<journal, produced, pending, guard, link, synced, toHub>>
  PROVE  LogStep
<1>0. IInv
  BY DEF LogInv
<1>1. Asked' => Asked
  BY <1>0, WorkerSent, AskedSent DEF IInv, Asked
<1>2. QED BY <1>1, FramesKept, QuietStep

\* Requests of the hub that ask for no replay, and steps that touch no event.
LEMMA OperatorLog ==
  ASSUME LogInv, \/ \E r \in Runs : Relist(r)
                 \/ ReconcileStale \/ SendTurn \/ Stop \/ Reopen \/ Handoff \/ HubBoot \/ UNCHANGED vars
  PROVE  LogStep
<1>1. ASSUME NEW r \in Runs, Relist(r) PROVE LogStep
  BY <1>1, RequestLog DEF Relist, ListLive, durable, worker
<1>2. CASE ReconcileStale
  BY <1>2, RequestLog DEF ReconcileStale, durable, worker, ListLive
<1>3. CASE SendTurn
  BY <1>3, RequestLog DEF SendTurn, durable, worker, RunTurn
<1>4. CASE Handoff
  BY <1>4, RequestLog DEF Handoff, worker, StopSession
<1>5. CASE Stop \/ Reopen \/ HubBoot \/ UNCHANGED vars
  <2>1. UNCHANGED <<journal, produced, pending, guard, link, synced, toHub, toWorker>>
    BY <1>5 DEF Stop, Reopen, HubBoot, vars, durable, hub, worker, channel
  <2>2. StopSession.t # "attach"
    BY DEF StopSession
  <2>3. QED BY <2>1, <2>2, RequestLog
<1>6. QED BY <1>1, <1>2, <1>3, <1>4, <1>5

\* A new socket.
LEMMA ConnectLog ==
  ASSUME LogInv, Connect
  PROVE  LogStep
BY QuietStep DEF Connect, durable, hub, worker, NoNewEvent

\* A hub that ends hears nothing and forgets its pending text.
LEMMA HubCrashLog ==
  ASSUME LogInv, HubCrash
  PROVE  LogStep
BY Kept DEF HubCrash, ClearHubMemory, durable, worker, PendingFresh, Heard

-----------------------------------------------------------------------------
(* Steps that flush the pending text.                                      *)

\* A flush leaves the mark where it was.
LEMMA FlushLog ==
  ASSUME LogInv, IInv', FlushCommandOutputDelta, UNCHANGED produced, \A e \in Nat : Heard(e)' => Heard(e)
  PROVE  LogStep
BY Typed, FlushRecords DEF LogInv, FlushCommandOutputDelta, GuardFlushed, Seen, Larger, NoGuard, NoDelta,
   PendingFresh

\* The flush timer, and a call that fails.
LEMMA TimersLog ==
  ASSUME LogInv, IInv', FlushTimer \/ CallTimeout \/ SendTurnUnattached
  PROVE  LogStep
BY FlushLog DEF FlushTimer, CallTimeout, SendTurnUnattached, UnconfirmedTurn, worker, channel, Heard, Asked, Era

\* A marker of a turn flushes the pending text.
LEMMA RecvTurnLog ==
  ASSUME LogInv, IInv', RecvTurn
  PROVE  LogStep
BY FrameRead, HeardRead, FlushLog DEF RecvTurn, LogInv, IInv, worker

\* The socket closes; a call in flight fails and flushes.
LEMMA DropLog ==
  ASSUME LogInv, IInv', Drop
  PROVE  LogStep
<1>1. toHub' = << >> /\ link' = "none" /\ UNCHANGED produced
  BY DEF Drop, worker
<1>2. \A e \in Nat : ~Heard(e)'
  BY <1>1 DEF Heard
<1>3. CASE calling # 0
  BY <1>1, <1>2, <1>3, FlushLog DEF Drop, UnconfirmedTurn
<1>4. CASE calling = 0
  BY <1>1, <1>4, QuietStep DEF Drop, NoNewEvent
<1>5. QED BY <1>3, <1>4

\* An event is dropped, journaled or pending.
LEMMA RecvEventLog ==
  ASSUME LogInv, IInv', RecvEvent
  PROVE  LogStep
<1>0. IInv
  BY DEF LogInv
<1>1. ReadHub /\ Head(toHub) = toHub[1] /\ toHub[1].t = "event" /\ 1 \in DOMAIN toHub
  BY <1>0, FrameRead DEF RecvEvent, IInv, ReadHub
<1>2. UNCHANGED <<link, synced, toWorker, produced>>
  BY DEF RecvEvent, worker
<1>3. \A e \in Nat : Heard(e)' => Heard(e)
  BY <1>1, <1>2, HeardRead
<1>4. PICK m : m = toHub[1]
  OBVIOUS
<1>5. CASE m.wseq <= Seen
  BY <1>0, <1>1, <1>2, <1>3, <1>4, <1>5, Typed, Still DEF RecvEvent, Seen
<1>6. CASE ~(m.wseq <= Seen)
  <2>1. m.wseq > Seen
    BY <1>0, <1>1, <1>4, <1>6, FieldsTyped, Typed
  <2>2. FreshEvent(m)
    BY <1>1, <1>4, <2>1, HeadFresh
  <2>3. CASE m.kind = "delta" /\ BufferDelta(m)
    BY <1>2, <1>3, <2>2, <2>3, DeltaRecords
  <2>4. CASE JournalEvent(m)
    BY <1>2, <1>3, <2>2, <2>4, EventRecords
  <2>5. QED BY <1>1, <1>4, <1>6, <2>3, <2>4 DEF RecvEvent
<1>7. QED BY <1>5, <1>6

-----------------------------------------------------------------------------
(* Steps of the worker that produce, or begin an era.                      *)

\* An event is emitted on a link that has replayed the ring.
LEMMA EmitLog ==
  ASSUME Ordinary, LogInv, Emit
  PROVE  LogStep
<1>0. IInv
  BY DEF LogInv
<1>1. /\ produced' = [produced EXCEPT ![Era] = @ \cup {ring.last + 1}]
      /\ UNCHANGED <<journal, pending, guard, link, synced, toWorker>>
  BY DEF Emit, durable, hub
<1>2. \E k \in {"text", "delta"} : SendsOne(EventMsg(Era, ring.last + 1, k))
  BY DEF Emit, SendsOne
<1>3. Era' = Era
  BY <1>0, <1>1, EraGrows
<1>4. ASSUME NEW e \in Nat, Heard(e)' PROVE Heard(e)
  <2>1. CASE link = "open"
    BY <1>0, <1>2, <1>3, <1>4, <2>1, OneSent DEF Emit, MayEmit, Ordinary, EventMsg, Grown, IInv, Heard
  <2>2. CASE link # "open"
    BY <1>0, <1>1, <1>2, <1>4, <2>2, NothingSent DEF SendsOne, Heard
  <2>3. QED BY <2>1, <2>2
<1>5. QED BY <1>1, <1>4, ProduceStep

\* The first event of a codex thread that is resumed.
LEMMA ResumeThreadLog ==
  ASSUME LogInv, ResumeThread
  PROVE  LogStep
<1>0. IInv
  BY DEF LogInv
<1>1. /\ produced' = [produced EXCEPT ![Era] = @ \cup {ring.last + 1}]
      /\ UNCHANGED <<journal, pending, guard, link, synced, toWorker>>
  BY DEF ResumeThread, durable, hub
<1>2. SendsTwo(EventMsg(Era, ring.last + 1, "text"), AckMsg(accepting))
  BY DEF ResumeThread, SendsTwo
<1>3. Era' = Era
  BY <1>0, <1>1, EraGrows
<1>4. MarkedOf(Era)
  BY <1>0 DEF ResumeThread, IInv, ProtocolOK, TurnOK, IngestOK, UnheldOK, MarkedOf
<1>5. ASSUME NEW e \in Nat, Heard(e)' PROVE Heard(e) \/ e = Era
  <2>1. CASE link = "open"
    BY <1>0, <1>2, <1>3, <1>5, <2>1, TwoSent DEF EventMsg, AckMsg, Grown, IInv, Heard
  <2>2. CASE link # "open"
    BY <1>0, <1>1, <1>2, <1>5, <2>2, NothingSent DEF SendsTwo, Heard
  <2>3. QED BY <2>1, <2>2
<1>6. QED BY <1>1, <1>4, <1>5, ProduceStep

\* The worker forgets the session, or dies.
LEMMA NewEraLog ==
  ASSUME LogInv, HandleStopSession \/ WorkerDeath
  PROVE  LogStep
BY EraBegins, NewEraStep DEF LogInv, HandleStopSession, WorkerDeath, durable, hub, Heard

-----------------------------------------------------------------------------
(* Links and re-attachment.                                                *)

\* A link counts as replayed when there is nothing to replay.
LEMMA AcceptLog ==
  ASSUME LogInv, Accept
  PROVE  LogStep
<1>0. IInv
  BY DEF LogInv
<1>1. /\ link = "hello" /\ toHub' = <<Welcome>> /\ synced' = (ring = EmptyRing)
      /\ UNCHANGED <<journal, pending, guard, produced, toWorker>>
  BY DEF Accept, durable, hub, worker
<1>2. toWorker = << >>
  BY <1>0, <1>1 DEF IInv, ProtocolOK, SocketOK
<1>3. ASSUME ring = EmptyRing PROVE MarkedOf(Era)
  BY <1>0, <1>3, Typed, RowsTyped DEF IInv, IngestOK, NumbersOK, Numbered, EmptyRing, MarkedOf
<1>4. ASSUME NEW e \in Nat, Heard(e)' PROVE e \in 1 .. Era /\ MarkedOf(e)
  <2>1. ~\E i \in DOMAIN toHub' : toHub'[i].t = "event"
    BY <1>1 DEF Welcome
  <2>2. ~Asked'
    BY <1>1, <1>2 DEF Asked
  <2>3. synced' /\ e = Era /\ Era \in 1 .. Era
    <3>1. Era' = Era
      BY <1>1 DEF Era
    <3>2. synced' /\ e = Era'
      BY <1>4, <2>1, <2>2 DEF Heard
    <3>3. Era \in 1 .. Era
      BY <1>0, Typed
    <3>4. QED BY <3>1, <3>2, <3>3
  <2>4. QED BY <1>1, <1>3, <2>3
<1>5. Seen' = Seen /\ Seen \in Nat
  BY <1>0, <1>1, Typed DEF Seen
<1>6. QED BY <1>1, <1>4, <1>5, Still

\* The replay on a link on which it was asked for.
LEMMA HandleAttachLog ==
  ASSUME LogInv, HandleAttach
  PROVE  LogStep
<1>0. IInv
  BY DEF LogInv
<1>1. /\ ReadWorker /\ toWorker[1].t = "attach" /\ toWorker[1].run \in Runs /\ 1 \in DOMAIN toWorker
      /\ toWorker[1].since \in Nat \cup {NoCursor} /\ Head(toWorker) = toWorker[1]
  BY <1>0, CommandRead, CommandFields DEF HandleAttach, IInv, ReadWorker
<1>2. /\ UNCHANGED <<journal, pending, guard, produced, link>>
      /\ synced' = (synced \/ toWorker[1].since # NoCursor)
  BY <1>1 DEF HandleAttach, durable, hub, worker
<1>3. Asked' => Asked
  BY <1>1, AskedRead
<1>4. CASE link # "open"
  <2>1. toHub' = toHub
    BY <1>0, <1>4, NothingSent DEF HandleAttach
  <2>2. NoNewEvent
    BY <2>1, FramesKept
  <2>3. QED BY <1>2, <1>4, <2>2, QuietStep
<1>5. CASE link = "open" /\ toWorker[1].since = NoCursor
  <2>1. SendsOne(AttachAck(toWorker[1].run))
    <3>1. << >> \o <<AttachAck(toWorker[1].run)>> = <<AttachAck(toWorker[1].run)>>
      OBVIOUS
    <3>2. Send(<< >> \o <<AttachAck(toWorker[1].run)>>)
      BY <1>1, <1>5 DEF HandleAttach
    <3>3. QED BY <3>1, <3>2 DEF SendsOne
  <2>2. Grown /\ \A j \in DOMAIN toHub' : j \notin DOMAIN toHub => toHub'[j].t # "event"
    BY <1>0, <1>5, <2>1, OneSent DEF AttachAck, IInv
  <2>3. NoNewEvent
    BY <2>2, OtherFrames
  <2>4. QED BY <1>2, <1>3, <1>5, <2>3, QuietStep
<1>6. CASE link = "open" /\ toWorker[1].since # NoCursor
  <2>1. PICK c, r : c = toWorker[1].since /\ r = toWorker[1].run
    OBVIOUS
  <2>2. c \in Nat /\ r \in Runs /\ SendsReplay(c, r)
    BY <1>1, <1>6, <2>1 DEF HandleAttach, SendsReplay
  <2>3. \A j \in DOMAIN toHub' : /\ j \in DOMAIN toHub => toHub'[j] = toHub[j]
                                 /\ j \notin DOMAIN toHub /\ toHub'[j].t = "event" => toHub'[j].era = Era
    <3>1. /\ Grown
          /\ \A j \in DOMAIN toHub' : j \notin DOMAIN toHub =>
              \/ j - Len(toHub) \in 1 .. Len(Replay(c)) /\ toHub'[j] = Replay(c)[j - Len(toHub)]
              \/ toHub'[j] = AttachAck(r)
      BY <1>0, <1>6, <2>2, ReplaySent
    <3>2. \A k \in 1 .. Len(Replay(c)) : Replay(c)[k].t = "event" => Replay(c)[k].era = Era
      BY <1>0, <2>2, ReplayFrames DEF ReplayedEvent, ReplayedMark
    <3>3. AttachAck(r).t # "event"
      BY DEF AttachAck
    <3>4. QED BY <3>1, <3>2, <3>3 DEF Grown
  <2>4. Asked
    BY <1>1, <1>6 DEF Asked
  <2>5. \A e \in Nat : Heard(e)' => Heard(e)
    BY <1>2, <1>6, <2>3, <2>4 DEF Heard, Era
  <2>6. Seen' = Seen /\ Seen \in Nat
    BY <1>0, <1>2, Typed DEF Seen
  <2>7. QED BY <1>2, <2>5, <2>6, Still
<1>7. QED BY <1>4, <1>5, <1>6

\* The durable cursor covers what the journal has of the current era.
LEMMA CursorCovers ==
  ASSUME LogInv, NEW w \in produced[Era], Accounted(Era, w)
  PROVE  w <= cursor
<1>0. IInv
  BY DEF LogInv
<1>1. PICK i \in DOMAIN journal : CoveredBy(journal[i], Era, w)
  BY AccountedRows
<1>2. RowOK(journal[i]) /\ journal[i] # ResetRow /\ journal[i] # StaleRow
  BY <1>0, <1>1, Typed DEF LogInv, LogOK, RowsOK, CoveredBy, ResetRow, StaleRow
<1>3. WorkerRow(i) /\ journal[i].era = Era /\ w <= journal[i].wseq
  BY <1>1, <1>2 DEF RowOK, CoveredBy, WorkerRow, IsWorkerRow
<1>4. \A k \in DOMAIN journal : i < k => journal[k].kind # "reset"
  BY <1>0, <1>3 DEF IInv, IngestOK, TruthOK, Unsplit
<1>5. journal[i].wseq \in SinceReset(journal)
  BY <1>0, <1>3, <1>4, RowsTyped DEF WorkerRow, IsWorkerRow, SinceReset
<1>6. journal[i].wseq <= cursor
  BY <1>5 DEF LogInv, CursorIsHighWater, HighWater
<1>7. w \in Nat /\ journal[i].wseq \in Nat /\ cursor \in Nat
  <2>1. Era \in 1 .. Era /\ cursor \in Nat
    BY <1>0, Typed
  <2>2. w \in Nat
    BY <1>0, <2>1, RowsTyped
  <2>3. journal[i] \in Rows
    BY <1>0, RowsTyped
  <2>4. journal[i].wseq \in Nat
    BY <2>3 DEF Rows
  <2>5. QED BY <2>1, <2>2, <2>4
<1>8. QED BY <1>3, <1>6, <1>7

\* The claim raises the mark to the cursor before it asks for the replay.
LEMMA ReconcileLog ==
  ASSUME LogInv, NEW r \in Runs, Reconcile(r)
  PROVE  LogStep
<1>0. IInv
  BY DEF LogInv
<1>1. UNCHANGED <<journal, pending, produced, link, toHub, synced>>
  BY DEF Reconcile, worker
<1>2. CASE PassOver(r)
  <2>1. UNCHANGED guard
    BY <1>2 DEF PassOver
  <2>2. Asked' => Asked
    BY <1>0, <1>2, WorkerSent, AskedSent DEF PassOver, Attach, ListLive, IInv
  <2>3. QED BY <1>1, <2>1, <2>2, FramesKept, QuietStep
<1>3. CASE ClaimSession(r)
  <2>1. Seen' \in Nat /\ Seen' >= Seen /\ Seen' >= cursor
    BY <1>0, <1>1, <1>3, Typed DEF ClaimSession, Seen, Larger, NoGuard
  <2>2. PendingFresh'
    BY <1>1 DEF LogInv, LogOK, PendingFresh, Accounted
  <2>3. ASSUME NEW e \in Nat, Heard(e)' PROVE MarkedOf(e)'
    <3>1. CASE Heard(e)
      BY <1>0, <1>1, <2>1, <3>1, HeardEras, MarkKept DEF LogInv, LogOK
    <3>2. CASE ~Heard(e)
      <4>1. e = Era
        BY <1>1, <2>3, <3>2 DEF Heard, Era
      <4> SUFFICES ASSUME NEW w \in produced[e], Accounted(e, w)' PROVE w <= Seen'
        BY <1>1 DEF MarkedOf
      <4>2. Accounted(e, w)
        BY <1>1 DEF Accounted
      <4>3. w <= cursor /\ w \in Nat /\ cursor \in Nat
        BY <1>0, <4>1, <4>2, CursorCovers, RowsTyped, Typed
      <4>4. QED BY <2>1, <4>3
    <3>3. QED BY <3>1, <3>2
  <2>4. QED BY <1>1, <2>2, <2>3, Kept
<1>4. QED BY <1>2, <1>3 DEF Reconcile

\* A session that the worker does not hold is swept.
LEMMA SweepLog ==
  ASSUME LogInv, IInv', NEW r \in Runs, Sweep(r)
  PROVE  LogStep
<1>0. IInv
  BY DEF LogInv
<1>1. UNCHANGED <<produced, link, toHub, toWorker, synced>>
  BY DEF Sweep, worker, channel
<1>2. CASE run[r].held
  BY <1>1, <1>2, FramesKept, QuietStep DEF Sweep, Asked
<1>3. CASE ~run[r].held
  <2>1. SweepStale /\ Recorded(r)
    BY <1>3 DEF Sweep, Recorded
  <2>2. \A j \in DOMAIN toHub : toHub[j].t # "event"
    BY <1>0, <1>3, <2>1 DEF IInv, HeldOK
  <2>3. link = "open" => produced[Era] = {}
    BY <1>0, <1>3, <2>1 DEF IInv, HeldOK, IngestOK, UnheldOK
  <2>4. \A e \in Nat : Heard(e)' => e \in 1 .. Era /\ produced[e] = {}
    BY <1>0, <1>1, <2>2, <2>3, Typed DEF Era, Heard
  <2>5. QED BY <1>1, <2>1, <2>4, SweepRecords
<1>4. QED BY <1>2, <1>3

-----------------------------------------------------------------------------
(* The theorem.                                                            *)

\* It begins with an empty journal.
LEMMA LogInit == Init => LogInv /\ Log!Init
<1> SUFFICES ASSUME Init PROVE LogInv /\ Log!Init
  OBVIOUS
<1>1. IInv /\ CursorIsHighWater
  BY InvInit DEF Init, SinceReset, CursorIsHighWater, HighWater
<1>2. journal = << >> /\ produced = <<{}>> /\ pending = NoDelta /\ toHub = << >> /\ link = "none"
  BY DEF Init
<1>3. RowsOK /\ PendingFresh /\ \A e \in Nat : ~Heard(e)
  BY <1>2 DEF RowsOK, PendingFresh, Heard
<1>4. LogOf(journal) = << >>
  BY <1>2 DEF LogOf
<1>5. QED BY <1>1, <1>2, <1>3, <1>4 DEF LogInv, LogOK, Log!Init

\* Each step is one of the log, or leaves it as it is.
LEMMA LogNext ==
  ASSUME Ordinary, LogInv, [Next]_vars
  PROVE  LogInv' /\ [Log!Next]_<<produced, LogOf(journal)>>
<1>1. IInv'
  BY InvStep DEF LogInv
<1>2. CursorIsHighWater'
  BY CursorStep DEF LogInv, IInv
<1>3. LogStep
  <2>1. CASE WorkerSystem
    BY <2>1, ResumeThreadLog, HandleListLiveLog, HandleAttachLog, HandleRunTurnLog, RefuseRunTurnLog,
       NewEraLog, AcceptLog DEF WorkerSystem
  <2>2. CASE HubSystem
    BY <1>1, <2>2, OperatorLog, ConnectLog, RecvWelcomeLog, RecvEventLog, RecvTurnLog, ReplyLog,
       ReconcileLog, SweepLog, TimersLog DEF HubSystem
  <2>3. CASE Drop
    BY <1>1, <2>3, DropLog
  <2>4. CASE Environment
    BY <1>1, <2>4, EmitLog, EndTurnLog, OperatorLog, TimersLog, NewEraLog, HubCrashLog DEF Environment
  <2>5. CASE UNCHANGED vars
    BY <2>5, OperatorLog
  <2>6. QED BY <2>1, <2>2, <2>3, <2>4, <2>5 DEF Next
<1>4. QED BY <1>1, <1>2, <1>3 DEF LogInv, LogStep

\* The journal implements the exactly-once log: in every ordinary environment each event of a
\* worker era is recorded once and in order, and passed over only by a gap row that says so
\* (wseqBuffer.ts; sessions.ts attachWorker(), ingestWorkerEvent(); journal.ts).
THEOREM ImplementsLogCorrect == Ordinary => (Spec => ImplementsLog)
<1> SUFFICES ASSUME Ordinary PROVE Spec => ImplementsLog
  OBVIOUS
<1>1. Init => LogInv /\ Log!Init
  BY LogInit
<1>2. LogInv /\ [Next]_vars => LogInv' /\ [Log!Next]_<<produced, LogOf(journal)>>
  BY LogNext
<1>3. QED BY <1>1, <1>2, PTL DEF Spec, ImplementsLog, Log!Spec

=============================================================================
