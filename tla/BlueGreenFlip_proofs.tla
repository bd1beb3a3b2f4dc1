------------------------ MODULE BlueGreenFlip_proofs ------------------------
(***************************************************************************)
(* Theorems about BlueGreenFlip: type correctness, one holder of the       *)
(* questions, the profiles and the backups, and the hand-over of the       *)
(* question lifecycle as an abstract role.                                 *)
(*                                                                         *)
(* A hub is a claimant while it holds an authority or something is under   *)
(* way, in its inbox or in itself, that can give it one.  The argument is  *)
(* that every running claimant is the one hub that the supervisor's state  *)
(* names (Owner); the supervisor names another hub only when the last one  *)
(* has answered that it let go, is dead, or has been sent a kill.          *)
(***************************************************************************)
EXTENDS BlueGreenFlip, FiniteSetTheorems, TLAPS

-----------------------------------------------------------------------------
(* Shapes. *)

InTypes == {"pause", "resume", "drain", "promote", "abort", "retire"}
OutTypes ==
  {"ready", "refused", "ctl", "released", "drain-failed", "promoted", "promote-failed",
   "rebound", "rb-failed"}
InMsgs == [type : InTypes, n : Nat, ok : BOOLEAN]
OutMsgs == [type : OutTypes, n : Nat, ok : BOOLEAN]

HubRecs ==
  [st : {"dead", "boot", "up", "killed"}, standby : BOOLEAN, port : {"no", "eph", "pub"},
   draining : BOOLEAN, question : BOOLEAN, profile : BOOLEAN, ep : Nat,
   active : BOOLEAN, lease : BOOLEAN, snap : BOOLEAN, ctl : Nat, pausing : Nat,
   op : {"idle", "logins", "turns", "closing", "promote"},
   fenced : BOOLEAN, abort : BOOLEAN, grant : Nat, orphan : BOOLEAN]

Somebody == Hubs \cup {None}
Backward == {"exit", "rebind", "resume", "abandon"}
SupRecs ==
  [alive : BOOLEAN, live : Somebody,
   flip : Forward \cup Backward \cup {"idle", "poison"},
   blue : Somebody, green : Somebody, mayOwn : BOOLEAN, reviving : BOOLEAN,
   boot : {"no", "wait", "ready", "act"}, cand : Somebody, pending : BOOLEAN,
   poison : {"no", "stop", "boot", "offline"}, auto : BOOLEAN, owner : Somebody,
   bepoch : Nat, pepoch : Nat, epochOf : [Hubs -> Nat],
   retired : SUBSET Somebody, seen : SUBSET Hubs]

Shape ==
  /\ hub \in [Hubs -> HubRecs]
  /\ inbox \in [Hubs -> Seq(InMsgs)] /\ outbox \in [Hubs -> Seq(OutMsgs)]
  /\ sup \in SupRecs
  /\ faults \in 0..MaxFaults /\ flips \in 0..MaxFlips

-----------------------------------------------------------------------------
(* The messages of a channel. *)

\* There is a message of type t in q.
Has(q, t) == \E i \in DOMAIN q : q[i].type = t
\* ... with number n.
HasN(q, t, n) == \E i \in DOMAIN q : q[i].type = t /\ q[i].n = n
\* No message of type u follows one of type t.
NoneAfter(q, t, u) ==
  \A i, j \in DOMAIN q : i < j /\ q[i].type = t => q[j].type # u
\* ... one of type t with number n.
NoneAfterN(q, t, n, u) ==
  \A i, j \in DOMAIN q : i < j /\ q[i].type = t /\ q[i].n = n => q[j].type # u

-----------------------------------------------------------------------------
(* The inductive invariant. *)

\* The supervisor's own state.
InFlip == sup.flip \in Forward \cup Backward
SupOK ==
  /\ InFlip =>
       /\ sup.blue \in Hubs /\ sup.green \in Hubs /\ sup.blue # sup.green
       /\ sup.boot = "no" /\ sup.poison = "no"
  /\ sup.flip \in {"ready", "pause", "released"} => ~sup.mayOwn
  /\ sup.flip \in {"promoted", "act"} => sup.mayOwn
  /\ sup.flip \in {"idle", "poison"} => ~sup.mayOwn
  /\ sup.boot # "no" => sup.live = None
  /\ sup.boot \in {"ready", "act"} => sup.cand \in Hubs
  /\ sup.poison # "no" => sup.live = None
  /\ sup.poison \in {"stop", "offline"} => sup.boot = "no"
  /\ sup.live # None => sup.live \notin sup.seen /\ sup.live \notin sup.retired
  /\ sup.flip \in Forward \cup {"exit", "rebind", "resume"} =>
       sup.live = sup.blue \/ (sup.live = None /\ sup.blue \in sup.seen)
  /\ sup.flip = "abandon" => sup.live = None
  /\ \A h \in Hubs : sup.epochOf[h] <= sup.pepoch

\* The only hub that may have an authority, or be given one.
Owner ==
  CASE sup.flip \in {"ready", "pause", "released", "rebind", "resume"} -> sup.blue
    [] sup.flip \in {"promoted", "act"} -> sup.green
    [] sup.flip \in {"exit", "abandon"} -> None
    [] OTHER -> IF sup.boot = "no" THEN sup.live
                ELSE IF sup.boot = "wait" THEN None ELSE sup.cand

\* Nothing is under way in hub h that changes its authority.
Quiet(h) ==
  /\ hub[h].op = "idle" /\ ~hub[h].abort
  /\ ~Has(inbox[h], "drain") /\ ~Has(inbox[h], "promote") /\ ~Has(inbox[h], "abort")

Claimant(h) ==
  \/ hub[h].st = "boot" /\ ~hub[h].standby
  \/ hub[h].question \/ hub[h].profile
  \/ ~Quiet(h)

Steady(h) == Quiet(h) /\ ~Has(outbox[h], "released")

\* The drain, from its request to the answer.
Drained(h) ==
  /\ ~hub[h].abort /\ hub[h].op # "promote"
  /\ ~Has(inbox[h], "promote") /\ ~Has(inbox[h], "abort")
  /\ NoneAfter(inbox[h], "drain", "drain")
  /\ Has(inbox[h], "drain") => hub[h].op = "idle" /\ ~Has(outbox[h], "released")
  /\ hub[h].op # "idle" => ~Has(outbox[h], "released")
  /\ hub[h].op \in {"turns", "closing"} => hub[h].st = "up" /\ ~hub[h].question
  /\ hub[h].op = "closing" => ~hub[h].profile
  /\ Has(outbox[h], "released") =>
       hub[h].st = "up" /\ ~hub[h].question /\ ~hub[h].profile

\* The promotion, from its request to the answer.
Promoted(h) ==
  /\ ~hub[h].abort /\ hub[h].op \in {"idle", "promote"}
  /\ ~Has(inbox[h], "drain") /\ ~Has(inbox[h], "abort") /\ ~Has(outbox[h], "released")
  /\ NoneAfter(inbox[h], "promote", "promote")
  /\ Has(inbox[h], "promote") =>
       hub[h].op = "idle" /\ ~HasN(outbox[h], "promoted", sup.pepoch)
  /\ hub[h].op = "promote" => ~HasN(outbox[h], "promoted", sup.pepoch)

\* The rollback, from its request to the answer; the drain may still be in progress.
Rebound(h) ==
  /\ hub[h].op # "promote" /\ ~Has(inbox[h], "promote")
  /\ NoneAfter(inbox[h], "abort", "abort") /\ NoneAfter(inbox[h], "abort", "drain")
  /\ NoneAfter(inbox[h], "drain", "drain")
  /\ Has(inbox[h], "drain") => Has(inbox[h], "abort") /\ hub[h].op = "idle"
  /\ Has(inbox[h], "abort") =>
       ~hub[h].abort /\ ~HasN(outbox[h], "rebound", sup.pepoch)
  /\ hub[h].abort => ~HasN(outbox[h], "rebound", sup.pepoch)
  /\ hub[h].op # "idle" => ~HasN(outbox[h], "rebound", sup.pepoch)
  /\ NoneAfterN(outbox[h], "rebound", sup.pepoch, "released")

\* What the owner is doing for the supervisor.
Phase(h) ==
  /\ sup.flip \in {"idle", "poison", "ready", "pause", "act", "resume"} => Steady(h)
  /\ sup.flip = "released" => Drained(h)
  /\ sup.flip = "promoted" => Promoted(h)
  /\ sup.flip = "rebind" => Rebound(h)

\* The numbers of the messages of a hub were handed out: p profile, b backup epochs.
InBounded(q, p, b) ==
  \A i \in DOMAIN q : /\ q[i].type \in {"promote", "abort"} => q[i].n <= p
                      /\ q[i].type \in {"pause", "resume"} => q[i].n <= b
OutBounded(q, p) ==
  \A i \in DOMAIN q : q[i].type \in {"promoted", "rebound"} => q[i].n <= p

\* No number exceeds the epoch it was taken from.
EpochsBounded(h) ==
  /\ hub[h].ep <= sup.pepoch /\ hub[h].grant <= sup.pepoch /\ hub[h].ctl <= sup.bepoch
  /\ InBounded(inbox[h], sup.pepoch, sup.bepoch) /\ OutBounded(outbox[h], sup.pepoch)

HubOK(h) ==
  /\ h \in sup.seen => hub[h].st = "dead" /\ outbox[h] = << >>
  /\ sup.poison = "stop" => ~Running(h)
  /\ Running(h) /\ Claimant(h) => h = Owner
  /\ Running(h) /\ h = Owner => Phase(h)
  /\ Running(h) /\ sup.flip \in {"ready", "pause", "released"} /\ h = sup.green =>
       ~Has(outbox[h], "released")
  /\ EpochsBounded(h)

IInv == Shape /\ SupOK /\ \A h \in Hubs : HubOK(h)

\* The backup lease has one holder, killed processes included, and covers every snapshot.
LeaseInv ==
  /\ \A h, k \in Hubs : hub[h].lease /\ hub[k].lease => h = k
  /\ \A h \in Hubs : hub[h].active \/ hub[h].snap => hub[h].lease

-----------------------------------------------------------------------------
(* What Append and Tail do to the messages of a channel. *)

LEMMA HasAppend ==
  ASSUME NEW M, NEW q \in Seq(M), NEW m \in M, NEW t
  PROVE  Has(Append(q, m), t) <=> Has(q, t) \/ m.type = t
<1>1. DOMAIN Append(q, m) = DOMAIN q \cup {Len(q) + 1} /\ Append(q, m)[Len(q) + 1] = m
  OBVIOUS
<1>2. \A i \in DOMAIN q : Append(q, m)[i] = q[i]
  OBVIOUS
<1>. QED  BY <1>1, <1>2, Zenon DEF Has

LEMMA HasNAppend ==
  ASSUME NEW M, NEW q \in Seq(M), NEW m \in M, NEW t, NEW n
  PROVE  HasN(Append(q, m), t, n) <=> HasN(q, t, n) \/ (m.type = t /\ m.n = n)
<1>1. DOMAIN Append(q, m) = DOMAIN q \cup {Len(q) + 1} /\ Append(q, m)[Len(q) + 1] = m
  OBVIOUS
<1>2. \A i \in DOMAIN q : Append(q, m)[i] = q[i]
  OBVIOUS
<1>. QED  BY <1>1, <1>2, Zenon DEF HasN

LEMMA HasTail ==
  ASSUME NEW M, NEW q \in Seq(M), q # << >>, NEW t, Has(Tail(q), t)
  PROVE  Has(q, t)
<1>1. PICK i \in DOMAIN Tail(q) : Tail(q)[i].type = t
  BY DEF Has
<1>2. i + 1 \in DOMAIN q /\ Tail(q)[i] = q[i + 1]
  BY <1>1
<1>. QED  BY <1>1, <1>2 DEF Has

LEMMA HasNTail ==
  ASSUME NEW M, NEW q \in Seq(M), q # << >>, NEW t, NEW n, HasN(Tail(q), t, n)
  PROVE  HasN(q, t, n)
<1>1. PICK i \in DOMAIN Tail(q) : Tail(q)[i].type = t /\ Tail(q)[i].n = n
  BY DEF HasN
<1>2. i + 1 \in DOMAIN q /\ Tail(q)[i] = q[i + 1]
  BY <1>1
<1>. QED  BY <1>1, <1>2 DEF HasN

LEMMA HasHead ==
  ASSUME NEW M, NEW q \in Seq(M), q # << >>
  PROVE  /\ Head(q) \in M
         /\ Has(q, Head(q).type) /\ HasN(q, Head(q).type, Head(q).n)
<1>1. 1 \in DOMAIN q /\ q[1] = Head(q)
  OBVIOUS
<1>. QED  BY <1>1 DEF Has, HasN

LEMMA HasEmpty ==
  ASSUME NEW t, NEW n
  PROVE  ~Has(<< >>, t) /\ ~HasN(<< >>, t, n)
BY DEF Has, HasN

LEMMA NoneAfterAppend ==
  ASSUME NEW M, NEW q \in Seq(M), NEW m \in M, NEW t, NEW u,
         NoneAfter(q, t, u), m.type = u => ~Has(q, t)
  PROVE  NoneAfter(Append(q, m), t, u)
<1>. SUFFICES ASSUME NEW i \in DOMAIN Append(q, m), NEW j \in DOMAIN Append(q, m),
                     i < j, Append(q, m)[i].type = t
              PROVE  Append(q, m)[j].type # u
  BY DEF NoneAfter
<1>1. i \in DOMAIN q /\ Append(q, m)[i] = q[i]
  OBVIOUS
<1>2. CASE j = Len(q) + 1
  BY <1>1, <1>2 DEF Has
<1>3. CASE j # Len(q) + 1
  BY <1>1, <1>3 DEF NoneAfter
<1>. QED  BY <1>2, <1>3

LEMMA NoneAfterNAppend ==
  ASSUME NEW M, NEW q \in Seq(M), NEW m \in M, NEW t, NEW n, NEW u,
         NoneAfterN(q, t, n, u), m.type = u => ~HasN(q, t, n)
  PROVE  NoneAfterN(Append(q, m), t, n, u)
<1>. SUFFICES ASSUME NEW i \in DOMAIN Append(q, m), NEW j \in DOMAIN Append(q, m),
                     i < j, Append(q, m)[i].type = t, Append(q, m)[i].n = n
              PROVE  Append(q, m)[j].type # u
  BY DEF NoneAfterN
<1>1. i \in DOMAIN q /\ Append(q, m)[i] = q[i]
  OBVIOUS
<1>2. CASE j = Len(q) + 1
  BY <1>1, <1>2 DEF HasN
<1>3. CASE j # Len(q) + 1
  BY <1>1, <1>3 DEF NoneAfterN
<1>. QED  BY <1>2, <1>3

LEMMA NoneAfterTail ==
  ASSUME NEW M, NEW q \in Seq(M), q # << >>, NEW t, NEW u, NoneAfter(q, t, u)
  PROVE  /\ NoneAfter(Tail(q), t, u)
         /\ Head(q).type = t => ~Has(Tail(q), u)
<1>1. ASSUME NEW i \in DOMAIN Tail(q)
      PROVE  i \in Nat /\ 1 < i + 1 /\ 1 \in DOMAIN q /\ i + 1 \in DOMAIN q
             /\ Tail(q)[i] = q[i + 1]
  BY <1>1
<1>2. NoneAfter(Tail(q), t, u)
  BY <1>1 DEF NoneAfter
<1>3. ASSUME Head(q).type = t, Has(Tail(q), u)
      PROVE  FALSE
  BY <1>1, <1>3 DEF NoneAfter, Has
<1>. QED  BY <1>2, <1>3

LEMMA NoneAfterNTail ==
  ASSUME NEW M, NEW q \in Seq(M), q # << >>, NEW t, NEW n, NEW u, NoneAfterN(q, t, n, u)
  PROVE  /\ NoneAfterN(Tail(q), t, n, u)
         /\ Head(q).type = t /\ Head(q).n = n => ~Has(Tail(q), u)
<1>1. ASSUME NEW i \in DOMAIN Tail(q)
      PROVE  i \in Nat /\ 1 < i + 1 /\ 1 \in DOMAIN q /\ i + 1 \in DOMAIN q
             /\ Tail(q)[i] = q[i + 1]
  BY <1>1
<1>2. NoneAfterN(Tail(q), t, n, u)
  BY <1>1 DEF NoneAfterN
<1>3. ASSUME Head(q).type = t, Head(q).n = n, Has(Tail(q), u)
      PROVE  FALSE
  BY <1>1, <1>3 DEF NoneAfterN, Has
<1>. QED  BY <1>2, <1>3

LEMMA NoneAfterEmpty ==
  ASSUME NEW q, NEW t, NEW u, ~Has(q, t)
  PROVE  NoneAfter(q, t, u) /\ \A n : NoneAfterN(q, t, n, u)
BY DEF Has, NoneAfter, NoneAfterN

LEMMA InBoundedStep ==
  ASSUME NEW q \in Seq(InMsgs), NEW p \in Nat, NEW b \in Nat, InBounded(q, p, b)
  PROVE  /\ q # << >> => /\ InBounded(Tail(q), p, b)
                         /\ Head(q).type \in {"promote", "abort"} => Head(q).n <= p
                         /\ Head(q).type \in {"pause", "resume"} => Head(q).n <= b
         /\ \A p2, b2 \in Nat : p <= p2 /\ b <= b2 => InBounded(q, p2, b2)
         /\ \A m \in InMsgs :
              /\ m.type \in {"promote", "abort"} => m.n <= p
              /\ m.type \in {"pause", "resume"} => m.n <= b
              => InBounded(Append(q, m), p, b)
<1>1. \A i \in DOMAIN q : q[i] \in InMsgs
  OBVIOUS
<1>2. ASSUME q # << >>
      PROVE  /\ InBounded(Tail(q), p, b)
             /\ Head(q).type \in {"promote", "abort"} => Head(q).n <= p
             /\ Head(q).type \in {"pause", "resume"} => Head(q).n <= b
  <2>1. 1 \in DOMAIN q /\ q[1] = Head(q)
    BY <1>2
  <2>2. \A i \in DOMAIN Tail(q) : i + 1 \in DOMAIN q /\ Tail(q)[i] = q[i + 1]
    BY <1>2
  <2>. QED  BY <2>1, <2>2 DEF InBounded
<1>3. ASSUME NEW p2 \in Nat, NEW b2 \in Nat, p <= p2, b <= b2
      PROVE  InBounded(q, p2, b2)
  BY <1>1, <1>3 DEF InBounded, InMsgs
<1>4. ASSUME NEW m \in InMsgs, m.type \in {"promote", "abort"} => m.n <= p,
             m.type \in {"pause", "resume"} => m.n <= b
      PROVE  InBounded(Append(q, m), p, b)
  <2>1. DOMAIN Append(q, m) = DOMAIN q \cup {Len(q) + 1} /\ Append(q, m)[Len(q) + 1] = m
    OBVIOUS
  <2>2. \A i \in DOMAIN q : Append(q, m)[i] = q[i]
    OBVIOUS
  <2>. QED  BY <2>1, <2>2, <1>4 DEF InBounded
<1>. QED  BY <1>2, <1>3, <1>4

LEMMA OutBoundedStep ==
  ASSUME NEW q \in Seq(OutMsgs), NEW p \in Nat, OutBounded(q, p)
  PROVE  /\ q # << >> => OutBounded(Tail(q), p)
         /\ \A p2 \in Nat : p <= p2 => OutBounded(q, p2)
         /\ \A p2 \in Nat : p < p2 =>
              /\ ~HasN(q, "promoted", p2) /\ ~HasN(q, "rebound", p2)
         /\ \A m \in OutMsgs :
              (m.type \in {"promoted", "rebound"} => m.n <= p) => OutBounded(Append(q, m), p)
<1>1. \A i \in DOMAIN q : q[i] \in OutMsgs
  OBVIOUS
<1>2. q # << >> => OutBounded(Tail(q), p)
  <2>1. \A i \in DOMAIN Tail(q) : q # << >> => i + 1 \in DOMAIN q /\ Tail(q)[i] = q[i + 1]
    OBVIOUS
  <2>. QED  BY <2>1 DEF OutBounded
<1>3. ASSUME NEW p2 \in Nat, p <= p2
      PROVE  OutBounded(q, p2)
  BY <1>1, <1>3 DEF OutBounded, OutMsgs
<1>4. ASSUME NEW p2 \in Nat, p < p2
      PROVE  ~HasN(q, "promoted", p2) /\ ~HasN(q, "rebound", p2)
  BY <1>1, <1>4 DEF OutBounded, HasN, OutMsgs
<1>5. ASSUME NEW m \in OutMsgs, m.type \in {"promoted", "rebound"} => m.n <= p
      PROVE  OutBounded(Append(q, m), p)
  <2>1. DOMAIN Append(q, m) = DOMAIN q \cup {Len(q) + 1} /\ Append(q, m)[Len(q) + 1] = m
    OBVIOUS
  <2>2. \A i \in DOMAIN q : Append(q, m)[i] = q[i]
    OBVIOUS
  <2>. QED  BY <2>1, <2>2, <1>5 DEF OutBounded
<1>. QED  BY <1>2, <1>3, <1>4, <1>5

LEMMA BoundedEmpty == \A p, b : InBounded(<< >>, p, b) /\ OutBounded(<< >>, p)
BY DEF InBounded, OutBounded

-----------------------------------------------------------------------------
(* The steps of a hub leave the supervisor and every other hub alone. *)

LEMMA LocalStep ==
  ASSUME IInv, NEW h \in Hubs, Shape', sup' = sup, HubOK(h)',
         \A k \in Hubs \ {h} : /\ hub'[k] = hub[k]
                               /\ inbox'[k] = inbox[k] /\ outbox'[k] = outbox[k]
  PROVE  IInv'
<1>1. SupOK'
  BY DEF IInv, SupOK, InFlip
<1>2. ASSUME NEW k \in Hubs, k # h
      PROVE  HubOK(k)'
  <2>1. /\ HubOK(k) /\ hub'[k] = hub[k] /\ inbox'[k] = inbox[k] /\ outbox'[k] = outbox[k]
    BY <1>2 DEF IInv
  <2>2. Owner' = Owner /\ (Running(k) <=> Running(k)')
    BY <2>1 DEF Owner, Running
  <2>3. (Claimant(k) <=> Claimant(k)') /\ (Phase(k) <=> Phase(k)')
    BY <2>1 DEF Claimant, Phase, Steady, Quiet, Drained, Promoted, Rebound
  <2>4. EpochsBounded(k) <=> EpochsBounded(k)'
    BY <2>1 DEF EpochsBounded
  <2>. QED  BY <2>1, <2>2, <2>3, <2>4 DEF HubOK
<1>. QED  BY <1>1, <1>2 DEF IInv

\* What a message to the supervisor does to the outbox of hub h.
LEMMA Said ==
  ASSUME Shape, NEW h \in Hubs, NEW m \in OutMsgs, Say(h, m)
  PROVE  /\ outbox' \in [Hubs -> Seq(OutMsgs)]
         /\ \A k \in Hubs \ {h} : outbox'[k] = outbox[k]
         /\ Has(outbox[h], "released")' <=> Has(outbox[h], "released") \/ m.type = "released"
         /\ \A n : /\ HasN(outbox'[h], "promoted", n) <=>
                        HasN(outbox[h], "promoted", n) \/ (m.type = "promoted" /\ m.n = n)
                   /\ HasN(outbox'[h], "rebound", n) <=>
                        HasN(outbox[h], "rebound", n) \/ (m.type = "rebound" /\ m.n = n)
                   /\ /\ NoneAfterN(outbox[h], "rebound", n, "released")
                      /\ m.type = "released" => ~HasN(outbox[h], "rebound", n)
                      => NoneAfterN(outbox'[h], "rebound", n, "released")
         /\ /\ OutBounded(outbox[h], sup.pepoch)
            /\ m.type \in {"promoted", "rebound"} => m.n <= sup.pepoch
            => OutBounded(outbox'[h], sup.pepoch)
<1>1. /\ outbox[h] \in Seq(OutMsgs) /\ outbox'[h] = Append(outbox[h], m)
      /\ sup.pepoch \in Nat
  BY DEF Shape, Say, SupRecs
<1>2. outbox' \in [Hubs -> Seq(OutMsgs)] /\ \A k \in Hubs \ {h} : outbox'[k] = outbox[k]
  BY DEF Shape, Say
<1>. QED  BY <1>1, <1>2, HasAppend, HasNAppend, NoneAfterNAppend, OutBoundedStep

\* What taking the next message does to the inbox of hub h.
LEMMA Handled ==
  ASSUME Shape, NEW h \in Hubs, NEW type, Handles(h, type)
  PROVE  /\ inbox' \in [Hubs -> Seq(InMsgs)]
         /\ \A k \in Hubs \ {h} : inbox'[k] = inbox[k]
         /\ Head(inbox[h]) \in InMsgs /\ Head(inbox[h]).type = type /\ Has(inbox[h], type)
         /\ \A t : /\ Has(inbox'[h], t) => Has(inbox[h], t)
                   /\ t # type /\ Has(inbox[h], t) => Has(inbox'[h], t)
         /\ \A t, u : NoneAfter(inbox[h], t, u) =>
              NoneAfter(inbox'[h], t, u) /\ (type = t => ~Has(inbox'[h], u))
         /\ InBounded(inbox[h], sup.pepoch, sup.bepoch) =>
              /\ InBounded(inbox'[h], sup.pepoch, sup.bepoch)
              /\ type \in {"promote", "abort"} => Head(inbox[h]).n <= sup.pepoch
              /\ type \in {"pause", "resume"} => Head(inbox[h]).n <= sup.bepoch
<1>1. /\ inbox[h] \in Seq(InMsgs) /\ inbox[h] # << >> /\ inbox'[h] = Tail(inbox[h])
      /\ Head(inbox[h]).type = type
      /\ sup.pepoch \in Nat /\ sup.bepoch \in Nat
  BY DEF Shape, Handles, SupRecs
<1>2. inbox' \in [Hubs -> Seq(InMsgs)] /\ \A k \in Hubs \ {h} : inbox'[k] = inbox[k]
  BY <1>1 DEF Shape, Handles
<1>3. Head(inbox[h]) \in InMsgs /\ Has(inbox[h], type)
  BY <1>1, HasHead
<1>4. \A t : Has(inbox'[h], t) => Has(inbox[h], t)
  BY <1>1, HasTail
<1>5. ASSUME NEW t, t # type, Has(inbox[h], t)
      PROVE  Has(inbox'[h], t)
  <2>1. PICK i \in DOMAIN inbox[h] : inbox[h][i].type = t
    BY <1>5 DEF Has
  <2>2. i # 1 /\ i - 1 \in DOMAIN Tail(inbox[h]) /\ Tail(inbox[h])[i - 1] = inbox[h][i]
    BY <1>1, <1>5, <2>1
  <2>. QED  BY <1>1, <2>1, <2>2 DEF Has
<1>6. \A t, u : NoneAfter(inbox[h], t, u) =>
        NoneAfter(inbox'[h], t, u) /\ (type = t => ~Has(inbox'[h], u))
  BY <1>1, NoneAfterTail
<1>7. InBounded(inbox[h], sup.pepoch, sup.bepoch) =>
        /\ InBounded(inbox'[h], sup.pepoch, sup.bepoch)
        /\ type \in {"promote", "abort"} => Head(inbox[h]).n <= sup.pepoch
        /\ type \in {"pause", "resume"} => Head(inbox[h]).n <= sup.bepoch
  BY <1>1, InBoundedStep
<1>. QED  BY <1>2, <1>3, <1>4, <1>5, <1>6, <1>7, <1>1

\* A process that ends holds nothing and is owed nothing.
LEMMA DeadOK ==
  ASSUME IInv, NEW h \in Hubs, Shape', sup' = sup, hub[h].st # "dead",
         hub'[h] = Gone(hub[h].ep),
         InBounded(inbox'[h], sup.pepoch, sup.bepoch), OutBounded(outbox'[h], sup.pepoch)
  PROVE  HubOK(h)'
<1>1. hub[h].ep <= sup.pepoch /\ sup.pepoch \in Nat /\ sup.bepoch \in Nat /\ hub[h].ep \in Nat
  BY DEF IInv, HubOK, EpochsBounded, Shape, SupRecs, HubRecs
<1>2. hub'[h].st = "dead" /\ hub'[h].ep = hub[h].ep /\ hub'[h].grant = 0 /\ hub'[h].ctl = 0
  BY DEF Gone, Fresh
<1>3. h \notin sup.seen
  BY DEF IInv, HubOK
<1>. QED  BY <1>1, <1>2, <1>3 DEF HubOK, Running, EpochsBounded

LEMMA DieOK ==
  ASSUME Shape, NEW h \in Hubs, Die(h)
  PROVE  /\ hub' \in [Hubs -> HubRecs] /\ hub'[h] = Gone(hub[h].ep)
         /\ \A k \in Hubs \ {h} : hub'[k] = hub[k]
<1>1. hub[h].ep \in Nat
  BY DEF Shape, HubRecs
<1>2. Gone(hub[h].ep) \in HubRecs
  BY <1>1 DEF Gone, Fresh, HubRecs
<1>. QED  BY <1>2 DEF Die, Shape

-----------------------------------------------------------------------------
(* The steps of a hub. *)

\* What hub h must keep in a step of its own, whoever owns the authority.
Keeps(h) ==
  /\ Claimant(h)' => Claimant(h)
  /\ Steady(h) => Steady(h)'
  /\ Drained(h) => Drained(h)'
  /\ Promoted(h) => Promoted(h)'
  /\ Rebound(h) => Rebound(h)'
  /\ Has(outbox[h], "released")' => Has(outbox[h], "released") \/ Claimant(h)

LEMMA KeepsOK ==
  ASSUME IInv, NEW h \in Hubs, sup' = sup, Running(h), EpochsBounded(h)', Keeps(h)
  PROVE  HubOK(h)'
<1>1. HubOK(h) /\ Owner' = Owner
  BY DEF IInv, Owner
<1>2. h \notin sup.seen /\ sup.poison # "stop"
  BY <1>1 DEF HubOK, Running
<1>3. Running(h)' /\ Claimant(h)' => h = Owner'
  BY <1>1 DEF HubOK, Keeps
<1>4. Running(h)' /\ h = Owner' => Phase(h)'
  BY <1>1 DEF HubOK, Keeps, Phase
<1>5. sup.flip \in {"ready", "pause", "released"} /\ h = sup.green => ~Claimant(h)
  <2>1. sup.flip \in {"ready", "pause", "released"} => Owner # sup.green
    BY DEF Owner, IInv, SupOK, InFlip, Forward
  <2>. QED  BY <1>1, <2>1 DEF HubOK
<1>6. /\ Running(h)' /\ sup'.flip \in {"ready", "pause", "released"} /\ h = sup'.green
      => ~Has(outbox[h], "released")'
  BY <1>1, <1>5 DEF HubOK, Keeps
<1>. QED  BY <1>2, <1>3, <1>4, <1>6 DEF HubOK

LEMMA HubReadyOK ==
  ASSUME IInv, NEW h \in Hubs, HubReady(h)
  PROVE  IInv'
<1>. USE FlipAssumption DEF IInv
<1>1. UNCHANGED <<inbox, sup, flips>> /\ hub[h] \in HubRecs
  BY DEF HubReady, Shape
<1>2. CASE ~hub[h].standby /\ ~PublicFree
  <2>1. Die(h) /\ UNCHANGED outbox /\ Fault /\ hub[h].st # "dead"
    BY <1>2 DEF HubReady
  <2>2. Shape'
    BY <1>1, <2>1, DieOK DEF Shape, Fault
  <2>3. HubOK(h)'
    BY <1>1, <2>1, <2>2, DieOK, DeadOK DEF HubOK, EpochsBounded
  <2>. QED  BY <1>1, <2>1, <2>2, <2>3, DieOK, LocalStep
<1>3. CASE hub[h].standby \/ PublicFree
  <2>1. /\ hub[h].st = "boot" /\ Say(h, Msg("ready", 0, TRUE)) /\ NoFault
        /\ \/ hub[h].standby /\ hub' = [hub EXCEPT ![h].st = "up", ![h].port = "eph"]
           \/ ~hub[h].standby
              /\ hub' = [hub EXCEPT ![h].st = "up", ![h].port = "pub", ![h].question = TRUE]
    BY <1>3 DEF HubReady
  <2>2. Msg("ready", 0, TRUE) \in OutMsgs /\ Msg("ready", 0, TRUE).type = "ready"
    BY DEF Msg, OutMsgs, OutTypes
  <2>3. /\ hub' \in [Hubs -> HubRecs] /\ \A k \in Hubs \ {h} : hub'[k] = hub[k]
        /\ hub'[h].st = "up" /\ (hub'[h].question => hub[h].question \/ ~hub[h].standby)
        /\ UNCHANGED <<hub[h].op, hub[h].abort, hub[h].profile, hub[h].ep, hub[h].grant, hub[h].ctl>>
    <3>1. CASE hub[h].standby /\ hub' = [hub EXCEPT ![h].st = "up", ![h].port = "eph"]
      BY <1>1, <3>1 DEF Shape, HubRecs
    <3>2. CASE ~hub[h].standby
               /\ hub' = [hub EXCEPT ![h].st = "up", ![h].port = "pub", ![h].question = TRUE]
      BY <1>1, <3>2 DEF Shape, HubRecs
    <3>. QED  BY <2>1, <3>1, <3>2
  <2>4. Shape'
    BY <1>1, <2>1, <2>2, <2>3, Said DEF Shape, NoFault
  <2>5. EpochsBounded(h)'
    BY <1>1, <2>1, <2>2, <2>3, Said DEF HubOK, EpochsBounded
  <2>6. Keeps(h)
    <3>1. Claimant(h)' => Claimant(h)
      BY <1>1, <2>1, <2>3 DEF Claimant, Quiet
    <3>2. Steady(h) => Steady(h)'
      BY <1>1, <2>1, <2>2, <2>3, Said DEF Steady, Quiet
    <3>3. Drained(h) => Drained(h)'
      BY <1>1, <2>1, <2>2, <2>3, Said DEF Drained
    <3>4. Promoted(h) => Promoted(h)'
      BY <1>1, <2>1, <2>2, <2>3, Said DEF Promoted
    <3>5. Rebound(h) => Rebound(h)'
      BY <1>1, <2>1, <2>2, <2>3, Said DEF Rebound
    <3>. QED
      BY <1>1, <2>1, <2>2, <2>3, <3>1, <3>2, <3>3, <3>4, <3>5, Said DEF Keeps
  <2>. QED  BY <1>1, <2>1, <2>2, <2>3, <2>4, <2>5, <2>6, Said, KeepsOK, LocalStep, ZenonT(60) DEF Running
<1>. QED  BY <1>2, <1>3

\* A process that ends leaves the others as they are.
LEMMA DiesOK ==
  ASSUME IInv, NEW h \in Hubs, Die(h), hub[h].st # "dead", UNCHANGED <<sup, flips>>,
         faults' \in 0..MaxFaults,
         inbox' \in [Hubs -> Seq(InMsgs)], outbox' \in [Hubs -> Seq(OutMsgs)],
         \A k \in Hubs \ {h} : inbox'[k] = inbox[k] /\ outbox'[k] = outbox[k],
         InBounded(inbox'[h], sup.pepoch, sup.bepoch), OutBounded(outbox'[h], sup.pepoch)
  PROVE  IInv'
<1>1. Shape'
  BY DieOK DEF IInv, Shape
<1>. QED  BY <1>1, DieOK, DeadOK, LocalStep DEF IInv

LEMMA DyingOK ==
  ASSUME IInv, NEW h \in Hubs,
         \/ HubRefuse(h) \/ HubCrash(h) \/ Reap(h) \/ HubRetire(h)
         \/ HubOrphan(h) /\ hub[h].port # "pub"
  PROVE  IInv'
<1>. USE FlipAssumption
<1>1. /\ Shape /\ EpochsBounded(h) /\ inbox[h] \in Seq(InMsgs) /\ outbox[h] \in Seq(OutMsgs)
      /\ faults \in 0..MaxFaults
  BY DEF IInv, HubOK, Shape
<1>0. hub[h].st # "dead"
  BY DEF HubRefuse, HubCrash, Running, Reap, HubRetire, Handles, HubOrphan
<1>2. CASE HubRefuse(h)
  <2>1. PICK auto \in BOOLEAN : Say(h, Msg("refused", 0, auto))
    BY <1>2 DEF HubRefuse
  <2>2. Msg("refused", 0, auto) \in OutMsgs /\ Msg("refused", 0, auto).type = "refused"
    BY DEF Msg, OutMsgs, OutTypes
  <2>3. Die(h) /\ UNCHANGED <<inbox, sup, flips>> /\ faults' \in 0..MaxFaults
    BY <1>1, <1>2 DEF HubRefuse, Fault
  <2>. QED  BY <1>0, <1>1, <2>1, <2>2, <2>3, Said, DiesOK DEF Shape, EpochsBounded
<1>3. CASE HubCrash(h)
  <2>1. Die(h) /\ UNCHANGED <<outbox, sup, flips>> /\ faults' \in 0..MaxFaults
    BY <1>1, <1>3 DEF HubCrash, Fault
  <2>2. /\ inbox' \in [Hubs -> Seq(InMsgs)] /\ inbox'[h] = << >>
        /\ \A k \in Hubs \ {h} : inbox'[k] = inbox[k]
    BY <1>1, <1>3 DEF HubCrash, Shape
  <2>3. InBounded(inbox'[h], sup.pepoch, sup.bepoch)
    BY <2>2, BoundedEmpty
  <2>. QED  BY <1>0, <1>1, <2>1, <2>2, <2>3, DiesOK DEF Shape, EpochsBounded
<1>4. CASE HubRetire(h)
  <2>1. Die(h) /\ Handles(h, "retire") /\ UNCHANGED <<outbox, sup, faults, flips>>
    BY <1>4 DEF HubRetire
  <2>. QED  BY <1>0, <1>1, <2>1, Handled, DiesOK DEF Shape, EpochsBounded
<1>5. CASE Reap(h) \/ (HubOrphan(h) /\ hub[h].port # "pub")
  <2>1. Die(h) /\ UNCHANGED <<inbox, outbox, sup, faults, flips>>
    BY <1>5 DEF Reap, HubOrphan
  <2>. QED  BY <1>0, <1>1, <2>1, DiesOK DEF Shape, EpochsBounded
<1>. QED  BY <1>2, <1>3, <1>4, <1>5

\* A step that is about no authority and no answer to the flip.
LEMMA AsideOK ==
  ASSUME IInv, NEW h \in Hubs, Running(h), UNCHANGED <<sup, faults, flips>>,
         hub' \in [Hubs -> HubRecs], \A k \in Hubs \ {h} : hub'[k] = hub[k],
         UNCHANGED <<hub[h].st, hub[h].standby, hub[h].question, hub[h].profile, hub[h].op,
                     hub[h].abort, hub[h].ep, hub[h].grant>>,
         hub'[h].ctl <= sup.bepoch,
         UNCHANGED inbox \/ Handles(h, "pause") \/ Handles(h, "resume"),
         UNCHANGED outbox \/ \E e \in Nat, ok \in BOOLEAN : Say(h, Msg("ctl", e, ok))
  PROVE  IInv'
<1>1. Shape /\ EpochsBounded(h) /\ HubOK(h)
  BY DEF IInv, HubOK
<1>2. /\ inbox' \in [Hubs -> Seq(InMsgs)] /\ \A k \in Hubs \ {h} : inbox'[k] = inbox[k]
      /\ \A t \in {"drain", "promote", "abort"} : Has(inbox'[h], t) <=> Has(inbox[h], t)
      /\ \A t, u : NoneAfter(inbox[h], t, u) => NoneAfter(inbox'[h], t, u)
      /\ InBounded(inbox'[h], sup.pepoch, sup.bepoch)
  <2>1. CASE UNCHANGED inbox
    BY <1>1, <2>1 DEF Shape, EpochsBounded
  <2>2. ASSUME NEW type \in {"pause", "resume"}, Handles(h, type)
        PROVE  <1>2!:
    <3>1. /\ \A t : Has(inbox'[h], t) => Has(inbox[h], t)
          /\ \A t : t # type /\ Has(inbox[h], t) => Has(inbox'[h], t)
          /\ \A t, u : NoneAfter(inbox[h], t, u) => NoneAfter(inbox'[h], t, u)
          /\ inbox' \in [Hubs -> Seq(InMsgs)] /\ \A k \in Hubs \ {h} : inbox'[k] = inbox[k]
          /\ InBounded(inbox'[h], sup.pepoch, sup.bepoch)
      BY <1>1, <2>2, Handled, Zenon DEF EpochsBounded
    <3>2. type \notin {"drain", "promote", "abort"}
      BY <2>2
    <3>. QED  BY <3>1, <3>2
  <2>. QED  BY <2>1, <2>2
<1>3. /\ outbox' \in [Hubs -> Seq(OutMsgs)] /\ \A k \in Hubs \ {h} : outbox'[k] = outbox[k]
      /\ Has(outbox'[h], "released") <=> Has(outbox[h], "released")
      /\ \A n : /\ HasN(outbox'[h], "promoted", n) <=> HasN(outbox[h], "promoted", n)
                /\ HasN(outbox'[h], "rebound", n) <=> HasN(outbox[h], "rebound", n)
                /\ NoneAfterN(outbox[h], "rebound", n, "released")
                   => NoneAfterN(outbox'[h], "rebound", n, "released")
      /\ OutBounded(outbox'[h], sup.pepoch)
  <2>1. CASE UNCHANGED outbox
    BY <1>1, <2>1 DEF Shape, EpochsBounded
  <2>2. ASSUME NEW e \in Nat, NEW ok \in BOOLEAN, Say(h, Msg("ctl", e, ok))
        PROVE  <1>3!:
    <3>1. Msg("ctl", e, ok) \in OutMsgs /\ Msg("ctl", e, ok).type = "ctl"
      BY DEF Msg, OutMsgs, OutTypes
    <3>. QED  BY <1>1, <2>2, <3>1, Said DEF EpochsBounded
  <2>. QED  BY <2>1, <2>2
<1>4. Shape'
  BY <1>1, <1>2, <1>3 DEF Shape
<1>5. EpochsBounded(h)'
  BY <1>1, <1>2, <1>3 DEF EpochsBounded
<1>6. Keeps(h)
  <2>1. Claimant(h)' => Claimant(h)
    BY <1>2 DEF Claimant, Quiet
  <2>2. Steady(h) => Steady(h)'
    BY <1>2, <1>3 DEF Steady, Quiet
  <2>3. Drained(h) => Drained(h)'
    BY <1>2, <1>3 DEF Drained
  <2>4. Promoted(h) => Promoted(h)'
    BY <1>2, <1>3 DEF Promoted
  <2>5. Rebound(h) => Rebound(h)'
    BY <1>2, <1>3 DEF Rebound
  <2>. QED  BY <1>3, <2>1, <2>2, <2>3, <2>4, <2>5 DEF Keeps
<1>. QED  BY <1>2, <1>3, <1>4, <1>5, <1>6, KeepsOK, LocalStep

\* The backups and the adoption of an orphan are no matter of authority.
LEMMA BackupStepsOK ==
  ASSUME IInv, NEW h \in Hubs,
         \/ HubPause(h) \/ HubResume(h) \/ SnapStart(h) \/ SnapEnd(h) \/ OrphanActivates(h)
         \/ HubOrphan(h) /\ hub[h].port = "pub"
  PROVE  IInv'
<1>1. /\ Shape /\ EpochsBounded(h) /\ hub[h] \in HubRecs /\ hub \in [Hubs -> HubRecs]
      /\ sup.bepoch \in Nat /\ hub[h].ctl \in Nat /\ hub[h].ctl <= sup.bepoch
  BY DEF IInv, HubOK, EpochsBounded, Shape, HubRecs, SupRecs
<1>2. CASE HubPause(h)
  <2>. DEFINE e == Head(inbox[h]).n
  <2>1. Handles(h, "pause") /\ UNCHANGED <<sup, faults, flips>> /\ Running(h)
    BY <1>2 DEF HubPause, Handles, Running
  <2>2. e \in Nat /\ e <= sup.bepoch
    BY <1>1, <2>1, Handled DEF InMsgs, EpochsBounded
  <2>3. UNCHANGED outbox \/ \E ok \in BOOLEAN : Say(h, Msg("ctl", e, ok))
    BY <1>2 DEF HubPause
  <2>4. \/ hub' = hub
        \/ hub' = [hub EXCEPT ![h].ctl = e, ![h].active = FALSE, ![h].pausing = e]
        \/ hub' = [hub EXCEPT ![h].ctl = e, ![h].active = FALSE, ![h].lease = FALSE]
    BY <1>2 DEF HubPause
  <2>5. /\ hub' \in [Hubs -> HubRecs] /\ \A k \in Hubs \ {h} : hub'[k] = hub[k]
        /\ UNCHANGED <<hub[h].st, hub[h].standby, hub[h].question, hub[h].profile, hub[h].op,
                       hub[h].abort, hub[h].ep, hub[h].grant>>
        /\ hub'[h].ctl <= sup.bepoch
    BY <1>1, <2>2, <2>4 DEF HubRecs
  <2>. QED  BY <2>1, <2>2, <2>3, <2>5, AsideOK
<1>3. CASE HubResume(h)
  <2>. DEFINE e == Head(inbox[h]).n
              ok == hub[h].lease \/ LeaseFree
  <2>1. Handles(h, "resume") /\ UNCHANGED <<sup, faults, flips>> /\ Running(h)
    BY <1>3 DEF HubResume, Handles, Running
  <2>2. e \in Nat /\ e <= sup.bepoch /\ ok \in BOOLEAN
    BY <1>1, <2>1, Handled DEF InMsgs, EpochsBounded, HubRecs, LeaseFree
  <2>3. \E b \in BOOLEAN : Say(h, Msg("ctl", e, b))
    BY <1>3, <2>2 DEF HubResume
  <2>4. hub' = hub \/ hub' = [hub EXCEPT ![h].ctl = e, ![h].active = ok, ![h].lease = ok]
    BY <1>3 DEF HubResume
  <2>. HIDE DEF ok
  <2>5. /\ hub' \in [Hubs -> HubRecs] /\ \A k \in Hubs \ {h} : hub'[k] = hub[k]
        /\ UNCHANGED <<hub[h].st, hub[h].standby, hub[h].question, hub[h].profile, hub[h].op,
                       hub[h].abort, hub[h].ep, hub[h].grant>>
        /\ hub'[h].ctl <= sup.bepoch
    BY <1>1, <2>2, <2>4 DEF HubRecs
  <2>. QED  BY <2>1, <2>2, <2>3, <2>5, AsideOK
<1>4. CASE SnapEnd(h)
  <2>. DEFINE kept == IF hub[h].pausing # 0 THEN hub[h].active ELSE hub[h].lease
  <2>1. UNCHANGED <<inbox, sup, faults, flips>> /\ Running(h)
    BY <1>4 DEF SnapEnd, Running
  <2>2. UNCHANGED outbox \/ \E e \in Nat, ok \in BOOLEAN : Say(h, Msg("ctl", e, ok))
    <3>1. hub[h].pausing \in Nat /\ (hub[h].pausing = hub[h].ctl) \in BOOLEAN
      BY <1>1 DEF HubRecs
    <3>. QED  BY <1>4, <3>1 DEF SnapEnd
  <2>3. kept \in BOOLEAN
    BY <1>1 DEF HubRecs
  <2>4. hub' = [hub EXCEPT ![h].snap = FALSE, ![h].pausing = 0, ![h].lease = kept]
    BY <1>1, <1>4 DEF SnapEnd, HubRecs
  <2>. HIDE DEF kept
  <2>5. /\ hub' \in [Hubs -> HubRecs] /\ \A k \in Hubs \ {h} : hub'[k] = hub[k]
        /\ UNCHANGED <<hub[h].st, hub[h].standby, hub[h].question, hub[h].profile, hub[h].op,
                       hub[h].abort, hub[h].ep, hub[h].grant>>
        /\ hub'[h].ctl <= sup.bepoch
    BY <1>1, <2>3, <2>4 DEF HubRecs
  <2>. QED  BY <2>1, <2>2, <2>5, AsideOK
<1>5. CASE SnapStart(h) \/ OrphanActivates(h) \/ (HubOrphan(h) /\ hub[h].port = "pub")
  <2>1. UNCHANGED <<inbox, outbox, sup, faults, flips>> /\ Running(h)
    BY <1>5 DEF SnapStart, OrphanActivates, HubOrphan, Running
  <2>2. \/ hub' = [hub EXCEPT ![h].snap = TRUE]
        \/ hub' = [hub EXCEPT ![h].active = TRUE, ![h].lease = TRUE]
        \/ hub' = [hub EXCEPT ![h].orphan = TRUE]
    BY <1>5 DEF SnapStart, OrphanActivates, HubOrphan
  <2>3. /\ hub' \in [Hubs -> HubRecs] /\ \A k \in Hubs \ {h} : hub'[k] = hub[k]
        /\ UNCHANGED <<hub[h].st, hub[h].standby, hub[h].question, hub[h].profile, hub[h].op,
                       hub[h].abort, hub[h].ep, hub[h].grant>>
        /\ hub'[h].ctl <= sup.bepoch
    <3>1. CASE hub' = [hub EXCEPT ![h].snap = TRUE]
      BY <1>1, <3>1 DEF HubRecs
    <3>2. CASE hub' = [hub EXCEPT ![h].active = TRUE, ![h].lease = TRUE]
      BY <1>1, <3>2 DEF HubRecs
    <3>3. CASE hub' = [hub EXCEPT ![h].orphan = TRUE]
      BY <1>1, <3>3 DEF HubRecs
    <3>. QED  BY <2>2, <3>1, <3>2, <3>3
  <2>. QED  BY <2>1, <2>3, AsideOK
<1>. QED  BY <1>2, <1>3, <1>4, <1>5

\* The steps of a drain, a promotion and an abort are those of a claimant.
LEMMA ClaimantStep ==
  ASSUME IInv, NEW h \in Hubs, Running(h), Claimant(h), Shape', sup' = sup,
         \A k \in Hubs \ {h} : /\ hub'[k] = hub[k]
                               /\ inbox'[k] = inbox[k] /\ outbox'[k] = outbox[k],
         EpochsBounded(h)', Steady(h) => Steady(h)',
         Drained(h) => Drained(h)', Promoted(h) => Promoted(h)', Rebound(h) => Rebound(h)'
  PROVE  IInv'
<1>1. Keeps(h)
  BY DEF Keeps
<1>. QED  BY <1>1, KeepsOK, LocalStep

LEMMA HubFacts ==
  ASSUME IInv, NEW h \in Hubs
  PROVE  /\ Shape /\ HubOK(h) /\ EpochsBounded(h) /\ hub \in [Hubs -> HubRecs]
         /\ hub[h] \in HubRecs /\ faults \in Nat /\ faults \in 0..MaxFaults
         /\ sup.pepoch \in Nat /\ sup.bepoch \in Nat
BY FlipAssumption DEF IInv, HubOK, Shape, SupRecs

LEMMA OwningOK ==
  ASSUME NEW r \in HubRecs, NEW e \in Nat
  PROVE  /\ Owning(r, e) \in HubRecs /\ Owning(r, e).question /\ Owning(r, e).profile
         /\ Owning(r, e).st = r.st /\ Owning(r, e).ctl = r.ctl /\ Owning(r, e).op = "idle"
         /\ ~Owning(r, e).abort /\ Owning(r, e).ep = e /\ Owning(r, e).grant = 0
         /\ Disowning(r) \in HubRecs /\ ~Disowning(r).question /\ ~Disowning(r).profile
         /\ Disowning(r).st = r.st /\ Disowning(r).ctl = r.ctl /\ Disowning(r).op = "idle"
         /\ ~Disowning(r).abort /\ Disowning(r).ep = r.ep /\ Disowning(r).grant = 0
         /\ r.grant \in Nat
BY DEF Owning, Disowning, HubRecs

LEMMA HubDrainOK ==
  ASSUME IInv, NEW h \in Hubs, HubDrain(h)
  PROVE  IInv'
<1>1. /\ Shape /\ EpochsBounded(h) /\ hub[h] \in HubRecs /\ hub \in [Hubs -> HubRecs]
      /\ faults \in 0..MaxFaults /\ sup.pepoch \in Nat /\ sup.bepoch \in Nat
      /\ sup' = sup /\ flips' = flips /\ hub[h].st = "up" /\ TRUE
  BY HubFacts DEF HubDrain, Handles
<1>3. faults' \in 0..MaxFaults
  BY <1>1, FlipAssumption DEF HubDrain, Fault
<1>4. /\ inbox' \in [Hubs -> Seq(InMsgs)] /\ \A k \in Hubs \ {h} : inbox'[k] = inbox[k]
      /\ Has(inbox[h], "drain") /\ InBounded(inbox'[h], sup.pepoch, sup.bepoch)
      /\ Head(inbox[h]) \in InMsgs /\ Head(inbox[h]).n \in Nat
      /\ \A u : Has(inbox'[h], u) => Has(inbox[h], u)
      /\ \A u : u # "drain" /\ Has(inbox[h], u) => Has(inbox'[h], u)
      /\ \A u, v : NoneAfter(inbox[h], u, v) => NoneAfter(inbox'[h], u, v)
      /\ \A v : NoneAfter(inbox[h], "drain", v) => ~Has(inbox'[h], v)
  <2>1. Handles(h, "drain")
    BY DEF HubDrain
  <2>2. /\ inbox' \in [Hubs -> Seq(InMsgs)] /\ \A k \in Hubs \ {h} : inbox'[k] = inbox[k]
        /\ Has(inbox[h], "drain") /\ Head(inbox[h]) \in InMsgs
        /\ \A u : Has(inbox'[h], u) => Has(inbox[h], u)
        /\ \A u : u # "drain" /\ Has(inbox[h], u) => Has(inbox'[h], u)
        /\ \A u, v : NoneAfter(inbox[h], u, v) => NoneAfter(inbox'[h], u, v)
        /\ \A v : NoneAfter(inbox[h], "drain", v) => ~Has(inbox'[h], v)
    BY <1>1, <2>1, Handled, ZenonT(60)
  <2>3. /\ InBounded(inbox'[h], sup.pepoch, sup.bepoch)
        /\ "drain" \in {"promote", "abort"} => Head(inbox[h]).n <= sup.pepoch
    BY <1>1, <2>1, Handled, Zenon DEF EpochsBounded
  <2>. QED  BY <2>2, <2>3 DEF InMsgs
<1>2. Running(h) /\ Claimant(h) /\ ~Quiet(h) /\ ~Steady(h)
  BY <1>1, <1>4 DEF Running, Claimant, Quiet, Steady
<1>5. CASE hub[h].op # "idle"
  <2>1. hub' = hub
    BY <1>1, <1>5 DEF HubDrain
  <2>2. /\ hub' \in [Hubs -> HubRecs] /\ \A k \in Hubs \ {h} : hub'[k] = hub[k]
        /\ UNCHANGED <<hub[h].st, hub[h].question, hub[h].profile, hub[h].abort, hub[h].ep, hub[h].grant, hub[h].ctl>>
        /\ hub'[h].op = hub[h].op
    BY <1>1, <1>4, <2>1 DEF HubRecs
  <2>5. outbox' = outbox /\ outbox \in [Hubs -> Seq(OutMsgs)] /\ OutBounded(outbox'[h], sup.pepoch)
    BY <1>1, <1>5 DEF HubDrain, Shape, EpochsBounded
  <2>6. Shape' /\ EpochsBounded(h)'
    BY <1>1, <1>3, <1>4, <2>2, <2>5 DEF Shape, EpochsBounded
  <2>7. Drained(h) => Drained(h)'
    BY <1>1, <1>4, <1>5, <2>2, <2>5 DEF Drained
  <2>8. Promoted(h) => Promoted(h)'
    BY <1>1, <1>4, <1>5, <2>2, <2>5 DEF Promoted
  <2>9. Rebound(h) => Rebound(h)'
    BY <1>1, <1>4, <1>5, <2>2, <2>5 DEF Rebound
  <2>. QED  BY <1>1, <1>2, <1>4, <2>2, <2>5, <2>6, <2>7, <2>8, <2>9, ClaimantStep
<1>6. CASE hub[h].op = "idle"
  <2>1. hub' = [hub EXCEPT ![h].op = "logins", ![h].draining = TRUE, ![h].fenced = FALSE]
    BY <1>1, <1>6 DEF HubDrain, Owning, Disowning
  <2>2. /\ hub' \in [Hubs -> HubRecs] /\ \A k \in Hubs \ {h} : hub'[k] = hub[k]
        /\ UNCHANGED <<hub[h].st, hub[h].question, hub[h].profile, hub[h].abort, hub[h].ep, hub[h].grant, hub[h].ctl>>
        /\ hub'[h].op = "logins"
    BY <1>1, <1>4, <2>1 DEF HubRecs
  <2>5. outbox' = outbox /\ outbox \in [Hubs -> Seq(OutMsgs)] /\ OutBounded(outbox'[h], sup.pepoch)
    BY <1>1, <1>6 DEF HubDrain, Shape, EpochsBounded
  <2>6. Shape' /\ EpochsBounded(h)'
    BY <1>1, <1>3, <1>4, <2>2, <2>5 DEF Shape, EpochsBounded
  <2>7. Drained(h) => Drained(h)'
    BY <1>1, <1>4, <1>6, <2>2, <2>5 DEF Drained
  <2>8. Promoted(h) => Promoted(h)'
    BY <1>1, <1>4, <1>6, <2>2, <2>5 DEF Promoted
  <2>9. Rebound(h) => Rebound(h)'
    BY <1>1, <1>4, <1>6, <2>2, <2>5 DEF Rebound
  <2>. QED  BY <1>1, <1>2, <1>4, <2>2, <2>5, <2>6, <2>7, <2>8, <2>9, ClaimantStep
<1>. QED  BY <1>5, <1>6

LEMMA DrainLoginsOK ==
  ASSUME IInv, NEW h \in Hubs, DrainLogins(h)
  PROVE  IInv'
<1>1. /\ Shape /\ EpochsBounded(h) /\ hub[h] \in HubRecs /\ hub \in [Hubs -> HubRecs]
      /\ faults \in 0..MaxFaults /\ sup.pepoch \in Nat /\ sup.bepoch \in Nat
      /\ sup' = sup /\ flips' = flips /\ hub[h].st = "up" /\ hub[h].op = "logins"
  BY HubFacts DEF DrainLogins, Handles
<1>2. Running(h) /\ Claimant(h) /\ ~Quiet(h) /\ ~Steady(h)
  BY <1>1 DEF Running, Claimant, Quiet, Steady
<1>3. faults' \in 0..MaxFaults
  BY <1>1, FlipAssumption DEF DrainLogins, Fault
<1>4. /\ inbox' = inbox /\ inbox' \in [Hubs -> Seq(InMsgs)]
      /\ InBounded(inbox'[h], sup.pepoch, sup.bepoch)
  BY <1>1 DEF DrainLogins, Shape, EpochsBounded
<1>5. CASE hub[h].fenced
  <2>1. hub' = [hub EXCEPT ![h].op = "idle", ![h].draining = FALSE]
    BY <1>1, <1>5 DEF DrainLogins, Owning, Disowning
  <2>2. /\ hub' \in [Hubs -> HubRecs] /\ \A k \in Hubs \ {h} : hub'[k] = hub[k]
        /\ UNCHANGED <<hub[h].st, hub[h].question, hub[h].profile, hub[h].abort, hub[h].ep, hub[h].grant, hub[h].ctl>>
        /\ hub'[h].op = "idle"
    BY <1>1, <1>4, <2>1 DEF HubRecs
  <2>5. outbox' = outbox /\ outbox \in [Hubs -> Seq(OutMsgs)] /\ OutBounded(outbox'[h], sup.pepoch)
    BY <1>1, <1>5 DEF DrainLogins, Shape, EpochsBounded
  <2>6. Shape' /\ EpochsBounded(h)'
    BY <1>1, <1>3, <1>4, <2>2, <2>5 DEF Shape, EpochsBounded
  <2>7. Drained(h) => Drained(h)'
    BY <1>1, <1>4, <1>5, <2>2, <2>5 DEF Drained
  <2>8. Promoted(h) => Promoted(h)'
    BY <1>1, <1>4, <1>5, <2>2, <2>5 DEF Promoted
  <2>9. Rebound(h) => Rebound(h)'
    BY <1>1, <1>4, <1>5, <2>2, <2>5 DEF Rebound
  <2>. QED  BY <1>1, <1>2, <1>4, <2>2, <2>5, <2>6, <2>7, <2>8, <2>9, ClaimantStep
<1>6. CASE ~hub[h].fenced
  <2>1. hub' = [hub EXCEPT ![h].op = "turns", ![h].question = FALSE]
    BY <1>1, <1>6 DEF DrainLogins, Owning, Disowning
  <2>2. /\ hub' \in [Hubs -> HubRecs] /\ \A k \in Hubs \ {h} : hub'[k] = hub[k]
        /\ UNCHANGED <<hub[h].st, hub[h].profile, hub[h].abort, hub[h].ep, hub[h].grant, hub[h].ctl>>
        /\ hub'[h].op = "turns" /\ ~hub'[h].question
    BY <1>1, <1>4, <2>1 DEF HubRecs
  <2>5. outbox' = outbox /\ outbox \in [Hubs -> Seq(OutMsgs)] /\ OutBounded(outbox'[h], sup.pepoch)
    BY <1>1, <1>6 DEF DrainLogins, Shape, EpochsBounded
  <2>6. Shape' /\ EpochsBounded(h)'
    BY <1>1, <1>3, <1>4, <2>2, <2>5 DEF Shape, EpochsBounded
  <2>7. Drained(h) => Drained(h)'
    BY <1>1, <1>4, <1>6, <2>2, <2>5 DEF Drained
  <2>8. Promoted(h) => Promoted(h)'
    BY <1>1, <1>4, <1>6, <2>2, <2>5 DEF Promoted
  <2>9. Rebound(h) => Rebound(h)'
    BY <1>1, <1>4, <1>6, <2>2, <2>5 DEF Rebound
  <2>. QED  BY <1>1, <1>2, <1>4, <2>2, <2>5, <2>6, <2>7, <2>8, <2>9, ClaimantStep
<1>. QED  BY <1>5, <1>6

LEMMA DrainTurnsOK ==
  ASSUME IInv, NEW h \in Hubs, DrainTurns(h)
  PROVE  IInv'
<1>1. /\ Shape /\ EpochsBounded(h) /\ hub[h] \in HubRecs /\ hub \in [Hubs -> HubRecs]
      /\ faults \in 0..MaxFaults /\ sup.pepoch \in Nat /\ sup.bepoch \in Nat
      /\ sup' = sup /\ flips' = flips /\ hub[h].st = "up" /\ hub[h].op = "turns"
  BY HubFacts DEF DrainTurns, Handles
<1>2. Running(h) /\ Claimant(h) /\ ~Quiet(h) /\ ~Steady(h)
  BY <1>1 DEF Running, Claimant, Quiet, Steady
<1>3. faults' \in 0..MaxFaults
  BY <1>1, FlipAssumption DEF DrainTurns, Fault
<1>4. /\ inbox' = inbox /\ inbox' \in [Hubs -> Seq(InMsgs)]
      /\ InBounded(inbox'[h], sup.pepoch, sup.bepoch)
  BY <1>1 DEF DrainTurns, Shape, EpochsBounded
<1>5. CASE hub[h].fenced
  <2>1. hub' = [hub EXCEPT ![h].op = "idle"]
    BY <1>1, <1>5 DEF DrainTurns, Owning, Disowning
  <2>2. /\ hub' \in [Hubs -> HubRecs] /\ \A k \in Hubs \ {h} : hub'[k] = hub[k]
        /\ UNCHANGED <<hub[h].st, hub[h].question, hub[h].profile, hub[h].abort, hub[h].ep, hub[h].grant, hub[h].ctl>>
        /\ hub'[h].op = "idle"
    BY <1>1, <1>4, <2>1 DEF HubRecs
  <2>5. outbox' = outbox /\ outbox \in [Hubs -> Seq(OutMsgs)] /\ OutBounded(outbox'[h], sup.pepoch)
    BY <1>1, <1>5 DEF DrainTurns, Shape, EpochsBounded
  <2>6. Shape' /\ EpochsBounded(h)'
    BY <1>1, <1>3, <1>4, <2>2, <2>5 DEF Shape, EpochsBounded
  <2>7. Drained(h) => Drained(h)'
    BY <1>1, <1>4, <1>5, <2>2, <2>5 DEF Drained
  <2>8. Promoted(h) => Promoted(h)'
    BY <1>1, <1>4, <1>5, <2>2, <2>5 DEF Promoted
  <2>9. Rebound(h) => Rebound(h)'
    BY <1>1, <1>4, <1>5, <2>2, <2>5 DEF Rebound
  <2>. QED  BY <1>1, <1>2, <1>4, <2>2, <2>5, <2>6, <2>7, <2>8, <2>9, ClaimantStep
<1>6. CASE ~hub[h].fenced
  <2>1. hub' = [hub EXCEPT ![h].op = "closing", ![h].profile = FALSE, ![h].port = "no"]
    BY <1>1, <1>6 DEF DrainTurns, Owning, Disowning
  <2>2. /\ hub' \in [Hubs -> HubRecs] /\ \A k \in Hubs \ {h} : hub'[k] = hub[k]
        /\ UNCHANGED <<hub[h].st, hub[h].question, hub[h].abort, hub[h].ep, hub[h].grant, hub[h].ctl>>
        /\ hub'[h].op = "closing" /\ ~hub'[h].profile
    BY <1>1, <1>4, <2>1 DEF HubRecs
  <2>5. outbox' = outbox /\ outbox \in [Hubs -> Seq(OutMsgs)] /\ OutBounded(outbox'[h], sup.pepoch)
    BY <1>1, <1>6 DEF DrainTurns, Shape, EpochsBounded
  <2>6. Shape' /\ EpochsBounded(h)'
    BY <1>1, <1>3, <1>4, <2>2, <2>5 DEF Shape, EpochsBounded
  <2>7. Drained(h) => Drained(h)'
    BY <1>1, <1>4, <1>6, <2>2, <2>5 DEF Drained
  <2>8. Promoted(h) => Promoted(h)'
    BY <1>1, <1>4, <1>6, <2>2, <2>5 DEF Promoted
  <2>9. Rebound(h) => Rebound(h)'
    BY <1>1, <1>4, <1>6, <2>2, <2>5 DEF Rebound
  <2>. QED  BY <1>1, <1>2, <1>4, <2>2, <2>5, <2>6, <2>7, <2>8, <2>9, ClaimantStep
<1>. QED  BY <1>5, <1>6

LEMMA DrainClosedOK ==
  ASSUME IInv, NEW h \in Hubs, DrainClosed(h)
  PROVE  IInv'
<1>1. /\ Shape /\ EpochsBounded(h) /\ hub[h] \in HubRecs /\ hub \in [Hubs -> HubRecs]
      /\ faults \in 0..MaxFaults /\ sup.pepoch \in Nat /\ sup.bepoch \in Nat
      /\ sup' = sup /\ flips' = flips /\ hub[h].st = "up" /\ hub[h].op = "closing"
  BY HubFacts DEF DrainClosed, Handles
<1>2. Running(h) /\ Claimant(h) /\ ~Quiet(h) /\ ~Steady(h)
  BY <1>1 DEF Running, Claimant, Quiet, Steady
<1>3. faults' \in 0..MaxFaults
  BY <1>1, FlipAssumption DEF DrainClosed, Fault
<1>4. /\ inbox' = inbox /\ inbox' \in [Hubs -> Seq(InMsgs)]
      /\ InBounded(inbox'[h], sup.pepoch, sup.bepoch)
  BY <1>1 DEF DrainClosed, Shape, EpochsBounded
<1>5. CASE hub[h].fenced
  <2>1. hub' = [hub EXCEPT ![h].op = "idle"]
    BY <1>1, <1>5 DEF DrainClosed, Owning, Disowning
  <2>2. /\ hub' \in [Hubs -> HubRecs] /\ \A k \in Hubs \ {h} : hub'[k] = hub[k]
        /\ UNCHANGED <<hub[h].st, hub[h].question, hub[h].profile, hub[h].abort, hub[h].ep, hub[h].grant, hub[h].ctl>>
        /\ hub'[h].op = "idle"
    BY <1>1, <1>4, <2>1 DEF HubRecs
  <2>5. outbox' = outbox /\ outbox \in [Hubs -> Seq(OutMsgs)] /\ OutBounded(outbox'[h], sup.pepoch)
    BY <1>1, <1>5 DEF DrainClosed, Shape, EpochsBounded
  <2>6. Shape' /\ EpochsBounded(h)'
    BY <1>1, <1>3, <1>4, <2>2, <2>5 DEF Shape, EpochsBounded
  <2>7. Drained(h) => Drained(h)'
    BY <1>1, <1>4, <1>5, <2>2, <2>5 DEF Drained
  <2>8. Promoted(h) => Promoted(h)'
    BY <1>1, <1>4, <1>5, <2>2, <2>5 DEF Promoted
  <2>9. Rebound(h) => Rebound(h)'
    BY <1>1, <1>4, <1>5, <2>2, <2>5 DEF Rebound
  <2>. QED  BY <1>1, <1>2, <1>4, <2>2, <2>5, <2>6, <2>7, <2>8, <2>9, ClaimantStep
<1>6. CASE ~hub[h].fenced
  <2>1. hub' = [hub EXCEPT ![h].op = "idle"]
    BY <1>1, <1>6 DEF DrainClosed, Owning, Disowning
  <2>2. /\ hub' \in [Hubs -> HubRecs] /\ \A k \in Hubs \ {h} : hub'[k] = hub[k]
        /\ UNCHANGED <<hub[h].st, hub[h].question, hub[h].profile, hub[h].abort, hub[h].ep, hub[h].grant, hub[h].ctl>>
        /\ hub'[h].op = "idle"
    BY <1>1, <1>4, <2>1 DEF HubRecs
  <2>3. Say(h, Msg("released", 0, TRUE))
    BY <1>1, <1>6 DEF DrainClosed
  <2>4. Msg("released", 0, TRUE) \in OutMsgs /\ Msg("released", 0, TRUE).type = "released"
        /\ Msg("released", 0, TRUE).n = 0
    BY <1>1 DEF Msg, OutMsgs, OutTypes, HubRecs
  <2>5. /\ outbox' \in [Hubs -> Seq(OutMsgs)] /\ \A k \in Hubs \ {h} : outbox'[k] = outbox[k]
        /\ Has(outbox'[h], "released") <=> Has(outbox[h], "released") \/ TRUE
        /\ \A n : /\ HasN(outbox'[h], "promoted", n) <=> HasN(outbox[h], "promoted", n)
                  /\ HasN(outbox'[h], "rebound", n) <=> HasN(outbox[h], "rebound", n)
                  /\ NoneAfterN(outbox[h], "rebound", n, "released") /\ ~HasN(outbox[h], "rebound", n)
                     => NoneAfterN(outbox'[h], "rebound", n, "released")
        /\ OutBounded(outbox'[h], sup.pepoch)
    BY <1>1, <2>3, <2>4, Said DEF EpochsBounded
  <2>6. Shape' /\ EpochsBounded(h)'
    BY <1>1, <1>3, <1>4, <2>2, <2>5 DEF Shape, EpochsBounded
  <2>7. Drained(h) => Drained(h)'
    BY <1>1, <1>4, <1>6, <2>2, <2>5 DEF Drained
  <2>8. Promoted(h) => Promoted(h)'
    BY <1>1, <1>4, <1>6, <2>2, <2>5 DEF Promoted
  <2>9. Rebound(h) => Rebound(h)'
    BY <1>1, <1>4, <1>6, <2>2, <2>5 DEF Rebound
  <2>. QED  BY <1>1, <1>2, <1>4, <2>2, <2>5, <2>6, <2>7, <2>8, <2>9, ClaimantStep
<1>. QED  BY <1>5, <1>6

LEMMA DrainFailsOK ==
  ASSUME IInv, NEW h \in Hubs, DrainFails(h)
  PROVE  IInv'
<1>1. /\ Shape /\ EpochsBounded(h) /\ hub[h] \in HubRecs /\ hub \in [Hubs -> HubRecs]
      /\ faults \in 0..MaxFaults /\ sup.pepoch \in Nat /\ sup.bepoch \in Nat
      /\ sup' = sup /\ flips' = flips /\ hub[h].st = "up" /\ hub[h].op \in {"logins", "turns"}
  BY HubFacts DEF DrainFails, Handles
<1>2. Running(h) /\ Claimant(h) /\ ~Quiet(h) /\ ~Steady(h)
  BY <1>1 DEF Running, Claimant, Quiet, Steady
<1>3. faults' \in 0..MaxFaults
  BY <1>1, FlipAssumption DEF DrainFails, Fault
<1>4. /\ inbox' = inbox /\ inbox' \in [Hubs -> Seq(InMsgs)]
      /\ InBounded(inbox'[h], sup.pepoch, sup.bepoch)
  BY <1>1 DEF DrainFails, Shape, EpochsBounded
<1>5. CASE hub' = [hub EXCEPT ![h].op = "idle", ![h].draining = FALSE, ![h].question = TRUE]
  <2>1. hub' = [hub EXCEPT ![h].op = "idle", ![h].draining = FALSE, ![h].question = TRUE]
    BY <1>1, <1>5 DEF DrainFails, Owning, Disowning
  <2>2. /\ hub' \in [Hubs -> HubRecs] /\ \A k \in Hubs \ {h} : hub'[k] = hub[k]
        /\ UNCHANGED <<hub[h].st, hub[h].profile, hub[h].abort, hub[h].ep, hub[h].grant, hub[h].ctl>>
        /\ hub'[h].op = "idle" /\ hub'[h].question
    BY <1>1, <1>4, <2>1 DEF HubRecs
  <2>3. Say(h, Msg("drain-failed", 0, FALSE))
    BY <1>1, <1>5 DEF DrainFails
  <2>4. Msg("drain-failed", 0, FALSE) \in OutMsgs /\ Msg("drain-failed", 0, FALSE).type = "drain-failed"
        /\ Msg("drain-failed", 0, FALSE).n = 0
    BY <1>1 DEF Msg, OutMsgs, OutTypes, HubRecs
  <2>5. /\ outbox' \in [Hubs -> Seq(OutMsgs)] /\ \A k \in Hubs \ {h} : outbox'[k] = outbox[k]
        /\ Has(outbox'[h], "released") <=> Has(outbox[h], "released")
        /\ \A n : /\ HasN(outbox'[h], "promoted", n) <=> HasN(outbox[h], "promoted", n)
                  /\ HasN(outbox'[h], "rebound", n) <=> HasN(outbox[h], "rebound", n)
                  /\ NoneAfterN(outbox[h], "rebound", n, "released")
                     => NoneAfterN(outbox'[h], "rebound", n, "released")
        /\ OutBounded(outbox'[h], sup.pepoch)
    BY <1>1, <2>3, <2>4, Said DEF EpochsBounded
  <2>6. Shape' /\ EpochsBounded(h)'
    BY <1>1, <1>3, <1>4, <2>2, <2>5 DEF Shape, EpochsBounded
  <2>7. Drained(h) => Drained(h)'
    BY <1>1, <1>4, <1>5, <2>2, <2>5 DEF Drained
  <2>8. Promoted(h) => Promoted(h)'
    BY <1>1, <1>4, <1>5, <2>2, <2>5 DEF Promoted
  <2>9. Rebound(h) => Rebound(h)'
    BY <1>1, <1>4, <1>5, <2>2, <2>5 DEF Rebound
  <2>. QED  BY <1>1, <1>2, <1>4, <2>2, <2>5, <2>6, <2>7, <2>8, <2>9, ClaimantStep
<1>6. CASE hub' = [hub EXCEPT ![h].op = "idle", ![h].port = "no"]
  <2>1. hub' = [hub EXCEPT ![h].op = "idle", ![h].port = "no"]
    BY <1>1, <1>6 DEF DrainFails, Owning, Disowning
  <2>2. /\ hub' \in [Hubs -> HubRecs] /\ \A k \in Hubs \ {h} : hub'[k] = hub[k]
        /\ UNCHANGED <<hub[h].st, hub[h].question, hub[h].profile, hub[h].abort, hub[h].ep, hub[h].grant, hub[h].ctl>>
        /\ hub'[h].op = "idle"
    BY <1>1, <1>4, <2>1 DEF HubRecs
  <2>3. Say(h, Msg("drain-failed", 0, FALSE))
    BY <1>1, <1>6 DEF DrainFails
  <2>4. Msg("drain-failed", 0, FALSE) \in OutMsgs /\ Msg("drain-failed", 0, FALSE).type = "drain-failed"
        /\ Msg("drain-failed", 0, FALSE).n = 0
    BY <1>1 DEF Msg, OutMsgs, OutTypes, HubRecs
  <2>5. /\ outbox' \in [Hubs -> Seq(OutMsgs)] /\ \A k \in Hubs \ {h} : outbox'[k] = outbox[k]
        /\ Has(outbox'[h], "released") <=> Has(outbox[h], "released")
        /\ \A n : /\ HasN(outbox'[h], "promoted", n) <=> HasN(outbox[h], "promoted", n)
                  /\ HasN(outbox'[h], "rebound", n) <=> HasN(outbox[h], "rebound", n)
                  /\ NoneAfterN(outbox[h], "rebound", n, "released")
                     => NoneAfterN(outbox'[h], "rebound", n, "released")
        /\ OutBounded(outbox'[h], sup.pepoch)
    BY <1>1, <2>3, <2>4, Said DEF EpochsBounded
  <2>6. Shape' /\ EpochsBounded(h)'
    BY <1>1, <1>3, <1>4, <2>2, <2>5 DEF Shape, EpochsBounded
  <2>7. Drained(h) => Drained(h)'
    BY <1>1, <1>4, <1>6, <2>2, <2>5 DEF Drained
  <2>8. Promoted(h) => Promoted(h)'
    BY <1>1, <1>4, <1>6, <2>2, <2>5 DEF Promoted
  <2>9. Rebound(h) => Rebound(h)'
    BY <1>1, <1>4, <1>6, <2>2, <2>5 DEF Rebound
  <2>. QED  BY <1>1, <1>2, <1>4, <2>2, <2>5, <2>6, <2>7, <2>8, <2>9, ClaimantStep
<1>. QED  BY <1>5, <1>6 DEF DrainFails

LEMMA HubPromoteOK ==
  ASSUME IInv, NEW h \in Hubs, HubPromote(h)
  PROVE  IInv'
<1>1. /\ Shape /\ EpochsBounded(h) /\ hub[h] \in HubRecs /\ hub \in [Hubs -> HubRecs]
      /\ faults \in 0..MaxFaults /\ sup.pepoch \in Nat /\ sup.bepoch \in Nat
      /\ sup' = sup /\ flips' = flips /\ hub[h].st = "up" /\ TRUE
  BY HubFacts DEF HubPromote, Handles
<1>3. faults' \in 0..MaxFaults
  BY <1>1, FlipAssumption DEF HubPromote, Fault
<1>4. /\ inbox' \in [Hubs -> Seq(InMsgs)] /\ \A k \in Hubs \ {h} : inbox'[k] = inbox[k]
      /\ Has(inbox[h], "promote") /\ InBounded(inbox'[h], sup.pepoch, sup.bepoch)
      /\ Head(inbox[h]) \in InMsgs /\ Head(inbox[h]).n \in Nat
      /\ Head(inbox[h]).n <= sup.pepoch
      /\ \A u : Has(inbox'[h], u) => Has(inbox[h], u)
      /\ \A u : u # "promote" /\ Has(inbox[h], u) => Has(inbox'[h], u)
      /\ \A u, v : NoneAfter(inbox[h], u, v) => NoneAfter(inbox'[h], u, v)
      /\ \A v : NoneAfter(inbox[h], "promote", v) => ~Has(inbox'[h], v)
  <2>1. Handles(h, "promote")
    BY DEF HubPromote
  <2>2. /\ inbox' \in [Hubs -> Seq(InMsgs)] /\ \A k \in Hubs \ {h} : inbox'[k] = inbox[k]
        /\ Has(inbox[h], "promote") /\ Head(inbox[h]) \in InMsgs
        /\ \A u : Has(inbox'[h], u) => Has(inbox[h], u)
        /\ \A u : u # "promote" /\ Has(inbox[h], u) => Has(inbox'[h], u)
        /\ \A u, v : NoneAfter(inbox[h], u, v) => NoneAfter(inbox'[h], u, v)
        /\ \A v : NoneAfter(inbox[h], "promote", v) => ~Has(inbox'[h], v)
    BY <1>1, <2>1, Handled, ZenonT(60)
  <2>3. /\ InBounded(inbox'[h], sup.pepoch, sup.bepoch)
        /\ "promote" \in {"promote", "abort"} => Head(inbox[h]).n <= sup.pepoch
    BY <1>1, <2>1, Handled, Zenon DEF EpochsBounded
  <2>. QED  BY <2>2, <2>3 DEF InMsgs
<1>2. Running(h) /\ Claimant(h) /\ ~Quiet(h) /\ ~Steady(h)
  BY <1>1, <1>4 DEF Running, Claimant, Quiet, Steady
<1>5. CASE TRUE
  <2>1. hub' = [hub EXCEPT ![h].op = "promote", ![h].port = "no", ![h].grant = Head(inbox[h]).n]
    BY <1>1, <1>5 DEF HubPromote, Owning, Disowning
  <2>2. /\ hub' \in [Hubs -> HubRecs] /\ \A k \in Hubs \ {h} : hub'[k] = hub[k]
        /\ UNCHANGED <<hub[h].st, hub[h].question, hub[h].profile, hub[h].abort, hub[h].ep, hub[h].ctl>>
        /\ hub'[h].op = "promote" /\ hub'[h].grant = Head(inbox[h]).n
    BY <1>1, <1>4, <2>1 DEF HubRecs
  <2>5. outbox' = outbox /\ outbox \in [Hubs -> Seq(OutMsgs)] /\ OutBounded(outbox'[h], sup.pepoch)
    BY <1>1, <1>5 DEF HubPromote, Shape, EpochsBounded
  <2>6. Shape' /\ EpochsBounded(h)'
    BY <1>1, <1>3, <1>4, <2>2, <2>5 DEF Shape, EpochsBounded
  <2>7. Drained(h) => Drained(h)'
    BY <1>1, <1>4, <1>5, <2>2, <2>5 DEF Drained
  <2>8. Promoted(h) => Promoted(h)'
    BY <1>1, <1>4, <1>5, <2>2, <2>5 DEF Promoted
  <2>9. Rebound(h) => Rebound(h)'
    BY <1>1, <1>4, <1>5, <2>2, <2>5 DEF Rebound
  <2>. QED  BY <1>1, <1>2, <1>4, <2>2, <2>5, <2>6, <2>7, <2>8, <2>9, ClaimantStep
<1>. QED  BY <1>5

LEMMA PromoteBindsOK ==
  ASSUME IInv, NEW h \in Hubs, PromoteBinds(h)
  PROVE  IInv'
<1>1. /\ Shape /\ EpochsBounded(h) /\ hub[h] \in HubRecs /\ hub \in [Hubs -> HubRecs]
      /\ faults \in 0..MaxFaults /\ sup.pepoch \in Nat /\ sup.bepoch \in Nat
      /\ sup' = sup /\ flips' = flips /\ hub[h].st = "up" /\ hub[h].op = "promote"
  BY HubFacts DEF PromoteBinds, Handles
<1>2. Running(h) /\ Claimant(h) /\ ~Quiet(h) /\ ~Steady(h)
  BY <1>1 DEF Running, Claimant, Quiet, Steady
<1>3. faults' \in 0..MaxFaults
  BY <1>1, FlipAssumption DEF PromoteBinds, Fault
<1>4. /\ inbox' = inbox /\ inbox' \in [Hubs -> Seq(InMsgs)]
      /\ InBounded(inbox'[h], sup.pepoch, sup.bepoch)
  BY <1>1 DEF PromoteBinds, Shape, EpochsBounded
<1>5. CASE Claimable(h)
  <2>1. hub' = [hub EXCEPT ![h] = Owning(@, hub[h].grant)]
    BY <1>1, <1>5 DEF PromoteBinds, Owning, Disowning
  <2>2. /\ hub' \in [Hubs -> HubRecs] /\ \A k \in Hubs \ {h} : hub'[k] = hub[k]
        /\ UNCHANGED <<hub[h].st, hub[h].ctl>> /\ hub'[h].question /\ hub'[h].profile
        /\ hub'[h].op = "idle" /\ ~hub'[h].abort /\ hub'[h].ep = hub[h].grant /\ hub'[h].grant = 0
    BY <1>1, <1>4, <2>1, OwningOK
  <2>3. Say(h, Msg("promoted", hub[h].grant, TRUE))
    BY <1>1, <1>5 DEF PromoteBinds
  <2>4. Msg("promoted", hub[h].grant, TRUE) \in OutMsgs /\ Msg("promoted", hub[h].grant, TRUE).type = "promoted"
        /\ Msg("promoted", hub[h].grant, TRUE).n = hub[h].grant
    BY <1>1 DEF Msg, OutMsgs, OutTypes, HubRecs
  <2>5. /\ outbox' \in [Hubs -> Seq(OutMsgs)] /\ \A k \in Hubs \ {h} : outbox'[k] = outbox[k]
        /\ Has(outbox'[h], "released") <=> Has(outbox[h], "released")
        /\ \A n : /\ HasN(outbox'[h], "promoted", n) <=> HasN(outbox[h], "promoted", n) \/ n = hub[h].grant
                  /\ HasN(outbox'[h], "rebound", n) <=> HasN(outbox[h], "rebound", n)
                  /\ NoneAfterN(outbox[h], "rebound", n, "released")
                     => NoneAfterN(outbox'[h], "rebound", n, "released")
        /\ OutBounded(outbox'[h], sup.pepoch)
    BY <1>1, <2>3, <2>4, Said DEF EpochsBounded
  <2>6. Shape' /\ EpochsBounded(h)'
    BY <1>1, <1>3, <1>4, <2>2, <2>5 DEF Shape, EpochsBounded
  <2>7. Drained(h) => Drained(h)'
    BY <1>1, <1>4, <1>5, <2>2, <2>5 DEF Drained
  <2>8. Promoted(h) => Promoted(h)'
    BY <1>1, <1>4, <1>5, <2>2, <2>5 DEF Promoted
  <2>9. Rebound(h) => Rebound(h)'
    BY <1>1, <1>4, <1>5, <2>2, <2>5 DEF Rebound
  <2>. QED  BY <1>1, <1>2, <1>4, <2>2, <2>5, <2>6, <2>7, <2>8, <2>9, ClaimantStep
<1>6. CASE ~Claimable(h)
  <2>1. hub' = [hub EXCEPT ![h] = Disowning(@)]
    BY <1>1, <1>6 DEF PromoteBinds, Owning, Disowning
  <2>2. /\ hub' \in [Hubs -> HubRecs] /\ \A k \in Hubs \ {h} : hub'[k] = hub[k]
        /\ UNCHANGED <<hub[h].st, hub[h].ep, hub[h].ctl>> /\ ~hub'[h].question /\ ~hub'[h].profile
        /\ hub'[h].op = "idle" /\ ~hub'[h].abort /\ hub'[h].grant = 0
    BY <1>1, <1>4, <2>1, OwningOK
  <2>3. Say(h, Msg("promote-failed", 0, FALSE))
    BY <1>1, <1>6 DEF PromoteBinds
  <2>4. Msg("promote-failed", 0, FALSE) \in OutMsgs /\ Msg("promote-failed", 0, FALSE).type = "promote-failed"
        /\ Msg("promote-failed", 0, FALSE).n = 0
    BY <1>1 DEF Msg, OutMsgs, OutTypes, HubRecs
  <2>5. /\ outbox' \in [Hubs -> Seq(OutMsgs)] /\ \A k \in Hubs \ {h} : outbox'[k] = outbox[k]
        /\ Has(outbox'[h], "released") <=> Has(outbox[h], "released")
        /\ \A n : /\ HasN(outbox'[h], "promoted", n) <=> HasN(outbox[h], "promoted", n)
                  /\ HasN(outbox'[h], "rebound", n) <=> HasN(outbox[h], "rebound", n)
                  /\ NoneAfterN(outbox[h], "rebound", n, "released")
                     => NoneAfterN(outbox'[h], "rebound", n, "released")
        /\ OutBounded(outbox'[h], sup.pepoch)
    BY <1>1, <2>3, <2>4, Said DEF EpochsBounded
  <2>6. Shape' /\ EpochsBounded(h)'
    BY <1>1, <1>3, <1>4, <2>2, <2>5 DEF Shape, EpochsBounded
  <2>7. Drained(h) => Drained(h)'
    BY <1>1, <1>4, <1>6, <2>2, <2>5 DEF Drained
  <2>8. Promoted(h) => Promoted(h)'
    BY <1>1, <1>4, <1>6, <2>2, <2>5 DEF Promoted
  <2>9. Rebound(h) => Rebound(h)'
    BY <1>1, <1>4, <1>6, <2>2, <2>5 DEF Rebound
  <2>. QED  BY <1>1, <1>2, <1>4, <2>2, <2>5, <2>6, <2>7, <2>8, <2>9, ClaimantStep
<1>. QED  BY <1>5, <1>6

LEMMA PromoteFailsOK ==
  ASSUME IInv, NEW h \in Hubs, PromoteFails(h)
  PROVE  IInv'
<1>1. /\ Shape /\ EpochsBounded(h) /\ hub[h] \in HubRecs /\ hub \in [Hubs -> HubRecs]
      /\ faults \in 0..MaxFaults /\ sup.pepoch \in Nat /\ sup.bepoch \in Nat
      /\ sup' = sup /\ flips' = flips /\ hub[h].st = "up" /\ hub[h].op = "promote"
  BY HubFacts DEF PromoteFails, Handles
<1>2. Running(h) /\ Claimant(h) /\ ~Quiet(h) /\ ~Steady(h)
  BY <1>1 DEF Running, Claimant, Quiet, Steady
<1>3. faults' \in 0..MaxFaults
  BY <1>1, FlipAssumption DEF PromoteFails, Fault
<1>4. /\ inbox' = inbox /\ inbox' \in [Hubs -> Seq(InMsgs)]
      /\ InBounded(inbox'[h], sup.pepoch, sup.bepoch)
  BY <1>1 DEF PromoteFails, Shape, EpochsBounded
<1>5. CASE TRUE
  <2>1. hub' = [hub EXCEPT ![h] = Disowning(@)]
    BY <1>1, <1>5 DEF PromoteFails, Owning, Disowning
  <2>2. /\ hub' \in [Hubs -> HubRecs] /\ \A k \in Hubs \ {h} : hub'[k] = hub[k]
        /\ UNCHANGED <<hub[h].st, hub[h].ep, hub[h].ctl>> /\ ~hub'[h].question /\ ~hub'[h].profile
        /\ hub'[h].op = "idle" /\ ~hub'[h].abort /\ hub'[h].grant = 0
    BY <1>1, <1>4, <2>1, OwningOK
  <2>3. Say(h, Msg("promote-failed", 0, FALSE))
    BY <1>1, <1>5 DEF PromoteFails
  <2>4. Msg("promote-failed", 0, FALSE) \in OutMsgs /\ Msg("promote-failed", 0, FALSE).type = "promote-failed"
        /\ Msg("promote-failed", 0, FALSE).n = 0
    BY <1>1 DEF Msg, OutMsgs, OutTypes, HubRecs
  <2>5. /\ outbox' \in [Hubs -> Seq(OutMsgs)] /\ \A k \in Hubs \ {h} : outbox'[k] = outbox[k]
        /\ Has(outbox'[h], "released") <=> Has(outbox[h], "released")
        /\ \A n : /\ HasN(outbox'[h], "promoted", n) <=> HasN(outbox[h], "promoted", n)
                  /\ HasN(outbox'[h], "rebound", n) <=> HasN(outbox[h], "rebound", n)
                  /\ NoneAfterN(outbox[h], "rebound", n, "released")
                     => NoneAfterN(outbox'[h], "rebound", n, "released")
        /\ OutBounded(outbox'[h], sup.pepoch)
    BY <1>1, <2>3, <2>4, Said DEF EpochsBounded
  <2>6. Shape' /\ EpochsBounded(h)'
    BY <1>1, <1>3, <1>4, <2>2, <2>5 DEF Shape, EpochsBounded
  <2>7. Drained(h) => Drained(h)'
    BY <1>1, <1>4, <1>5, <2>2, <2>5 DEF Drained
  <2>8. Promoted(h) => Promoted(h)'
    BY <1>1, <1>4, <1>5, <2>2, <2>5 DEF Promoted
  <2>9. Rebound(h) => Rebound(h)'
    BY <1>1, <1>4, <1>5, <2>2, <2>5 DEF Rebound
  <2>. QED  BY <1>1, <1>2, <1>4, <2>2, <2>5, <2>6, <2>7, <2>8, <2>9, ClaimantStep
<1>. QED  BY <1>5

LEMMA HubAbortOK ==
  ASSUME IInv, NEW h \in Hubs, HubAbort(h)
  PROVE  IInv'
<1>1. /\ Shape /\ EpochsBounded(h) /\ hub[h] \in HubRecs /\ hub \in [Hubs -> HubRecs]
      /\ faults \in 0..MaxFaults /\ sup.pepoch \in Nat /\ sup.bepoch \in Nat
      /\ sup' = sup /\ flips' = flips /\ hub[h].st = "up" /\ TRUE
  BY HubFacts DEF HubAbort, Handles
<1>3. faults' \in 0..MaxFaults
  BY <1>1, FlipAssumption DEF HubAbort, Fault
<1>4. /\ inbox' \in [Hubs -> Seq(InMsgs)] /\ \A k \in Hubs \ {h} : inbox'[k] = inbox[k]
      /\ Has(inbox[h], "abort") /\ InBounded(inbox'[h], sup.pepoch, sup.bepoch)
      /\ Head(inbox[h]) \in InMsgs /\ Head(inbox[h]).n \in Nat
      /\ Head(inbox[h]).n <= sup.pepoch
      /\ \A u : Has(inbox'[h], u) => Has(inbox[h], u)
      /\ \A u : u # "abort" /\ Has(inbox[h], u) => Has(inbox'[h], u)
      /\ \A u, v : NoneAfter(inbox[h], u, v) => NoneAfter(inbox'[h], u, v)
      /\ \A v : NoneAfter(inbox[h], "abort", v) => ~Has(inbox'[h], v)
  <2>1. Handles(h, "abort")
    BY DEF HubAbort
  <2>2. /\ inbox' \in [Hubs -> Seq(InMsgs)] /\ \A k \in Hubs \ {h} : inbox'[k] = inbox[k]
        /\ Has(inbox[h], "abort") /\ Head(inbox[h]) \in InMsgs
        /\ \A u : Has(inbox'[h], u) => Has(inbox[h], u)
        /\ \A u : u # "abort" /\ Has(inbox[h], u) => Has(inbox'[h], u)
        /\ \A u, v : NoneAfter(inbox[h], u, v) => NoneAfter(inbox'[h], u, v)
        /\ \A v : NoneAfter(inbox[h], "abort", v) => ~Has(inbox'[h], v)
    BY <1>1, <2>1, Handled, ZenonT(60)
  <2>3. /\ InBounded(inbox'[h], sup.pepoch, sup.bepoch)
        /\ "abort" \in {"promote", "abort"} => Head(inbox[h]).n <= sup.pepoch
    BY <1>1, <2>1, Handled, Zenon DEF EpochsBounded
  <2>. QED  BY <2>2, <2>3 DEF InMsgs
<1>2. Running(h) /\ Claimant(h) /\ ~Quiet(h) /\ ~Steady(h)
  BY <1>1, <1>4 DEF Running, Claimant, Quiet, Steady
<1>5. CASE TRUE
  <2>1. hub' = [hub EXCEPT ![h].abort = TRUE, ![h].grant = Head(inbox[h]).n, ![h].fenced = hub[h].op # "idle"]
    BY <1>1, <1>5 DEF HubAbort, Owning, Disowning
  <2>2. /\ hub' \in [Hubs -> HubRecs] /\ \A k \in Hubs \ {h} : hub'[k] = hub[k]
        /\ UNCHANGED <<hub[h].st, hub[h].op, hub[h].question, hub[h].profile, hub[h].ep, hub[h].ctl>>
        /\ hub'[h].abort /\ hub'[h].grant = Head(inbox[h]).n
    BY <1>1, <1>4, <2>1 DEF HubRecs
  <2>5. outbox' = outbox /\ outbox \in [Hubs -> Seq(OutMsgs)] /\ OutBounded(outbox'[h], sup.pepoch)
    BY <1>1, <1>5 DEF HubAbort, Shape, EpochsBounded
  <2>6. Shape' /\ EpochsBounded(h)'
    BY <1>1, <1>3, <1>4, <2>2, <2>5 DEF Shape, EpochsBounded
  <2>7. Drained(h) => Drained(h)'
    BY <1>1, <1>4, <1>5, <2>2, <2>5 DEF Drained
  <2>8. Promoted(h) => Promoted(h)'
    BY <1>1, <1>4, <1>5, <2>2, <2>5 DEF Promoted
  <2>9. Rebound(h) => Rebound(h)'
    BY <1>1, <1>4, <1>5, <2>2, <2>5 DEF Rebound
  <2>. QED  BY <1>1, <1>2, <1>4, <2>2, <2>5, <2>6, <2>7, <2>8, <2>9, ClaimantStep
<1>. QED  BY <1>5

LEMMA HubAbortFailsOK ==
  ASSUME IInv, NEW h \in Hubs, HubAbortFails(h)
  PROVE  IInv'
<1>1. /\ Shape /\ EpochsBounded(h) /\ hub[h] \in HubRecs /\ hub \in [Hubs -> HubRecs]
      /\ faults \in 0..MaxFaults /\ sup.pepoch \in Nat /\ sup.bepoch \in Nat
      /\ sup' = sup /\ flips' = flips /\ hub[h].st = "up" /\ TRUE
  BY HubFacts DEF HubAbortFails, Handles
<1>3. faults' \in 0..MaxFaults
  BY <1>1, FlipAssumption DEF HubAbortFails, Fault
<1>4. /\ inbox' \in [Hubs -> Seq(InMsgs)] /\ \A k \in Hubs \ {h} : inbox'[k] = inbox[k]
      /\ Has(inbox[h], "abort") /\ InBounded(inbox'[h], sup.pepoch, sup.bepoch)
      /\ Head(inbox[h]) \in InMsgs /\ Head(inbox[h]).n \in Nat
      /\ Head(inbox[h]).n <= sup.pepoch
      /\ \A u : Has(inbox'[h], u) => Has(inbox[h], u)
      /\ \A u : u # "abort" /\ Has(inbox[h], u) => Has(inbox'[h], u)
      /\ \A u, v : NoneAfter(inbox[h], u, v) => NoneAfter(inbox'[h], u, v)
      /\ \A v : NoneAfter(inbox[h], "abort", v) => ~Has(inbox'[h], v)
  <2>1. Handles(h, "abort")
    BY DEF HubAbortFails
  <2>2. /\ inbox' \in [Hubs -> Seq(InMsgs)] /\ \A k \in Hubs \ {h} : inbox'[k] = inbox[k]
        /\ Has(inbox[h], "abort") /\ Head(inbox[h]) \in InMsgs
        /\ \A u : Has(inbox'[h], u) => Has(inbox[h], u)
        /\ \A u : u # "abort" /\ Has(inbox[h], u) => Has(inbox'[h], u)
        /\ \A u, v : NoneAfter(inbox[h], u, v) => NoneAfter(inbox'[h], u, v)
        /\ \A v : NoneAfter(inbox[h], "abort", v) => ~Has(inbox'[h], v)
    BY <1>1, <2>1, Handled, ZenonT(60)
  <2>3. /\ InBounded(inbox'[h], sup.pepoch, sup.bepoch)
        /\ "abort" \in {"promote", "abort"} => Head(inbox[h]).n <= sup.pepoch
    BY <1>1, <2>1, Handled, Zenon DEF EpochsBounded
  <2>. QED  BY <2>2, <2>3 DEF InMsgs
<1>2. Running(h) /\ Claimant(h) /\ ~Quiet(h) /\ ~Steady(h)
  BY <1>1, <1>4 DEF Running, Claimant, Quiet, Steady
<1>5. CASE TRUE
  <2>1. hub' = [hub EXCEPT ![h].draining = TRUE, ![h].fenced = hub[h].op # "idle"]
    BY <1>1, <1>5 DEF HubAbortFails, Owning, Disowning
  <2>2. /\ hub' \in [Hubs -> HubRecs] /\ \A k \in Hubs \ {h} : hub'[k] = hub[k]
        /\ UNCHANGED <<hub[h].st, hub[h].question, hub[h].profile, hub[h].abort, hub[h].ep, hub[h].grant, hub[h].ctl>>
        /\ hub'[h].op = hub[h].op
    BY <1>1, <1>4, <2>1 DEF HubRecs
  <2>3. Say(h, Msg("rb-failed", 0, FALSE))
    BY <1>1, <1>5 DEF HubAbortFails
  <2>4. Msg("rb-failed", 0, FALSE) \in OutMsgs /\ Msg("rb-failed", 0, FALSE).type = "rb-failed"
        /\ Msg("rb-failed", 0, FALSE).n = 0
    BY <1>1 DEF Msg, OutMsgs, OutTypes, HubRecs
  <2>5. /\ outbox' \in [Hubs -> Seq(OutMsgs)] /\ \A k \in Hubs \ {h} : outbox'[k] = outbox[k]
        /\ Has(outbox'[h], "released") <=> Has(outbox[h], "released")
        /\ \A n : /\ HasN(outbox'[h], "promoted", n) <=> HasN(outbox[h], "promoted", n)
                  /\ HasN(outbox'[h], "rebound", n) <=> HasN(outbox[h], "rebound", n)
                  /\ NoneAfterN(outbox[h], "rebound", n, "released")
                     => NoneAfterN(outbox'[h], "rebound", n, "released")
        /\ OutBounded(outbox'[h], sup.pepoch)
    BY <1>1, <2>3, <2>4, Said DEF EpochsBounded
  <2>6. Shape' /\ EpochsBounded(h)'
    BY <1>1, <1>3, <1>4, <2>2, <2>5 DEF Shape, EpochsBounded
  <2>7. Drained(h) => Drained(h)'
    BY <1>1, <1>4, <1>5, <2>2, <2>5 DEF Drained
  <2>8. Promoted(h) => Promoted(h)'
    BY <1>1, <1>4, <1>5, <2>2, <2>5 DEF Promoted
  <2>9. Rebound(h) => Rebound(h)'
    BY <1>1, <1>4, <1>5, <2>2, <2>5 DEF Rebound
  <2>. QED  BY <1>1, <1>2, <1>4, <2>2, <2>5, <2>6, <2>7, <2>8, <2>9, ClaimantStep
<1>. QED  BY <1>5

LEMMA AbortRebindsOK ==
  ASSUME IInv, NEW h \in Hubs, AbortRebinds(h)
  PROVE  IInv'
<1>1. /\ Shape /\ EpochsBounded(h) /\ hub[h] \in HubRecs /\ hub \in [Hubs -> HubRecs]
      /\ faults \in 0..MaxFaults /\ sup.pepoch \in Nat /\ sup.bepoch \in Nat
      /\ sup' = sup /\ flips' = flips /\ hub[h].st = "up" /\ hub[h].op = "idle" /\ hub[h].abort
  BY HubFacts DEF AbortRebinds, Handles
<1>2. Running(h) /\ Claimant(h) /\ ~Quiet(h) /\ ~Steady(h)
  BY <1>1 DEF Running, Claimant, Quiet, Steady
<1>3. faults' \in 0..MaxFaults
  BY <1>1, FlipAssumption DEF AbortRebinds, Fault
<1>4. /\ inbox' = inbox /\ inbox' \in [Hubs -> Seq(InMsgs)]
      /\ InBounded(inbox'[h], sup.pepoch, sup.bepoch)
  BY <1>1 DEF AbortRebinds, Shape, EpochsBounded
<1>5. CASE (hub[h].port = "pub" /\ hub[h].grant > hub[h].ep) \/ Claimable(h)
  <2>1. hub' = [hub EXCEPT ![h] = Owning(@, hub[h].grant)]
    BY <1>1, <1>5 DEF AbortRebinds, Owning, Disowning
  <2>2. /\ hub' \in [Hubs -> HubRecs] /\ \A k \in Hubs \ {h} : hub'[k] = hub[k]
        /\ UNCHANGED <<hub[h].st, hub[h].ctl>> /\ hub'[h].question /\ hub'[h].profile
        /\ hub'[h].op = "idle" /\ ~hub'[h].abort /\ hub'[h].ep = hub[h].grant /\ hub'[h].grant = 0
    BY <1>1, <1>4, <2>1, OwningOK
  <2>3. Say(h, Msg("rebound", hub[h].grant, TRUE))
    BY <1>1, <1>5 DEF AbortRebinds
  <2>4. Msg("rebound", hub[h].grant, TRUE) \in OutMsgs /\ Msg("rebound", hub[h].grant, TRUE).type = "rebound"
        /\ Msg("rebound", hub[h].grant, TRUE).n = hub[h].grant
    BY <1>1 DEF Msg, OutMsgs, OutTypes, HubRecs
  <2>5. /\ outbox' \in [Hubs -> Seq(OutMsgs)] /\ \A k \in Hubs \ {h} : outbox'[k] = outbox[k]
        /\ Has(outbox'[h], "released") <=> Has(outbox[h], "released")
        /\ \A n : /\ HasN(outbox'[h], "promoted", n) <=> HasN(outbox[h], "promoted", n)
                  /\ HasN(outbox'[h], "rebound", n) <=> HasN(outbox[h], "rebound", n) \/ n = hub[h].grant
                  /\ NoneAfterN(outbox[h], "rebound", n, "released")
                     => NoneAfterN(outbox'[h], "rebound", n, "released")
        /\ OutBounded(outbox'[h], sup.pepoch)
    BY <1>1, <2>3, <2>4, Said DEF EpochsBounded
  <2>6. Shape' /\ EpochsBounded(h)'
    BY <1>1, <1>3, <1>4, <2>2, <2>5 DEF Shape, EpochsBounded
  <2>7. Drained(h) => Drained(h)'
    BY <1>1, <1>4, <1>5, <2>2, <2>5 DEF Drained
  <2>8. Promoted(h) => Promoted(h)'
    BY <1>1, <1>4, <1>5, <2>2, <2>5 DEF Promoted
  <2>9. Rebound(h) => Rebound(h)'
    BY <1>1, <1>4, <1>5, <2>2, <2>5 DEF Rebound
  <2>. QED  BY <1>1, <1>2, <1>4, <2>2, <2>5, <2>6, <2>7, <2>8, <2>9, ClaimantStep
<1>6. CASE ~((hub[h].port = "pub" /\ hub[h].grant > hub[h].ep) \/ Claimable(h))
  <2>1. hub' = [hub EXCEPT ![h] = Disowning(@)]
    BY <1>1, <1>6 DEF AbortRebinds, Owning, Disowning
  <2>2. /\ hub' \in [Hubs -> HubRecs] /\ \A k \in Hubs \ {h} : hub'[k] = hub[k]
        /\ UNCHANGED <<hub[h].st, hub[h].ep, hub[h].ctl>> /\ ~hub'[h].question /\ ~hub'[h].profile
        /\ hub'[h].op = "idle" /\ ~hub'[h].abort /\ hub'[h].grant = 0
    BY <1>1, <1>4, <2>1, OwningOK
  <2>3. Say(h, Msg("rb-failed", 0, FALSE))
    BY <1>1, <1>6 DEF AbortRebinds
  <2>4. Msg("rb-failed", 0, FALSE) \in OutMsgs /\ Msg("rb-failed", 0, FALSE).type = "rb-failed"
        /\ Msg("rb-failed", 0, FALSE).n = 0
    BY <1>1 DEF Msg, OutMsgs, OutTypes, HubRecs
  <2>5. /\ outbox' \in [Hubs -> Seq(OutMsgs)] /\ \A k \in Hubs \ {h} : outbox'[k] = outbox[k]
        /\ Has(outbox'[h], "released") <=> Has(outbox[h], "released")
        /\ \A n : /\ HasN(outbox'[h], "promoted", n) <=> HasN(outbox[h], "promoted", n)
                  /\ HasN(outbox'[h], "rebound", n) <=> HasN(outbox[h], "rebound", n)
                  /\ NoneAfterN(outbox[h], "rebound", n, "released")
                     => NoneAfterN(outbox'[h], "rebound", n, "released")
        /\ OutBounded(outbox'[h], sup.pepoch)
    BY <1>1, <2>3, <2>4, Said DEF EpochsBounded
  <2>6. Shape' /\ EpochsBounded(h)'
    BY <1>1, <1>3, <1>4, <2>2, <2>5 DEF Shape, EpochsBounded
  <2>7. Drained(h) => Drained(h)'
    BY <1>1, <1>4, <1>6, <2>2, <2>5 DEF Drained
  <2>8. Promoted(h) => Promoted(h)'
    BY <1>1, <1>4, <1>6, <2>2, <2>5 DEF Promoted
  <2>9. Rebound(h) => Rebound(h)'
    BY <1>1, <1>4, <1>6, <2>2, <2>5 DEF Rebound
  <2>. QED  BY <1>1, <1>2, <1>4, <2>2, <2>5, <2>6, <2>7, <2>8, <2>9, ClaimantStep
<1>. QED  BY <1>5, <1>6

LEMMA AbortFailsOK ==
  ASSUME IInv, NEW h \in Hubs, AbortFails(h)
  PROVE  IInv'
<1>1. /\ Shape /\ EpochsBounded(h) /\ hub[h] \in HubRecs /\ hub \in [Hubs -> HubRecs]
      /\ faults \in 0..MaxFaults /\ sup.pepoch \in Nat /\ sup.bepoch \in Nat
      /\ sup' = sup /\ flips' = flips /\ hub[h].st = "up" /\ hub[h].op = "idle" /\ hub[h].abort
  BY HubFacts DEF AbortFails, Handles
<1>2. Running(h) /\ Claimant(h) /\ ~Quiet(h) /\ ~Steady(h)
  BY <1>1 DEF Running, Claimant, Quiet, Steady
<1>3. faults' \in 0..MaxFaults
  BY <1>1, FlipAssumption DEF AbortFails, Fault
<1>4. /\ inbox' = inbox /\ inbox' \in [Hubs -> Seq(InMsgs)]
      /\ InBounded(inbox'[h], sup.pepoch, sup.bepoch)
  BY <1>1 DEF AbortFails, Shape, EpochsBounded
<1>5. CASE TRUE
  <2>1. hub' = [hub EXCEPT ![h] = Disowning(@)]
    BY <1>1, <1>5 DEF AbortFails, Owning, Disowning
  <2>2. /\ hub' \in [Hubs -> HubRecs] /\ \A k \in Hubs \ {h} : hub'[k] = hub[k]
        /\ UNCHANGED <<hub[h].st, hub[h].ep, hub[h].ctl>> /\ ~hub'[h].question /\ ~hub'[h].profile
        /\ hub'[h].op = "idle" /\ ~hub'[h].abort /\ hub'[h].grant = 0
    BY <1>1, <1>4, <2>1, OwningOK
  <2>3. Say(h, Msg("rb-failed", 0, FALSE))
    BY <1>1, <1>5 DEF AbortFails
  <2>4. Msg("rb-failed", 0, FALSE) \in OutMsgs /\ Msg("rb-failed", 0, FALSE).type = "rb-failed"
        /\ Msg("rb-failed", 0, FALSE).n = 0
    BY <1>1 DEF Msg, OutMsgs, OutTypes, HubRecs
  <2>5. /\ outbox' \in [Hubs -> Seq(OutMsgs)] /\ \A k \in Hubs \ {h} : outbox'[k] = outbox[k]
        /\ Has(outbox'[h], "released") <=> Has(outbox[h], "released")
        /\ \A n : /\ HasN(outbox'[h], "promoted", n) <=> HasN(outbox[h], "promoted", n)
                  /\ HasN(outbox'[h], "rebound", n) <=> HasN(outbox[h], "rebound", n)
                  /\ NoneAfterN(outbox[h], "rebound", n, "released")
                     => NoneAfterN(outbox'[h], "rebound", n, "released")
        /\ OutBounded(outbox'[h], sup.pepoch)
    BY <1>1, <2>3, <2>4, Said DEF EpochsBounded
  <2>6. Shape' /\ EpochsBounded(h)'
    BY <1>1, <1>3, <1>4, <2>2, <2>5 DEF Shape, EpochsBounded
  <2>7. Drained(h) => Drained(h)'
    BY <1>1, <1>4, <1>5, <2>2, <2>5 DEF Drained
  <2>8. Promoted(h) => Promoted(h)'
    BY <1>1, <1>4, <1>5, <2>2, <2>5 DEF Promoted
  <2>9. Rebound(h) => Rebound(h)'
    BY <1>1, <1>4, <1>5, <2>2, <2>5 DEF Rebound
  <2>. QED  BY <1>1, <1>2, <1>4, <2>2, <2>5, <2>6, <2>7, <2>8, <2>9, ClaimantStep
<1>. QED  BY <1>5

-----------------------------------------------------------------------------
(* The steps of the supervisor. *)

\* What hearing a message does to the outbox of hub h.
LEMMA Heard ==
  ASSUME Shape, NEW h \in Hubs, NEW type, Hears(h, type)
  PROVE  /\ outbox' \in [Hubs -> Seq(OutMsgs)] /\ \A k \in Hubs \ {h} : outbox'[k] = outbox[k]
         /\ outbox[h] # << >> /\ outbox'[h] = Tail(outbox[h])
         /\ Head(outbox[h]) \in OutMsgs /\ Has(outbox[h], type)
         /\ HasN(outbox[h], type, Head(outbox[h]).n)
         /\ \A n, u : NoneAfterN(outbox[h], type, n, u) /\ Head(outbox[h]).n = n
                      => ~Has(outbox'[h], u)
<1>1. outbox[h] \in Seq(OutMsgs) /\ outbox[h] # << >> /\ outbox'[h] = Tail(outbox[h])
      /\ Head(outbox[h]).type = type
  BY DEF Hears, Shape
<1>2. outbox' \in [Hubs -> Seq(OutMsgs)] /\ \A k \in Hubs \ {h} : outbox'[k] = outbox[k]
  BY <1>1 DEF Hears, Shape
<1>. QED  BY <1>1, <1>2, HasHead, NoneAfterNTail

LEMMA SentOK ==
  ASSUME hub \in [Hubs -> HubRecs], NEW f \in [Hubs -> Seq(InMsgs)], NEW h \in Hubs,
         NEW m \in InMsgs
  PROVE  /\ Sent(f, h, m) \in [Hubs -> Seq(InMsgs)]
         /\ \A k \in Hubs \ {h} : Sent(f, h, m)[k] = f[k]
         /\ Sent(f, h, m)[h] = IF Running(h) THEN Append(f[h], m) ELSE f[h]
<1>1. Append(f[h], m) \in Seq(InMsgs)
  OBVIOUS
<1>. QED  BY <1>1 DEF Sent

LEMMA KilledOK ==
  ASSUME hub \in [Hubs -> HubRecs], NEW S
  PROVE  /\ Killed(hub, S) \in [Hubs -> HubRecs]
         /\ \A k \in Hubs :
              /\ k \notin S => Killed(hub, S)[k] = hub[k]
              /\ k \in S => Killed(hub, S)[k].st \in {"dead", "killed"}
              /\ \/ Killed(hub, S)[k] = hub[k]
                 \/ Running(k) /\ Killed(hub, S)[k] = [hub[k] EXCEPT !.st = "killed"]
<1>1. \A k \in Hubs : hub[k] \in HubRecs /\ [hub[k] EXCEPT !.st = "killed"] \in HubRecs
                      /\ [hub[k] EXCEPT !.st = "killed"].st = "killed"
                      /\ hub[k].st \in {"dead", "boot", "up", "killed"}
  BY DEF HubRecs
<1>. QED  BY <1>1 DEF Killed, Running

LEMMA EmptiedOK ==
  ASSUME NEW M, NEW f \in [Hubs -> Seq(M)], NEW S
  PROVE  /\ Emptied(f, S) \in [Hubs -> Seq(M)]
         /\ \A k \in Hubs : Emptied(f, S)[k] = IF k \in S THEN << >> ELSE f[k]
<1>1. << >> \in Seq(M)
  OBVIOUS
<1>. QED  BY <1>1 DEF Emptied

LEMMA KillOK ==
  ASSUME Shape, NEW S, Kill(S)
  PROVE  /\ hub' \in [Hubs -> HubRecs] /\ inbox' \in [Hubs -> Seq(InMsgs)]
         /\ \A k \in Hubs :
              /\ k \notin S => hub'[k] = hub[k] /\ inbox'[k] = inbox[k]
              /\ k \in S => ~Running(k)' /\ inbox'[k] = << >>
              /\ hub'[k] = hub[k] \/ (Running(k) /\ hub'[k] = [hub[k] EXCEPT !.st = "killed"])
<1>1. hub \in [Hubs -> HubRecs] /\ inbox \in [Hubs -> Seq(InMsgs)]
  BY DEF Shape
<1>2. hub' = Killed(hub, S) /\ inbox' = Emptied(inbox, S)
  BY DEF Kill
<1>3. /\ inbox' \in [Hubs -> Seq(InMsgs)]
      /\ \A k \in Hubs : inbox'[k] = IF k \in S THEN << >> ELSE inbox[k]
  BY <1>1, <1>2, EmptiedOK
<1>4. /\ hub' \in [Hubs -> HubRecs]
      /\ \A k \in Hubs :
           /\ k \notin S => hub'[k] = hub[k]
           /\ k \in S => hub'[k].st \in {"dead", "killed"}
           /\ hub'[k] = hub[k] \/ (Running(k) /\ hub'[k] = [hub[k] EXCEPT !.st = "killed"])
  BY <1>1, <1>2, KilledOK
<1>. QED  BY <1>3, <1>4 DEF Running

\* What hub k keeps when the supervisor does no more than kill it, read an answer of
\* it or send it a message about backups or its retirement.
Passive(k) ==
  /\ hub'[k] = hub[k] \/ (Running(k) /\ hub'[k] = [hub[k] EXCEPT !.st = "killed"])
  /\ \/ outbox'[k] = outbox[k] \/ outbox'[k] = << >>
     \/ outbox[k] # << >> /\ outbox'[k] = Tail(outbox[k])
  /\ \/ inbox'[k] = inbox[k] \/ inbox'[k] = << >>
     \/ \E m \in InMsgs : /\ inbox'[k] = Append(inbox[k], m)
                          /\ m.type \in {"pause", "resume", "retire"}
                          /\ m.type # "retire" => m.n <= sup'.bepoch
EpochsGrow ==
  /\ sup.pepoch <= sup'.pepoch /\ sup.bepoch <= sup'.bepoch
  /\ sup'.pepoch \in Nat /\ sup'.bepoch \in Nat

LEMMA OutboxTail ==
  ASSUME IInv, NEW k \in Hubs, EpochsGrow, Passive(k)
  PROVE  /\ Has(outbox'[k], "released") => Has(outbox[k], "released")
         /\ \A n : /\ HasN(outbox'[k], "promoted", n) => HasN(outbox[k], "promoted", n)
                   /\ HasN(outbox'[k], "rebound", n) => HasN(outbox[k], "rebound", n)
                   /\ NoneAfterN(outbox[k], "rebound", n, "released")
                      => NoneAfterN(outbox'[k], "rebound", n, "released")
         /\ OutBounded(outbox'[k], sup'.pepoch)
<1>1. /\ outbox[k] \in Seq(OutMsgs) /\ OutBounded(outbox[k], sup.pepoch) /\ sup.pepoch \in Nat
      /\ sup'.pepoch \in Nat /\ sup.pepoch <= sup'.pepoch
  BY HubFacts DEF Shape, EpochsBounded, EpochsGrow
<1>2. OutBounded(outbox[k], sup'.pepoch)
  BY <1>1, OutBoundedStep
<1>3. CASE outbox'[k] = outbox[k]
  BY <1>2, <1>3
<1>4. CASE outbox'[k] = << >>
  BY <1>4, HasEmpty, NoneAfterEmpty, BoundedEmpty
<1>5. CASE outbox[k] # << >> /\ outbox'[k] = Tail(outbox[k])
  BY <1>1, <1>2, <1>5, HasTail, HasNTail, NoneAfterNTail, OutBoundedStep
<1>. QED  BY <1>3, <1>4, <1>5 DEF Passive

LEMMA InboxAside ==
  ASSUME IInv, NEW k \in Hubs, EpochsGrow, Passive(k)
  PROVE  /\ \A t \in {"drain", "promote", "abort"} : Has(inbox'[k], t) => Has(inbox[k], t)
         /\ InBounded(inbox'[k], sup'.pepoch, sup'.bepoch)
<1>1. /\ inbox[k] \in Seq(InMsgs) /\ InBounded(inbox[k], sup.pepoch, sup.bepoch)
      /\ sup.pepoch \in Nat /\ sup.bepoch \in Nat
  BY HubFacts DEF Shape, EpochsBounded
<1>2. InBounded(inbox[k], sup'.pepoch, sup'.bepoch)
  BY <1>1, InBoundedStep DEF EpochsGrow
<1>3. CASE inbox'[k] = inbox[k]
  BY <1>2, <1>3
<1>4. CASE inbox'[k] = << >>
  BY <1>4, HasEmpty, BoundedEmpty
<1>5. ASSUME NEW m \in InMsgs, inbox'[k] = Append(inbox[k], m),
             m.type \in {"pause", "resume", "retire"}, m.type # "retire" => m.n <= sup'.bepoch
      PROVE  /\ \A t \in {"drain", "promote", "abort"} : Has(inbox'[k], t) => Has(inbox[k], t)
             /\ InBounded(inbox'[k], sup'.pepoch, sup'.bepoch)
  <2>1. \A t : Has(inbox'[k], t) <=> Has(inbox[k], t) \/ m.type = t
    BY <1>1, <1>5, HasAppend
  <2>2. InBounded(inbox'[k], sup'.pepoch, sup'.bepoch)
    BY <1>1, <1>2, <1>5, InBoundedStep, SMTT(60) DEF EpochsGrow
  <2>. QED  BY <1>5, <2>1, <2>2
<1>. QED  BY <1>3, <1>4, <1>5 DEF Passive

LEMMA PassiveOK ==
  ASSUME IInv, NEW k \in Hubs, EpochsGrow, Passive(k)
  PROVE  /\ EpochsBounded(k)'
         /\ Running(k)' => Running(k) /\ hub'[k] = hub[k]
         /\ Claimant(k)' => Claimant(k)
         /\ Running(k)' /\ Steady(k) => Steady(k)'
         /\ hub[k].st = "dead" => hub'[k].st = "dead"
<1>1. /\ hub[k] \in HubRecs /\ hub[k].ep <= sup.pepoch /\ hub[k].grant <= sup.pepoch
      /\ hub[k].ctl <= sup.bepoch /\ sup.pepoch \in Nat /\ sup.bepoch \in Nat
      /\ hub[k].ep \in Nat /\ hub[k].grant \in Nat /\ hub[k].ctl \in Nat
  BY HubFacts DEF EpochsBounded, HubRecs
<1>2. /\ hub'[k].ep = hub[k].ep /\ hub'[k].grant = hub[k].grant /\ hub'[k].ctl = hub[k].ctl
      /\ hub'[k].op = hub[k].op /\ hub'[k].abort = hub[k].abort
      /\ hub'[k].question = hub[k].question /\ hub'[k].profile = hub[k].profile
      /\ hub'[k].standby = hub[k].standby
      /\ hub'[k].st = hub[k].st \/ (hub'[k].st = "killed" /\ Running(k))
      /\ Running(k)' => hub'[k] = hub[k]
  BY <1>1 DEF Passive, HubRecs, Running
<1>3. EpochsBounded(k)'
  BY <1>1, <1>2, InboxAside, OutboxTail DEF EpochsBounded, EpochsGrow
<1>4. Claimant(k)' => Claimant(k)
  BY <1>2, InboxAside DEF Claimant, Quiet
<1>5. Running(k)' /\ Steady(k) => Steady(k)'
  BY <1>2, InboxAside, OutboxTail DEF Steady, Quiet
<1>. QED  BY <1>2, <1>3, <1>4, <1>5 DEF Running

\* Reading an answer changes nothing of a hub's part in the flip.
LEMMA ReadOK ==
  ASSUME IInv, NEW k \in Hubs, EpochsGrow, Passive(k), Running(k)',
         inbox'[k] = inbox[k], sup'.pepoch = sup.pepoch
  PROVE  /\ Drained(k) => Drained(k)'
         /\ Promoted(k) => Promoted(k)'
         /\ Rebound(k) => Rebound(k)'
<1>1. hub'[k] = hub[k]
  BY PassiveOK
<1>2. Drained(k) => Drained(k)'
  BY <1>1, OutboxTail DEF Drained
<1>3. Promoted(k) => Promoted(k)'
  BY <1>1, OutboxTail DEF Promoted
<1>4. Rebound(k) => Rebound(k)'
  BY <1>1, OutboxTail DEF Rebound
<1>. QED  BY <1>2, <1>3, <1>4

LEMMA OwnerIs ==
  /\ sup.flip \in {"ready", "pause", "released", "rebind", "resume"} => Owner = sup.blue
  /\ sup.flip \in {"promoted", "act"} => Owner = sup.green
  /\ sup.flip \in {"exit", "abandon"} => Owner = None
  /\ sup.flip \in {"idle", "poison"} =>
       /\ sup.boot = "no" => Owner = sup.live
       /\ sup.boot = "wait" => Owner = None
       /\ sup.boot \in {"ready", "act"} => Owner = sup.cand
BY DEF Owner

LEMMA OwnerIsNext ==
  /\ sup'.flip \in {"ready", "pause", "released", "rebind", "resume"} => Owner' = sup'.blue
  /\ sup'.flip \in {"promoted", "act"} => Owner' = sup'.green
  /\ sup'.flip \in {"exit", "abandon"} => Owner' = None
  /\ sup'.flip \in {"idle", "poison"} =>
       /\ sup'.boot = "no" => Owner' = sup'.live
       /\ sup'.boot = "wait" => Owner' = None
       /\ sup'.boot \in {"ready", "act"} => Owner' = sup'.cand
BY DEF Owner

\* A step of the supervisor under which every hub is passive.
LEMMA SupStep ==
  ASSUME IInv, Shape', SupOK', EpochsGrow, \A k \in Hubs : Passive(k),
         \A k \in sup'.seen : hub'[k].st = "dead" /\ outbox'[k] = << >>,
         sup'.poison = "stop" => \A k \in Hubs : ~Running(k)',
         \A k \in Hubs : Running(k)' /\ Claimant(k)' /\ k = Owner => k = Owner',
         \A k \in Hubs : Running(k)' /\ k = Owner' => Phase(k)',
         \A k \in Hubs :
           Running(k)' /\ sup'.flip \in {"ready", "pause", "released"} /\ k = sup'.green
           => ~Has(outbox[k], "released")
  PROVE  IInv'
<1>1. ASSUME NEW k \in Hubs
      PROVE  HubOK(k)'
  <2>1. HubOK(k) /\ Passive(k)
    BY DEF IInv
  <2>2. Running(k)' /\ Claimant(k)' => k = Owner'
    BY <2>1, PassiveOK DEF HubOK
  <2>3. /\ Running(k)' /\ sup'.flip \in {"ready", "pause", "released"} /\ k = sup'.green
        => ~Has(outbox[k], "released")'
    BY <2>1, OutboxTail
  <2>. QED  BY <2>1, <2>2, <2>3, PassiveOK DEF HubOK
<1>. QED  BY <1>1 DEF IInv

\* ... and goes on with the flip as before.
LEMMA SameFlipStep ==
  ASSUME IInv, Shape', SupOK', EpochsGrow, \A k \in Hubs : Passive(k), inbox' = inbox,
         UNCHANGED <<sup.pepoch, sup.flip, sup.poison, sup.blue, sup.green>>,
         \A k \in sup'.seen : hub'[k].st = "dead" /\ outbox'[k] = << >>,
         \A k \in Hubs : Running(k)' => (k = Owner' <=> k = Owner)
  PROVE  IInv'
<1>1. \A k \in Hubs : HubOK(k)
  BY DEF IInv
<1>2. ASSUME NEW k \in Hubs, Running(k)', k = Owner'
      PROVE  Phase(k)'
  <2>1. Running(k) /\ k = Owner /\ Passive(k)
    BY <1>2, PassiveOK
  <2>2. Phase(k)
    BY <1>1, <2>1 DEF HubOK
  <2>. QED  BY <1>2, <2>1, <2>2, PassiveOK, ReadOK DEF Phase
<1>3. sup'.poison = "stop" => \A k \in Hubs : ~Running(k)'
  BY <1>1, PassiveOK DEF HubOK
<1>4. ASSUME NEW k \in Hubs, Running(k)', sup'.flip \in {"ready", "pause", "released"},
             k = sup'.green
      PROVE  ~Has(outbox[k], "released")
  BY <1>1, <1>4, PassiveOK DEF HubOK
<1>. QED  BY <1>2, <1>3, <1>4, SupStep

\* ... and every hub it does not leave alone is killed or dead; the flip settles.
LEMMA SteadyStep ==
  ASSUME IInv, Shape', SupOK', EpochsGrow, \A k \in Hubs : Passive(k),
         sup'.flip \in {"idle", "poison", "pause", "act", "resume", "exit", "abandon"},
         \A k \in sup'.seen : hub'[k].st = "dead" /\ outbox'[k] = << >>,
         sup'.poison = "stop" => \A k \in Hubs : ~Running(k)',
         \A k \in Hubs : Running(k)' /\ Claimant(k)' /\ k = Owner => k = Owner',
         \A k \in Hubs : Running(k)' /\ k = Owner' => Steady(k)',
         sup'.flip = "pause" => sup.flip = "ready" /\ sup'.green = sup.green
  PROVE  IInv'
<1>1. \A k \in Hubs : Running(k)' /\ k = Owner' => Phase(k)'
  BY DEF Phase
<1>2. ASSUME NEW k \in Hubs, Running(k)', sup'.flip \in {"ready", "pause", "released"},
             k = sup'.green
      PROVE  ~Has(outbox[k], "released")
  BY <1>2, PassiveOK DEF IInv, HubOK
<1>. QED  BY <1>1, <1>2, SupStep

LEMMA SupFacts ==
  IInv => /\ Shape /\ SupOK /\ sup \in SupRecs /\ sup.pepoch \in Nat /\ sup.bepoch \in Nat
          /\ hub \in [Hubs -> HubRecs] /\ inbox \in [Hubs -> Seq(InMsgs)]
          /\ outbox \in [Hubs -> Seq(OutMsgs)] /\ None \notin Hubs
          /\ faults \in 0..MaxFaults /\ flips \in 0..MaxFlips
          /\ \A k \in Hubs : HubOK(k) /\ (k \in sup.seen => hub[k].st = "dead" /\ outbox[k] = << >>)
BY FlipAssumption DEF IInv, Shape, SupRecs, HubOK

LEMMA HearingOK ==
  ASSUME IInv, NEW h \in Hubs, Exit(h) \/ Ignore(h)
  PROVE  IInv'
<1>1. CASE Ignore(h)
  <2>1. /\ outbox[h] # << >> /\ outbox' = [outbox EXCEPT ![h] = Tail(@)]
        /\ UNCHANGED <<hub, inbox, sup, faults, flips>>
    BY <1>1 DEF Ignore
  <2>2. Shape' /\ SupOK' /\ EpochsGrow
    <3>1. Tail(outbox[h]) \in Seq(OutMsgs)
      BY <2>1, SupFacts
    <3>. QED  BY <2>1, <3>1, SupFacts DEF Shape, SupOK, InFlip, EpochsGrow
  <2>3. \A k \in Hubs : Passive(k)
    BY <2>1, SupFacts DEF Passive
  <2>4. Owner' = Owner
    BY <2>1 DEF Owner
  <2>5. /\ inbox' = inbox
        /\ UNCHANGED <<sup.pepoch, sup.flip, sup.poison, sup.blue, sup.green>>
        /\ \A k \in sup'.seen : hub'[k].st = "dead" /\ outbox'[k] = << >>
    BY <2>1, SupFacts DEF SupRecs
  <2>. QED  BY <2>2, <2>3, <2>4, <2>5, SameFlipStep
<1>2. CASE Exit(h)
  <2>1. /\ hub[h].st = "dead" /\ h \notin sup.seen /\ outbox' = [outbox EXCEPT ![h] = << >>]
        /\ UNCHANGED <<hub, inbox, faults, flips>>
    BY <1>2 DEF Exit
  <2>2. /\ sup' \in SupRecs /\ sup'.seen = sup.seen \cup {h}
        /\ UNCHANGED <<sup.pepoch, sup.bepoch, sup.flip, sup.poison, sup.blue, sup.green,
                       sup.mayOwn, sup.retired, sup.cand, sup.epochOf>>
        /\ \/ UNCHANGED <<sup.live, sup.boot>> /\ (sup.live # h \/ h \in sup.retired)
           \/ /\ sup.live = h /\ sup'.live = None
              /\ sup'.boot = sup.boot \/ (sup'.boot = "wait" /\ sup.flip = "idle"
                                         /\ sup.poison = "no")
    <3>. DEFINE lost == sup.live = h /\ h \notin sup.retired
                revive == lost /\ sup.poison = "no" /\ sup.flip = "idle" /\ ~sup.reviving
    <3>1. CASE ~lost
      <4>1. sup' = [sup EXCEPT !.seen = @ \cup {h}]
        BY <1>2, <3>1 DEF Exit
      <4>. QED  BY <3>1, <4>1, SupFacts DEF SupRecs
    <3>2. CASE lost
      <4>1. sup' = [sup EXCEPT !.seen = @ \cup {h}, !.live = None,
                               !.pending = @ \/ (sup.poison = "no" /\ sup.flip # "idle"),
                               !.reviving = @ \/ revive,
                               !.boot = IF revive THEN "wait" ELSE @]
        BY <1>2, <3>2, SupFacts DEF Exit, SupRecs
      <4>2. PICK q \in BOOLEAN, r \in BOOLEAN, b \in {"no", "wait", "ready", "act"} :
              /\ sup' = [sup EXCEPT !.seen = @ \cup {h}, !.live = None, !.pending = q,
                                    !.reviving = r, !.boot = b]
              /\ b = sup.boot \/ (b = "wait" /\ sup.flip = "idle" /\ sup.poison = "no")
        <5>1. /\ (sup.pending \/ (sup.poison = "no" /\ sup.flip # "idle")) \in BOOLEAN
              /\ (sup.reviving \/ revive) \in BOOLEAN
          OBVIOUS
        <5>2. /\ (IF revive THEN "wait" ELSE sup.boot) \in {"no", "wait", "ready", "act"}
              /\ \/ (IF revive THEN "wait" ELSE sup.boot) = sup.boot
                 \/ /\ (IF revive THEN "wait" ELSE sup.boot) = "wait"
                    /\ sup.flip = "idle" /\ sup.poison = "no"
          BY SupFacts DEF SupRecs
        <5>. HIDE DEF revive
        <5>. QED  BY <4>1, <5>1, <5>2, Zenon
      <4>. QED  BY <3>2, <4>2, SupFacts DEF SupRecs, Somebody
    <3>. QED  BY <3>1, <3>2
  <2>3. Shape'
    <3>1. << >> \in Seq(OutMsgs)
      OBVIOUS
    <3>. QED  BY <2>1, <2>2, <3>1, SupFacts DEF Shape
  <2>4. SupOK'
    BY <2>1, <2>2, SupFacts DEF SupOK, InFlip, Forward, Backward
  <2>5. EpochsGrow /\ \A k \in Hubs : Passive(k)
    BY <2>1, <2>2, SupFacts DEF EpochsGrow, Passive
  <2>6. ASSUME NEW k \in Hubs, Running(k)'
        PROVE  k = Owner' <=> k = Owner
    <3>1. k # h
      BY <2>1, <2>6 DEF Running
    <3>2. CASE sup.flip \in Forward \cup Backward
      BY <2>2, <3>2, OwnerIs, OwnerIsNext DEF Forward, Backward
    <3>3. CASE sup.flip \in {"idle", "poison"} /\ sup'.boot = sup.boot
      BY <2>2, <3>1, <3>3, SupFacts, OwnerIs, OwnerIsNext, <2>6 DEF SupRecs
    <3>4. CASE sup.flip = "idle" /\ sup'.boot # sup.boot
      <4>1. sup.boot = "no" /\ Owner = sup.live /\ Owner' = None
        BY <2>2, <3>4, SupFacts, OwnerIs, OwnerIsNext DEF SupOK, SupRecs
      <4>. QED  BY <2>2, <3>1, <3>4, <4>1, SupFacts
    <3>. QED  BY <2>2, <3>2, <3>3, <3>4, SupFacts DEF SupRecs
  <2>7. \A k \in sup'.seen : hub'[k].st = "dead" /\ outbox'[k] = << >>
    BY <2>1, <2>2, SupFacts DEF SupRecs
  <2>. QED  BY <2>1, <2>2, <2>3, <2>4, <2>5, <2>6, <2>7, SameFlipStep
<1>. QED  BY <1>1, <1>2

\* The supervisor reads at most one answer of each hub.
Reads ==
  /\ outbox' \in [Hubs -> Seq(OutMsgs)]
  /\ \A k \in Hubs : \/ outbox'[k] = outbox[k]
                     \/ outbox[k] # << >> /\ outbox'[k] = Tail(outbox[k])

LEMMA HearsReads ==
  ASSUME IInv, NEW h \in Hubs, NEW type, Hears(h, type)
  PROVE  Reads /\ outbox[h] # << >> /\ h \notin sup.seen
<1>1. /\ outbox' \in [Hubs -> Seq(OutMsgs)] /\ \A k \in Hubs \ {h} : outbox'[k] = outbox[k]
      /\ outbox[h] # << >> /\ outbox'[h] = Tail(outbox[h])
  BY SupFacts, Heard
<1>. QED  BY <1>1, SupFacts DEF Reads

LEMMA StaysReads ==
  ASSUME IInv, outbox' = outbox
  PROVE  Reads
BY SupFacts DEF Reads

LEMMA SeenStay ==
  ASSUME IInv, Reads, \A k \in Hubs : Passive(k), sup'.seen \subseteq sup.seen
  PROVE  \A k \in sup'.seen : hub'[k].st = "dead" /\ outbox'[k] = << >>
<1>1. sup.seen \subseteq Hubs
  BY SupFacts DEF SupRecs
<1>2. ASSUME NEW k \in sup.seen
      PROVE  hub'[k].st = "dead" /\ outbox'[k] = << >>
  BY <1>1, <1>2, SupFacts DEF Reads, Passive, Running
<1>. QED  BY <1>2

LEMMA KillPassive ==
  ASSUME IInv, NEW S, Kill(S), Reads
  PROVE  /\ hub' \in [Hubs -> HubRecs] /\ inbox' \in [Hubs -> Seq(InMsgs)]
         /\ \A k \in Hubs : Passive(k) /\ (k \in S => ~Running(k)')
<1>1. ASSUME NEW k \in Hubs
      PROVE  Passive(k)
  <2>1. /\ hub'[k] = hub[k] \/ (Running(k) /\ hub'[k] = [hub[k] EXCEPT !.st = "killed"])
        /\ inbox'[k] = inbox[k] \/ inbox'[k] = << >>
    BY SupFacts, KillOK
  <2>2. \/ outbox'[k] = outbox[k]
        \/ outbox[k] # << >> /\ outbox'[k] = Tail(outbox[k])
    BY DEF Reads
  <2>. QED  BY <2>1, <2>2, Zenon DEF Passive
<1>. QED  BY <1>1, SupFacts, KillOK

LEMMA SendPassive ==
  ASSUME IInv, NEW h \in Hubs, NEW m \in InMsgs, hub' = hub, inbox' = Sent(inbox, h, m),
         m.type \in {"pause", "resume", "retire"}, m.type # "retire" => m.n <= sup'.bepoch,
         Reads
  PROVE  inbox' \in [Hubs -> Seq(InMsgs)] /\ \A k \in Hubs : Passive(k)
<1>1. /\ inbox' \in [Hubs -> Seq(InMsgs)]
      /\ \A k \in Hubs : inbox'[k] = inbox[k] \/ inbox'[k] = Append(inbox[k], m)
  <2>1. /\ Sent(inbox, h, m) \in [Hubs -> Seq(InMsgs)]
        /\ \A k \in Hubs \ {h} : Sent(inbox, h, m)[k] = inbox[k]
        /\ Sent(inbox, h, m)[h] = IF Running(h) THEN Append(inbox[h], m) ELSE inbox[h]
    BY SupFacts, SentOK, SMTT(60)
  <2>2. inbox' = Sent(inbox, h, m)
    OBVIOUS
  <2>. QED  BY <2>1, <2>2
<1>2. ASSUME NEW k \in Hubs
      PROVE  Passive(k)
  BY <1>1, Zenon DEF Passive, Reads
<1>. QED  BY <1>1, <1>2

LEMMA IdlePassive ==
  ASSUME IInv, hub' = hub, inbox' = inbox, Reads
  PROVE  \A k \in Hubs : Passive(k)
BY Zenon DEF Passive, Reads

\* What the operators on the supervisor's record do.
LEMMA EndFlipOK ==
  ASSUME NEW s \in SupRecs
  PROVE  /\ EndFlip(s) \in SupRecs /\ EndFlip(s).flip = "idle" /\ ~EndFlip(s).mayOwn
         /\ EndFlip(s).live = s.live /\ EndFlip(s).cand = s.cand
         /\ EndFlip(s).poison = s.poison /\ EndFlip(s).retired = s.retired
         /\ EndFlip(s).seen = s.seen /\ EndFlip(s).pepoch = s.pepoch
         /\ EndFlip(s).bepoch = s.bepoch /\ EndFlip(s).epochOf = s.epochOf
         /\ \/ EndFlip(s).boot = s.boot
            \/ EndFlip(s).boot = "wait" /\ s.poison = "no" /\ s.live = None
<1>1. PICK q \in BOOLEAN, r \in BOOLEAN :
        /\ EndFlip(s) = [s EXCEPT !.flip = "idle", !.blue = None, !.green = None,
                                  !.mayOwn = FALSE, !.pending = FALSE,
                                  !.reviving = r, !.boot = IF q THEN "wait" ELSE @]
        /\ q => s.poison = "no" /\ s.live = None
  <2>. DEFINE revive == s.poison = "no" /\ s.pending /\ s.live = None /\ ~s.reviving
  <2>1. revive \in BOOLEAN /\ (s.reviving \/ revive) \in BOOLEAN
        /\ (revive => s.poison = "no" /\ s.live = None)
    OBVIOUS
  <2>2. EndFlip(s) = [s EXCEPT !.flip = "idle", !.blue = None, !.green = None,
                               !.mayOwn = FALSE, !.pending = FALSE,
                               !.reviving = @ \/ revive, !.boot = IF revive THEN "wait" ELSE @]
    BY Zenon DEF EndFlip
  <2>. HIDE DEF revive
  <2>. QED  BY <2>1, <2>2, Zenon
<1>2. PICK b \in {"no", "wait", "ready", "act"} :
        /\ b = s.boot \/ (b = "wait" /\ s.poison = "no" /\ s.live = None)
        /\ EndFlip(s) = [s EXCEPT !.flip = "idle", !.blue = None, !.green = None,
                                  !.mayOwn = FALSE, !.pending = FALSE,
                                  !.reviving = r, !.boot = b]
  <2>1. s.boot \in {"no", "wait", "ready", "act"}
    BY DEF SupRecs
  <2>2. CASE q
    BY <1>1, <2>2
  <2>3. CASE ~q
    BY <1>1, <2>1, <2>3
  <2>. QED  BY <2>2, <2>3
<1>3. EndFlip(s) \in SupRecs
  BY <1>2, ZenonT(60) DEF SupRecs, Somebody
<1>4. /\ EndFlip(s).flip = "idle" /\ EndFlip(s).mayOwn = FALSE
      /\ EndFlip(s).live = s.live /\ EndFlip(s).cand = s.cand
      /\ EndFlip(s).poison = s.poison /\ EndFlip(s).retired = s.retired
      /\ EndFlip(s).seen = s.seen /\ EndFlip(s).pepoch = s.pepoch
      /\ EndFlip(s).bepoch = s.bepoch /\ EndFlip(s).epochOf = s.epochOf
      /\ EndFlip(s).boot = b
  BY <1>2 DEF SupRecs
<1>. QED  BY <1>2, <1>3, <1>4

LEMMA EndPoisonOK ==
  ASSUME NEW s \in SupRecs, s.poison # "no", s.flip = "idle" => ~s.mayOwn
  PROVE  /\ EndPoison(s) \in SupRecs /\ EndPoison(s).flip = "idle" /\ ~EndPoison(s).mayOwn
         /\ EndPoison(s).live = s.live /\ EndPoison(s).boot = "no"
         /\ EndPoison(s).poison = s.poison /\ EndPoison(s).retired = s.retired
         /\ EndPoison(s).seen = s.seen /\ EndPoison(s).pepoch = s.pepoch
         /\ EndPoison(s).bepoch = s.bepoch /\ EndPoison(s).epochOf = s.epochOf
<1>. DEFINE t == [s EXCEPT !.reviving = FALSE, !.boot = "no", !.cand = None]
<1>1. /\ t \in SupRecs /\ t.boot = "no" /\ t.live = s.live /\ t.poison = s.poison
      /\ t.retired = s.retired /\ t.seen = s.seen /\ t.pepoch = s.pepoch
      /\ t.bepoch = s.bepoch /\ t.epochOf = s.epochOf /\ t.flip = s.flip /\ t.mayOwn = s.mayOwn
  BY ZenonT(60) DEF SupRecs, Somebody
<1>2. EndPoison(s) = IF s.flip = "idle" THEN t ELSE EndFlip(t)
  BY DEF EndPoison
<1>. HIDE DEF t
<1>. QED  BY <1>1, <1>2, EndFlipOK

LEMMA OfflineOK ==
  ASSUME IInv, sup.flip \in {"idle", "poison"}
  PROVE  LET s == EndPoison([sup EXCEPT !.poison = "offline"])
         IN /\ s \in SupRecs /\ s.flip = "idle" /\ ~s.mayOwn /\ s.live = sup.live
            /\ s.boot = "no" /\ s.poison = "offline" /\ s.retired = sup.retired
            /\ s.seen = sup.seen /\ s.pepoch = sup.pepoch /\ s.bepoch = sup.bepoch
            /\ s.epochOf = sup.epochOf
<1>. DEFINE t == [sup EXCEPT !.poison = "offline"]
<1>1. /\ t \in SupRecs /\ t.live = sup.live /\ t.poison = "offline"
      /\ t.retired = sup.retired /\ t.seen = sup.seen /\ t.pepoch = sup.pepoch
      /\ t.bepoch = sup.bepoch /\ t.epochOf = sup.epochOf /\ ~t.mayOwn
  BY SupFacts DEF SupRecs, SupOK
<1>. HIDE DEF t
<1>2. EndPoison(t) \in SupRecs /\ EndPoison(t).poison = "offline"
      /\ EndPoison(t).flip = "idle" /\ ~EndPoison(t).mayOwn /\ EndPoison(t).live = sup.live
      /\ EndPoison(t).boot = "no" /\ EndPoison(t).retired = sup.retired
      /\ EndPoison(t).seen = sup.seen /\ EndPoison(t).pepoch = sup.pepoch
      /\ EndPoison(t).bepoch = sup.bepoch /\ EndPoison(t).epochOf = sup.epochOf
  BY <1>1, EndPoisonOK
<1>. QED  BY <1>2 DEF t

-----------------------------------------------------------------------------
(* Booting and poisoning. *)

LEMMA FaultOK ==
  ASSUME IInv, Fault \/ NoFault
  PROVE  faults' \in 0..MaxFaults
<1>1. faults \in 0..MaxFaults
  BY SupFacts
<1>. QED  BY <1>1, FlipAssumption DEF Fault, NoFault

\* While a replacement boots there is no flip.
LEMMA BootFacts ==
  ASSUME IInv, sup.boot \in {"ready", "act"}
  PROVE  /\ sup.cand \in Hubs /\ sup.live = None /\ sup.flip \in {"idle", "poison"}
         /\ sup.poison \in {"no", "boot"} /\ ~sup.mayOwn /\ Owner = sup.cand
<1>1. /\ sup.cand \in Hubs /\ sup.live = None /\ sup.flip \in {"idle", "poison"}
      /\ sup.poison \in {"no", "boot"} /\ ~sup.mayOwn
  BY SupFacts DEF SupOK, InFlip, SupRecs
<1>. QED  BY <1>1, OwnerIs

\* A boot that fails kills the candidate.
LEMMA BootFailedOK ==
  ASSUME IInv, sup.boot \in {"ready", "act"}, sup' = BootFailed(sup), Kill({sup.cand}),
         Reads, faults' \in 0..MaxFaults, flips' = flips
  PROVE  IInv'
<1>1. /\ sup' \in SupRecs /\ sup'.flip \in {"idle", "poison"} /\ ~sup'.mayOwn
      /\ sup'.live = None /\ sup'.seen = sup.seen /\ sup'.pepoch = sup.pepoch
      /\ sup'.bepoch = sup.bepoch /\ sup'.epochOf = sup.epochOf
      /\ \/ sup'.boot = "no" /\ sup'.poison = "offline"
         \/ sup'.boot = "wait" /\ sup'.poison = "no"
  <2>1. CASE sup.poison = "boot"
    BY <2>1, BootFacts, OfflineOK DEF BootFailed
  <2>2. CASE sup.poison # "boot"
    <3>1. sup' = [sup EXCEPT !.boot = "wait", !.cand = None]
      BY <2>2 DEF BootFailed
    <3>2. sup' \in SupRecs
      BY <3>1, SupFacts DEF SupRecs, Somebody
    <3>. QED  BY <2>2, <3>1, <3>2, BootFacts, SupFacts DEF SupRecs
  <2>. QED  BY <2>1, <2>2
<1>2. \A k \in Hubs : Passive(k) /\ (k = sup.cand => ~Running(k)')
  BY KillPassive
<1>3. Shape'
  BY <1>1, KillPassive, SupFacts DEF Shape, Reads
<1>4. SupOK'
  BY <1>1, SupFacts DEF SupOK, InFlip, Forward, Backward
<1>5. EpochsGrow /\ \A k \in sup'.seen : hub'[k].st = "dead" /\ outbox'[k] = << >>
  BY <1>1, <1>2, SupFacts, SeenStay DEF EpochsGrow
<1>6. Owner' = None
  BY <1>1, OwnerIsNext
<1>7. /\ \A k \in Hubs : ~(Running(k)' /\ Claimant(k)' /\ k = Owner)
      /\ \A k \in Hubs : k # Owner'
  BY <1>2, <1>6, BootFacts, SupFacts
<1>. QED  BY <1>1, <1>2, <1>3, <1>4, <1>5, <1>7, SteadyStep

\* The recovery kills every process.
LEMMA PoisonedOK ==
  ASSUME IInv, sup' \in SupRecs, sup'.flip \in {"idle", "poison"}, ~sup'.mayOwn,
         sup'.live = None, sup'.boot = "no", sup'.poison = "stop",
         UNCHANGED <<sup.seen, sup.pepoch, sup.bepoch, sup.epochOf>>,
         KillAll, Reads, UNCHANGED <<faults, flips>>
  PROVE  IInv'
<1>1. Kill(Hubs)
  BY DEF KillAll, Kill
<1>2. \A k \in Hubs : Passive(k) /\ ~Running(k)'
  BY <1>1, KillPassive
<1>3. Shape'
  BY <1>1, KillPassive, SupFacts DEF Shape, Reads
<1>4. SupOK'
  BY SupFacts DEF SupOK, InFlip, Forward, Backward
<1>5. EpochsGrow /\ \A k \in sup'.seen : hub'[k].st = "dead" /\ outbox'[k] = << >>
  BY <1>2, SupFacts, SeenStay DEF EpochsGrow
<1>. QED  BY <1>2, <1>3, <1>4, <1>5, SteadyStep

\* ... and goes on or ends when they have exited.
LEMMA StoppedOK ==
  ASSUME IInv, sup.poison = "stop", sup' \in SupRecs, sup'.flip \in {"idle", "poison"},
         ~sup'.mayOwn, sup'.live = None,
         \/ sup'.boot = "wait" /\ sup'.poison = "boot"
         \/ sup'.boot = "no" /\ sup'.poison = "offline",
         UNCHANGED <<sup.seen, sup.pepoch, sup.bepoch, sup.epochOf>>,
         UNCHANGED <<hub, inbox, outbox, flips>>, faults' \in 0..MaxFaults
  PROVE  IInv'
<1>1. \A k \in Hubs : Passive(k) /\ ~Running(k)'
  BY SupFacts, StaysReads, IdlePassive DEF HubOK, Running
<1>2. Shape'
  BY SupFacts DEF Shape
<1>3. SupOK'
  BY SupFacts DEF SupOK, InFlip, Forward, Backward
<1>4. EpochsGrow /\ \A k \in sup'.seen : hub'[k].st = "dead" /\ outbox'[k] = << >>
  BY <1>1, SupFacts, StaysReads, SeenStay DEF EpochsGrow
<1>. QED  BY <1>1, <1>2, <1>3, <1>4, SteadyStep

LEMMA PoisonOK ==
  ASSUME IInv, PoisonStopped \/ PoisonFails
  PROVE  IInv'
<1>1. /\ sup.poison = "stop" /\ UNCHANGED <<hub, inbox, outbox, flips>>
      /\ faults' \in 0..MaxFaults
  BY SupFacts, FlipAssumption DEF PoisonStopped, PoisonFails, Fault
<1>2. sup.flip \in {"idle", "poison"} /\ sup.live = None /\ ~sup.mayOwn
  BY <1>1, SupFacts DEF SupOK, InFlip, SupRecs
<1>3. CASE sup' = EndPoison([sup EXCEPT !.poison = "offline"])
  BY <1>1, <1>2, <1>3, OfflineOK, StoppedOK
<1>4. CASE sup' = [sup EXCEPT !.poison = "boot", !.boot = "wait"]
  <2>1. /\ sup' \in SupRecs /\ sup'.poison = "boot" /\ sup'.boot = "wait"
        /\ UNCHANGED <<sup.flip, sup.live, sup.mayOwn, sup.seen, sup.pepoch, sup.bepoch,
                       sup.epochOf>>
    BY <1>4, SupFacts DEF SupRecs
  <2>. QED  BY <1>1, <1>2, <2>1, StoppedOK
<1>. QED  BY <1>3, <1>4 DEF PoisonStopped, PoisonFails

LEMMA PoisonedTyped ==
  ASSUME NEW s \in SupRecs, NEW R \in SUBSET Somebody, NEW a \in BOOLEAN
  PROVE  [s EXCEPT !.poison = "stop", !.auto = a, !.live = None, !.boot = "no",
                   !.cand = None, !.retired = R] \in SupRecs
<1>1. None \in Somebody
  BY DEF Somebody
<1>2. QED BY <1>1 DEF SupRecs

LEMMA PoisonedIs ==
  ASSUME IInv, NEW S \in SUBSET Hubs, NEW a \in BOOLEAN
  PROVE  LET s == Poisoned(sup, S, a)
         IN /\ s \in SupRecs /\ s.flip = sup.flip /\ s.mayOwn = sup.mayOwn /\ s.live = None
            /\ s.boot = "no" /\ s.poison = "stop" /\ s.seen = sup.seen
            /\ s.pepoch = sup.pepoch /\ s.bepoch = sup.bepoch /\ s.epochOf = sup.epochOf
<1>1. PICK R \in SUBSET Somebody :
        Poisoned(sup, S, a) =
          [sup EXCEPT !.poison = "stop", !.auto = a, !.live = None, !.boot = "no",
                      !.cand = None, !.retired = R]
  BY SupFacts DEF Poisoned, SupRecs, Somebody
<1>. DEFINE s == Poisoned(sup, S, a)
<1>2. s \in SupRecs
  <2>1. sup \in SupRecs
    BY SupFacts
  <2>2. [sup EXCEPT !.poison = "stop", !.auto = a, !.live = None, !.boot = "no",
                    !.cand = None, !.retired = R] \in SupRecs
    BY <2>1, PoisonedTyped, Zenon
  <2>. QED  BY <1>1, <2>2, Zenon
<1>3. /\ s.flip = sup.flip /\ s.mayOwn = sup.mayOwn /\ s.live = None
      /\ s.boot = "no" /\ s.poison = "stop" /\ s.seen = sup.seen
      /\ s.pepoch = sup.pepoch /\ s.bepoch = sup.bepoch /\ s.epochOf = sup.epochOf
  BY <1>1, SupFacts DEF SupRecs
<1>. QED  BY <1>2, <1>3

LEMMA RefusedOK ==
  ASSUME IInv, BootRefused \/ FlipRefused
  PROVE  IInv'
<1>1. CASE BootRefused /\ sup.poison = "boot"
  <2>1. /\ sup.boot = "ready" /\ sup' = BootFailed(sup) /\ Kill({sup.cand})
        /\ Hears(sup.cand, "refused") /\ UNCHANGED <<faults, flips>>
    BY <1>1 DEF BootRefused
  <2>. QED  BY <2>1, BootFacts, HearsReads, SupFacts, BootFailedOK
<1>2. CASE BootRefused /\ sup.poison # "boot"
  <2>1. /\ sup.boot = "ready" /\ KillAll /\ Hears(sup.cand, "refused")
        /\ sup' = Poisoned(sup, {sup.cand}, Head(outbox[sup.cand]).ok)
        /\ UNCHANGED <<faults, flips>>
    BY <1>2 DEF BootRefused
  <2>2. sup.cand \in Hubs /\ Reads /\ Head(outbox[sup.cand]).ok \in BOOLEAN
    BY <2>1, BootFacts, HearsReads, Heard, SupFacts DEF OutMsgs
  <2>. QED  BY <2>1, <2>2, BootFacts, PoisonedIs, PoisonedOK
<1>3. CASE FlipRefused
  <2>1. /\ sup.flip = "ready" /\ KillAll /\ Hears(sup.green, "refused")
        /\ sup' = [Poisoned(sup, {sup.blue, sup.green}, Head(outbox[sup.green]).ok)
                     EXCEPT !.flip = "poison"]
        /\ UNCHANGED <<faults, flips>>
    BY <1>3 DEF FlipRefused
  <2>2. sup.blue \in Hubs /\ sup.green \in Hubs /\ ~sup.mayOwn
    BY <2>1, SupFacts DEF SupOK, InFlip, Forward
  <2>3. Reads /\ Head(outbox[sup.green]).ok \in BOOLEAN
    BY <2>1, <2>2, HearsReads, Heard, SupFacts DEF OutMsgs
  <2>. DEFINE p == Poisoned(sup, {sup.blue, sup.green}, Head(outbox[sup.green]).ok)
  <2>4. /\ p \in SupRecs /\ ~p.mayOwn /\ p.live = None
        /\ p.boot = "no" /\ p.poison = "stop" /\ p.seen = sup.seen
        /\ p.pepoch = sup.pepoch /\ p.bepoch = sup.bepoch /\ p.epochOf = sup.epochOf
    BY <2>2, <2>3, PoisonedIs
  <2>. HIDE DEF p
  <2>5. /\ sup' \in SupRecs /\ sup'.flip = "poison" /\ ~sup'.mayOwn /\ sup'.live = None
        /\ sup'.boot = "no" /\ sup'.poison = "stop"
        /\ UNCHANGED <<sup.seen, sup.pepoch, sup.bepoch, sup.epochOf>>
    <3>1. sup' = [p EXCEPT !.flip = "poison"]
      BY <2>1 DEF p
    <3>. QED  BY <2>4, <3>1 DEF SupRecs
  <2>. QED  BY <2>1, <2>3, <2>5, PoisonedOK
<1>. QED  BY <1>1, <1>2, <1>3

LEMMA BootEndsOK ==
  ASSUME IInv, BootFails \/ BootTimeout
  PROVE  IInv'
<1>1. /\ sup.boot \in {"ready", "act"} /\ sup' = BootFailed(sup) /\ Kill({sup.cand})
      /\ flips' = flips /\ (Fault \/ NoFault)
  BY DEF BootFails, BootTimeout, NoFault
<1>2. outbox' = outbox \/ Hears(sup.cand, "ctl")
  BY DEF BootFails, BootTimeout, HearsCtl
<1>3. Reads
  BY <1>1, <1>2, BootFacts, HearsReads, StaysReads
<1>. QED  BY <1>1, <1>3, FaultOK, BootFailedOK

LEMMA GrantedIs ==
  ASSUME IInv, NEW h \in Hubs
  PROVE  /\ Granted(sup, h) \in SupRecs
         /\ Granted(sup, h).flip = sup.flip /\ Granted(sup, h).boot = sup.boot
         /\ Granted(sup, h).live = sup.live /\ Granted(sup, h).blue = sup.blue
         /\ Granted(sup, h).green = sup.green /\ Granted(sup, h).mayOwn = sup.mayOwn
         /\ Granted(sup, h).cand = sup.cand /\ Granted(sup, h).poison = sup.poison
         /\ Granted(sup, h).retired = sup.retired /\ Granted(sup, h).seen = sup.seen
         /\ Granted(sup, h).pepoch = sup.pepoch /\ Granted(sup, h).bepoch = sup.bepoch + 1
         /\ Granted(sup, h).epochOf = sup.epochOf
         /\ Resume(sup) \in InMsgs /\ Resume(sup).type = "resume"
         /\ Resume(sup).n = sup.bepoch + 1
<1>1. /\ Resume(sup) \in InMsgs /\ Resume(sup).type = "resume"
      /\ Resume(sup).n = sup.bepoch + 1
  BY SupFacts DEF Resume, Msg, InMsgs, InTypes
<1>2. PICK b \in Nat : b = sup.bepoch + 1
  BY SupFacts
<1>. DEFINE s == Granted(sup, h)
<1>3. s = [sup EXCEPT !.owner = h, !.bepoch = b]
  BY <1>2 DEF Granted
<1>4. s \in SupRecs
  BY <1>3, SupFacts, ZenonT(60) DEF SupRecs, Somebody
<1>5. /\ s.flip = sup.flip /\ s.boot = sup.boot /\ s.live = sup.live
      /\ s.blue = sup.blue /\ s.green = sup.green /\ s.mayOwn = sup.mayOwn
      /\ s.cand = sup.cand /\ s.poison = sup.poison /\ s.retired = sup.retired
      /\ s.seen = sup.seen /\ s.pepoch = sup.pepoch /\ s.bepoch = b
      /\ s.epochOf = sup.epochOf
  BY <1>3, SupFacts DEF SupRecs
<1>. QED  BY <1>1, <1>2, <1>4, <1>5

\* A step that grants the backups to hub h and resumes them.
LEMMA GrantPassive ==
  ASSUME IInv, NEW h \in Hubs, hub' = hub, inbox' = Sent(inbox, h, Resume(sup)), Reads,
         sup'.bepoch = sup.bepoch + 1
  PROVE  inbox' \in [Hubs -> Seq(InMsgs)] /\ \A k \in Hubs : Passive(k)
<1>1. Resume(sup).n <= sup'.bepoch
  BY GrantedIs, SupFacts
<1>. QED  BY <1>1, GrantedIs, SendPassive

LEMMA BootReadyOK ==
  ASSUME IInv, BootReady
  PROVE  IInv'
<1>1. /\ sup.boot = "ready" /\ Hears(sup.cand, "ready") /\ flips' = flips
      /\ sup.cand \in Hubs
  BY BootFacts DEF BootReady
<1>2. Reads
  BY <1>1, HearsReads
<1>3. CASE ~Grantable(sup.cand)
  <2>1. sup' = BootFailed(sup) /\ Kill({sup.cand}) /\ (Fault \/ NoFault)
    BY <1>3 DEF BootReady
  <2>. QED  BY <1>1, <1>2, <2>1, FaultOK, BootFailedOK
<1>4. CASE Grantable(sup.cand)
  <2>1. /\ sup' = [Granted(sup, sup.cand) EXCEPT !.boot = "act"]
        /\ inbox' = Sent(inbox, sup.cand, Resume(sup)) /\ hub' = hub /\ faults' = faults
    BY <1>4 DEF BootReady, NoFault
  <2>2. /\ sup' \in SupRecs /\ sup'.boot = "act" /\ sup'.bepoch = sup.bepoch + 1
        /\ UNCHANGED <<sup.flip, sup.live, sup.mayOwn, sup.cand, sup.poison, sup.retired,
                       sup.seen, sup.pepoch, sup.epochOf>>
    BY <1>1, <2>1, GrantedIs DEF SupRecs
  <2>3. inbox' \in [Hubs -> Seq(InMsgs)] /\ \A k \in Hubs : Passive(k)
    BY <1>1, <1>2, <2>1, <2>2, GrantPassive
  <2>4. Shape'
    BY <1>1, <1>2, <2>1, <2>2, <2>3, SupFacts DEF Shape, Reads
  <2>5. SupOK'
    BY <1>1, <2>2, SupFacts, BootFacts DEF SupOK, InFlip, Forward, Backward
  <2>6. EpochsGrow /\ \A k \in sup'.seen : hub'[k].st = "dead" /\ outbox'[k] = << >>
    BY <1>2, <2>2, <2>3, SupFacts, SeenStay DEF EpochsGrow
  <2>7. /\ Owner = sup.cand /\ Owner' = Owner /\ sup.flip \in {"idle", "poison"}
        /\ sup'.poison # "stop"
    BY <1>1, <2>2, BootFacts, OwnerIsNext
  <2>8. ASSUME NEW k \in Hubs, Running(k)', k = Owner'
        PROVE  Steady(k)'
    BY <2>3, <2>6, <2>7, <2>8, SupFacts, PassiveOK DEF HubOK, Phase
  <2>. QED  BY <2>2, <2>3, <2>4, <2>5, <2>6, <2>7, <2>8, SteadyStep
<1>. QED  BY <1>3, <1>4

LEMMA SetLiveIs ==
  ASSUME IInv, NEW h \in Hubs
  PROVE  LET s == SetLive(sup, h)
         IN /\ s \in SupRecs /\ s.flip = sup.flip /\ s.boot = sup.boot /\ s.live = h
            /\ s.retired = sup.retired \ {h} /\ s.seen = sup.seen /\ s.pepoch = sup.pepoch
            /\ s.bepoch = sup.bepoch /\ s.epochOf = sup.epochOf /\ s.mayOwn = sup.mayOwn
            /\ s.poison = sup.poison /\ s.cand = sup.cand
<1>1. PICK R \in SUBSET Somebody : R = sup.retired \ {h}
  BY SupFacts DEF SupRecs
<1>2. SetLive(sup, h) = [sup EXCEPT !.live = h, !.retired = R, !.pending = FALSE]
  BY <1>1 DEF SetLive
<1>. DEFINE s == SetLive(sup, h)
<1>3. s \in SupRecs
  BY <1>2, SupFacts, ZenonT(60) DEF SupRecs, Somebody
<1>4. /\ s.flip = sup.flip /\ s.boot = sup.boot /\ s.live = h
      /\ s.retired = R /\ s.seen = sup.seen /\ s.pepoch = sup.pepoch
      /\ s.bepoch = sup.bepoch /\ s.epochOf = sup.epochOf /\ s.mayOwn = sup.mayOwn
      /\ s.poison = sup.poison /\ s.cand = sup.cand
  BY <1>2, SupFacts DEF SupRecs
<1>. QED  BY <1>1, <1>3, <1>4

LEMMA BootLiveOK ==
  ASSUME IInv, BootLive
  PROVE  IInv'
<1>1. /\ sup.boot = "act" /\ Hears(sup.cand, "ctl") /\ UNCHANGED <<hub, inbox, faults, flips>>
      /\ sup.cand \in Hubs
  BY BootFacts DEF BootLive, HearsCtl
<1>2. Reads /\ sup.cand \notin sup.seen
  BY <1>1, HearsReads
<1>. DEFINE s == SetLive(sup, sup.cand)
            t == [s EXCEPT !.boot = "no", !.cand = None, !.reviving = FALSE, !.poison = "no"]
<1>3. sup' = IF sup.flip = "idle" THEN t ELSE EndFlip(t)
  BY DEF BootLive
<1>4. /\ s \in SupRecs /\ s.flip = sup.flip /\ s.live = sup.cand
      /\ s.retired = sup.retired \ {sup.cand} /\ s.seen = sup.seen /\ s.pepoch = sup.pepoch
      /\ s.bepoch = sup.bepoch /\ s.epochOf = sup.epochOf /\ s.mayOwn = sup.mayOwn
  BY <1>1, SetLiveIs
<1>5. /\ t \in SupRecs /\ t.flip = sup.flip /\ t.live = sup.cand /\ t.boot = "no"
      /\ t.poison = "no" /\ t.mayOwn = sup.mayOwn
      /\ t.retired = sup.retired \ {sup.cand} /\ t.seen = sup.seen /\ t.pepoch = sup.pepoch
      /\ t.bepoch = sup.bepoch /\ t.epochOf = sup.epochOf
  <2>. HIDE DEF s
  <2>1. t \in SupRecs
    BY <1>4 DEF SupRecs, Somebody
  <2>2. /\ t.flip = s.flip /\ t.live = s.live /\ t.boot = "no" /\ t.poison = "no"
        /\ t.mayOwn = s.mayOwn /\ t.retired = s.retired /\ t.seen = s.seen
        /\ t.pepoch = s.pepoch /\ t.bepoch = s.bepoch /\ t.epochOf = s.epochOf
    BY <1>4 DEF SupRecs
  <2>. QED  BY <1>4, <2>1, <2>2
<1>. HIDE DEF s, t
<1>6. /\ sup' \in SupRecs /\ sup'.flip = "idle" /\ sup'.live = sup.cand /\ sup'.boot = "no"
      /\ sup'.poison = "no" /\ ~sup'.mayOwn /\ sup'.retired = sup.retired \ {sup.cand}
      /\ UNCHANGED <<sup.seen, sup.pepoch, sup.bepoch, sup.epochOf>>
  BY <1>1, <1>3, <1>5, EndFlipOK, BootFacts, SupFacts, SMTT(60)
<1>7. Shape'
  BY <1>1, <1>2, <1>6, SupFacts DEF Shape, Reads
<1>8. SupOK'
  BY <1>1, <1>2, <1>6, SupFacts DEF SupOK, InFlip, Forward, Backward
<1>9. /\ \A k \in Hubs : Passive(k)
      /\ EpochsGrow /\ \A k \in sup'.seen : hub'[k].st = "dead" /\ outbox'[k] = << >>
  BY <1>1, <1>2, <1>6, SupFacts, SeenStay, IdlePassive DEF EpochsGrow
<1>10. Owner = sup.cand /\ Owner' = Owner /\ sup.flip \in {"idle", "poison"}
  BY <1>1, <1>6, BootFacts, OwnerIsNext
<1>11. ASSUME NEW k \in Hubs, Running(k)', k = Owner'
       PROVE  Steady(k)'
  BY <1>9, <1>10, <1>11, SupFacts, PassiveOK DEF HubOK, Phase
<1>. QED  BY <1>6, <1>7, <1>8, <1>9, <1>10, <1>11, SteadyStep

LEMMA SupDiesOK ==
  ASSUME IInv, SupDies
  PROVE  IInv'
<1>1. sup' = [sup EXCEPT !.alive = FALSE] /\ UNCHANGED <<hub, inbox, outbox, faults, flips>>
  BY DEF SupDies
<1>2. /\ sup' \in SupRecs
      /\ UNCHANGED <<sup.flip, sup.live, sup.blue, sup.green, sup.mayOwn, sup.cand, sup.boot,
                     sup.poison, sup.retired, sup.seen, sup.pepoch, sup.bepoch, sup.epochOf>>
  BY <1>1, SupFacts DEF SupRecs
<1>3. Shape' /\ SupOK' /\ EpochsGrow
  BY <1>1, <1>2, SupFacts DEF Shape, SupOK, InFlip, EpochsGrow
<1>4. /\ \A k \in Hubs : Passive(k)
      /\ \A k \in sup'.seen : hub'[k].st = "dead" /\ outbox'[k] = << >>
  BY <1>1, <1>2, SupFacts, StaysReads, SeenStay, IdlePassive
<1>5. Owner' = Owner
  BY <1>2 DEF Owner
<1>. QED  BY <1>1, <1>2, <1>3, <1>4, <1>5, SameFlipStep

-----------------------------------------------------------------------------
(* The flip. *)

LEMMA FlipFacts ==
  ASSUME IInv, sup.flip \in Forward \cup Backward
  PROVE  /\ sup.blue \in Hubs /\ sup.green \in Hubs /\ sup.blue # sup.green
         /\ sup.boot = "no" /\ sup.poison = "no"
         /\ sup.flip # "abandon" =>
              sup.live = sup.blue \/ (sup.live = None /\ sup.blue \in sup.seen)
BY SupFacts DEF SupOK, InFlip, Forward, Backward

LEMMA FlipPauseOK ==
  ASSUME IInv, FlipPause
  PROVE  IInv'
<1>. DEFINE m == Msg("pause", sup.bepoch + 1, TRUE)
<1>1. /\ sup.flip = "ready" /\ Hears(sup.green, "ready") /\ inbox' = Sent(inbox, sup.blue, m)
      /\ sup' = [sup EXCEPT !.flip = "pause", !.bepoch = @ + 1,
                            !.owner = IF sup.owner \in sup.seen THEN None ELSE @]
      /\ UNCHANGED <<hub, faults, flips>>
  BY DEF FlipPause
<1>2. /\ sup' \in SupRecs /\ sup'.flip = "pause" /\ sup'.bepoch = sup.bepoch + 1
      /\ UNCHANGED <<sup.blue, sup.green, sup.live, sup.mayOwn, sup.boot, sup.cand, sup.poison,
                     sup.retired, sup.seen, sup.pepoch, sup.epochOf>>
  <2>. DEFINE o == IF sup.owner \in sup.seen THEN None ELSE sup.owner
              b == sup.bepoch + 1
  <2>0. o \in Somebody /\ b \in Nat
    BY SupFacts, SMTT(60) DEF SupRecs, Somebody
  <2>1. sup' = [sup EXCEPT !.flip = "pause", !.bepoch = b, !.owner = o]
    BY <1>1
  <2>. HIDE DEF o
  <2>2. sup' \in SupRecs
    BY <2>0, <2>1, SupFacts DEF SupRecs, Forward
  <2>. QED  BY <2>1, <2>2, SupFacts DEF SupRecs
<1>3. m \in InMsgs /\ m.type = "pause" /\ m.n = sup.bepoch + 1
  BY SupFacts DEF Msg, InMsgs, InTypes
<1>. HIDE DEF m
<1>4. /\ sup.blue \in Hubs /\ sup.green \in Hubs /\ sup.blue # sup.green
      /\ sup.boot = "no" /\ sup.poison = "no" /\ ~sup.mayOwn
      /\ sup.live = sup.blue \/ (sup.live = None /\ sup.blue \in sup.seen)
  BY <1>1, FlipFacts, SupFacts DEF Forward, SupOK
<1>5. Reads /\ m.n <= sup'.bepoch
  BY <1>1, <1>2, <1>3, <1>4, HearsReads, SupFacts
<1>6. inbox' \in [Hubs -> Seq(InMsgs)] /\ \A k \in Hubs : Passive(k)
  BY <1>1, <1>3, <1>4, <1>5, SendPassive
<1>7. Shape'
  BY <1>1, <1>2, <1>5, <1>6, SupFacts DEF Shape, Reads
<1>8. SupOK'
  BY <1>2, <1>4, SupFacts DEF SupOK, InFlip, Forward, Backward
<1>9. EpochsGrow /\ \A k \in sup'.seen : hub'[k].st = "dead" /\ outbox'[k] = << >>
  BY <1>2, <1>5, <1>6, SupFacts, SeenStay DEF EpochsGrow
<1>10. Owner = sup.blue /\ Owner' = Owner
  BY <1>1, <1>2, OwnerIs, OwnerIsNext
<1>11. ASSUME NEW k \in Hubs, Running(k)', k = Owner'
       PROVE  Steady(k)'
  BY <1>1, <1>6, <1>9, <1>10, <1>11, SupFacts, PassiveOK DEF HubOK, Phase
<1>. QED  BY <1>1, <1>2, <1>4, <1>6, <1>7, <1>8, <1>9, <1>10, <1>11, SteadyStep

LEMMA RollbackRetryOK ==
  ASSUME IInv, RollbackRetry
  PROVE  IInv'
<1>1. /\ sup.flip = "resume" /\ inbox' = Sent(inbox, sup.blue, Resume(sup))
      /\ sup' = Granted(sup, sup.blue) /\ UNCHANGED <<hub, outbox, flips>>
      /\ faults' \in 0..MaxFaults
  BY FaultOK DEF RollbackRetry
<1>2. /\ sup.blue \in Hubs /\ sup.green \in Hubs /\ sup.blue # sup.green
      /\ sup.boot = "no" /\ sup.poison = "no"
      /\ sup.live = sup.blue \/ (sup.live = None /\ sup.blue \in sup.seen)
  BY <1>1, FlipFacts DEF Backward
<1>3. /\ sup' \in SupRecs /\ sup'.flip = "resume" /\ sup'.bepoch = sup.bepoch + 1
      /\ UNCHANGED <<sup.blue, sup.green, sup.live, sup.mayOwn, sup.boot, sup.cand, sup.poison,
                     sup.retired, sup.seen, sup.pepoch, sup.epochOf>>
  BY <1>1, <1>2, GrantedIs
<1>4. /\ Reads /\ inbox' \in [Hubs -> Seq(InMsgs)] /\ \A k \in Hubs : Passive(k)
  BY <1>1, <1>2, <1>3, StaysReads, GrantPassive
<1>5. Shape'
  BY <1>1, <1>3, <1>4, SupFacts DEF Shape
<1>6. SupOK'
  BY <1>1, <1>2, <1>3, SupFacts DEF SupOK, InFlip, Forward, Backward
<1>7. EpochsGrow /\ \A k \in sup'.seen : hub'[k].st = "dead" /\ outbox'[k] = << >>
  BY <1>3, <1>4, SupFacts, SeenStay DEF EpochsGrow
<1>8. Owner = sup.blue /\ Owner' = Owner
  BY <1>1, <1>3, OwnerIs, OwnerIsNext
<1>9. ASSUME NEW k \in Hubs, Running(k)', k = Owner'
      PROVE  Steady(k)'
  BY <1>1, <1>4, <1>7, <1>8, <1>9, SupFacts, PassiveOK DEF HubOK, Phase
<1>. QED  BY <1>2, <1>3, <1>4, <1>5, <1>6, <1>7, <1>8, <1>9, SteadyStep

LEMMA RollbackResumeOK ==
  ASSUME IInv, RollbackResume
  PROVE  IInv'
<1>1. /\ sup.flip = "rebind" /\ inbox' = Sent(inbox, sup.blue, Resume(sup))
      /\ Hears(sup.blue, "rebound") /\ Head(outbox[sup.blue]).n = sup.pepoch
      /\ sup' = [Granted(sup, sup.blue) EXCEPT !.flip = "resume"]
      /\ UNCHANGED <<hub, faults, flips>>
  BY DEF RollbackResume
<1>2. /\ sup.blue \in Hubs /\ sup.green \in Hubs /\ sup.blue # sup.green
      /\ sup.boot = "no" /\ sup.poison = "no"
      /\ sup.live = sup.blue \/ (sup.live = None /\ sup.blue \in sup.seen)
  BY <1>1, FlipFacts DEF Backward
<1>3. /\ sup' \in SupRecs /\ sup'.flip = "resume" /\ sup'.bepoch = sup.bepoch + 1
      /\ UNCHANGED <<sup.blue, sup.green, sup.live, sup.mayOwn, sup.boot, sup.cand, sup.poison,
                     sup.retired, sup.seen, sup.pepoch, sup.epochOf>>
  <2>1. sup' \in SupRecs
    BY <1>1, <1>2, GrantedIs DEF SupRecs, Backward
  <2>. QED  BY <1>1, <1>2, <2>1, GrantedIs, SMTT(60) DEF SupRecs
<1>4. /\ Reads /\ inbox' \in [Hubs -> Seq(InMsgs)] /\ \A k \in Hubs : Passive(k)
  BY <1>1, <1>2, <1>3, HearsReads, GrantPassive
<1>5. Shape'
  BY <1>1, <1>3, <1>4, SupFacts DEF Shape, Reads
<1>6. SupOK'
  BY <1>1, <1>2, <1>3, SupFacts DEF SupOK, InFlip, Forward, Backward
<1>7. EpochsGrow /\ \A k \in sup'.seen : hub'[k].st = "dead" /\ outbox'[k] = << >>
  BY <1>3, <1>4, SupFacts, SeenStay DEF EpochsGrow
<1>8. Owner = sup.blue /\ Owner' = Owner
  BY <1>1, <1>3, OwnerIs, OwnerIsNext
\* the answer is the last thing blue said about the flip, and all it was asked is done
<1>9. ASSUME NEW k \in Hubs, Running(k)', k = Owner'
      PROVE  Steady(k)'
  <2>1. hub'[k] = hub[k] /\ Running(k) /\ Passive(k) /\ k = sup.blue /\ k = Owner
    BY <1>4, <1>7, <1>8, <1>9, PassiveOK
  <2>2. Rebound(k)
    BY <1>1, <2>1, SupFacts DEF HubOK, Phase
  <2>3. /\ HasN(outbox[k], "rebound", sup.pepoch)
        /\ NoneAfterN(outbox[k], "rebound", sup.pepoch, "released")
           => ~Has(outbox'[k], "released")
    BY <1>1, <2>1, Heard, SupFacts
  <2>4. Quiet(k) /\ ~Has(outbox'[k], "released")
    BY <2>2, <2>3 DEF Rebound, Quiet
  <2>5. Quiet(k)'
    BY <1>7, <2>1, <2>4, InboxAside DEF Quiet
  <2>. QED  BY <2>4, <2>5 DEF Steady
<1>. QED  BY <1>2, <1>3, <1>4, <1>5, <1>6, <1>7, <1>8, <1>9, SteadyStep

LEMMA FlipActivateOK ==
  ASSUME IInv, FlipActivate
  PROVE  IInv'
<1>1. /\ sup.flip = "promoted" /\ inbox' = Sent(inbox, sup.green, Resume(sup))
      /\ Hears(sup.green, "promoted") /\ Head(outbox[sup.green]).n = sup.pepoch
      /\ sup' = [Granted(sup, sup.green) EXCEPT !.flip = "act",
                                                !.epochOf[sup.green] = sup.pepoch]
      /\ UNCHANGED <<hub, faults, flips>>
  BY DEF FlipActivate
<1>2. /\ sup.blue \in Hubs /\ sup.green \in Hubs /\ sup.blue # sup.green
      /\ sup.boot = "no" /\ sup.poison = "no" /\ sup.mayOwn
      /\ sup.live = sup.blue \/ (sup.live = None /\ sup.blue \in sup.seen)
  BY <1>1, FlipFacts, SupFacts DEF Forward, SupOK
<1>3. /\ sup' \in SupRecs /\ sup'.flip = "act" /\ sup'.bepoch = sup.bepoch + 1
      /\ UNCHANGED <<sup.blue, sup.green, sup.live, sup.mayOwn, sup.boot, sup.cand, sup.poison,
                     sup.retired, sup.seen, sup.pepoch>>
      /\ \A h \in Hubs : sup'.epochOf[h] <= sup.pepoch
  <2>. DEFINE g == Granted(sup, sup.green)
              E == [sup.epochOf EXCEPT ![sup.green] = sup.pepoch]
  <2>1. E \in [Hubs -> Nat] /\ \A h \in Hubs : E[h] <= sup.pepoch
    <3>1. /\ sup.epochOf \in [Hubs -> Nat] /\ \A h \in Hubs : sup.epochOf[h] <= sup.pepoch
          /\ sup.pepoch \in Nat
      BY SupFacts DEF SupRecs, SupOK
    <3>. QED  BY <1>2, <3>1
  <2>2. sup' = [g EXCEPT !.flip = "act", !.epochOf = E] /\ g \in SupRecs
    BY <1>1, <1>2, GrantedIs
  <2>3. /\ g.bepoch = sup.bepoch + 1 /\ g.blue = sup.blue /\ g.green = sup.green
        /\ g.live = sup.live /\ g.mayOwn = sup.mayOwn /\ g.boot = sup.boot
        /\ g.cand = sup.cand /\ g.poison = sup.poison /\ g.retired = sup.retired
        /\ g.seen = sup.seen /\ g.pepoch = sup.pepoch
    BY <1>2, GrantedIs
  <2>. HIDE DEF E, g
  <2>4. sup' \in SupRecs
    BY <2>1, <2>2 DEF SupRecs, Forward
  <2>. QED  BY <2>1, <2>2, <2>3, <2>4 DEF SupRecs
<1>4. /\ Reads /\ inbox' \in [Hubs -> Seq(InMsgs)] /\ \A k \in Hubs : Passive(k)
  BY <1>1, <1>2, <1>3, HearsReads, GrantPassive
<1>5. Shape'
  BY <1>1, <1>3, <1>4, SupFacts DEF Shape, Reads
<1>6. SupOK'
  BY <1>1, <1>2, <1>3, SupFacts DEF SupOK, InFlip, Forward, Backward
<1>7. EpochsGrow /\ \A k \in sup'.seen : hub'[k].st = "dead" /\ outbox'[k] = << >>
  BY <1>3, <1>4, SupFacts, SeenStay DEF EpochsGrow
<1>8. Owner = sup.green /\ Owner' = Owner
  BY <1>1, <1>3, OwnerIs, OwnerIsNext
<1>9. ASSUME NEW k \in Hubs, Running(k)', k = Owner'
      PROVE  Steady(k)'
  <2>1. Running(k) /\ Passive(k) /\ k = sup.green /\ k = Owner
    BY <1>4, <1>7, <1>8, <1>9, PassiveOK
  <2>2. Promoted(k)
    BY <1>1, <2>1, SupFacts DEF HubOK, Phase
  <2>3. HasN(outbox[k], "promoted", sup.pepoch)
    BY <1>1, <2>1, Heard, SupFacts
  <2>4. Quiet(k) /\ ~Has(outbox[k], "released")
    BY <2>2, <2>3 DEF Promoted, Quiet
  <2>. QED  BY <1>7, <1>9, <2>1, <2>4, PassiveOK DEF Steady
<1>. QED  BY <1>2, <1>3, <1>4, <1>5, <1>6, <1>7, <1>8, <1>9, SteadyStep

LEMMA RolledBackOK ==
  ASSUME IInv, RolledBack
  PROVE  IInv'
<1>. DEFINE s == [sup EXCEPT !.epochOf[sup.blue] = sup.pepoch]
<1>1. /\ sup.flip = "resume" /\ Hears(sup.blue, "ctl") /\ sup' = EndFlip(s)
      /\ UNCHANGED <<hub, inbox, faults, flips>>
  BY DEF RolledBack, HearsCtl
<1>2. /\ sup.blue \in Hubs /\ sup.green \in Hubs /\ sup.blue # sup.green
      /\ sup.boot = "no" /\ sup.poison = "no"
      /\ sup.live = sup.blue \/ (sup.live = None /\ sup.blue \in sup.seen)
  BY <1>1, FlipFacts DEF Backward
<1>3. /\ s \in SupRecs /\ s.live = sup.live /\ s.boot = "no" /\ s.poison = "no"
      /\ s.retired = sup.retired /\ s.seen = sup.seen /\ s.pepoch = sup.pepoch
      /\ s.bepoch = sup.bepoch /\ \A h \in Hubs : s.epochOf[h] <= sup.pepoch
  <2>. DEFINE E == [sup.epochOf EXCEPT ![sup.blue] = sup.pepoch]
  <2>1. E \in [Hubs -> Nat] /\ \A h \in Hubs : E[h] <= sup.pepoch
    <3>1. /\ sup.epochOf \in [Hubs -> Nat] /\ \A h \in Hubs : sup.epochOf[h] <= sup.pepoch
          /\ sup.pepoch \in Nat
      BY SupFacts DEF SupRecs, SupOK
    <3>. QED  BY <1>2, <3>1
  <2>2. s = [sup EXCEPT !.epochOf = E]
    OBVIOUS
  <2>. HIDE DEF E, s
  <2>3. s \in SupRecs
    BY <2>1, <2>2, SupFacts DEF SupRecs
  <2>. QED  BY <1>2, <2>1, <2>2, <2>3, SupFacts DEF SupRecs
<1>. HIDE DEF s
<1>4. /\ sup' \in SupRecs /\ sup'.flip = "idle" /\ ~sup'.mayOwn /\ sup'.poison = "no"
      /\ UNCHANGED <<sup.live, sup.retired, sup.seen, sup.pepoch, sup.bepoch>>
      /\ \A h \in Hubs : sup'.epochOf[h] <= sup.pepoch
      /\ sup'.boot = "no" \/ (sup'.boot = "wait" /\ sup.live = None)
  BY <1>1, <1>3, EndFlipOK
<1>5. Reads
  BY <1>1, <1>2, HearsReads
<1>6. Shape'
  BY <1>1, <1>4, <1>5, SupFacts DEF Shape, Reads
<1>7. SupOK'
  BY <1>4, SupFacts DEF SupOK, InFlip, Forward, Backward
<1>8. /\ EpochsGrow /\ \A k \in Hubs : Passive(k)
      /\ \A k \in sup'.seen : hub'[k].st = "dead" /\ outbox'[k] = << >>
  BY <1>1, <1>4, <1>5, SupFacts, SeenStay, IdlePassive DEF EpochsGrow
<1>9. ASSUME NEW k \in Hubs, Running(k)'
      PROVE  k = Owner' <=> k = Owner
  <2>1. Owner = sup.blue /\ (Owner' = sup.live \/ (Owner' = None /\ sup.live = None))
    BY <1>1, <1>4, OwnerIs, OwnerIsNext
  <2>2. sup.live = None => k # sup.blue
    BY <1>1, <1>2, <1>9, SupFacts DEF Running
  <2>. QED  BY <1>2, <2>1, <2>2, SupFacts
<1>10. ASSUME NEW k \in Hubs, Running(k)', k = Owner'
       PROVE  Steady(k)'
  BY <1>1, <1>8, <1>9, <1>10, SupFacts, PassiveOK DEF HubOK, Phase
<1>. QED  BY <1>4, <1>6, <1>7, <1>8, <1>9, <1>10, SteadyStep

LEMMA AbandonDoneOK ==
  ASSUME IInv, AbandonDone
  PROVE  IInv'
<1>1. /\ sup.flip = "abandon" /\ sup' = EndFlip(sup)
      /\ UNCHANGED <<hub, inbox, outbox, flips>> /\ faults' \in 0..MaxFaults
  BY FaultOK DEF AbandonDone
<1>2. sup.boot = "no" /\ sup.poison = "no" /\ sup.live = None
  BY <1>1, FlipFacts, SupFacts DEF Backward, SupOK
<1>3. /\ sup' \in SupRecs /\ sup'.flip = "idle" /\ ~sup'.mayOwn /\ sup'.poison = "no"
      /\ UNCHANGED <<sup.live, sup.retired, sup.seen, sup.pepoch, sup.bepoch, sup.epochOf>>
      /\ sup'.boot \in {"no", "wait"}
  BY <1>1, <1>2, EndFlipOK, SupFacts
<1>4. Shape'
  BY <1>1, <1>3, SupFacts DEF Shape
<1>5. SupOK'
  BY <1>2, <1>3, SupFacts DEF SupOK, InFlip, Forward, Backward
<1>6. /\ EpochsGrow /\ \A k \in Hubs : Passive(k)
      /\ \A k \in sup'.seen : hub'[k].st = "dead" /\ outbox'[k] = << >>
  BY <1>1, <1>3, SupFacts, StaysReads, SeenStay, IdlePassive DEF EpochsGrow
<1>7. Owner = None /\ Owner' = None
  BY <1>1, <1>2, <1>3, OwnerIs, OwnerIsNext
<1>. QED  BY <1>3, <1>4, <1>5, <1>6, <1>7, SupFacts, SteadyStep

LEMMA FlipCommitOK ==
  ASSUME IInv, FlipCommit
  PROVE  IInv'
<1>. DEFINE s == SetLive(sup, sup.green)
            t == [s EXCEPT !.retired = @ \cup {sup.blue}]
<1>1. /\ sup.flip = "act" /\ Hears(sup.green, "ctl") /\ sup' = EndFlip(t)
      /\ inbox' = Sent(inbox, sup.blue, Msg("retire", 0, TRUE))
      /\ UNCHANGED <<hub, faults, flips>>
  BY DEF FlipCommit, HearsCtl
<1>2. /\ sup.blue \in Hubs /\ sup.green \in Hubs /\ sup.blue # sup.green
      /\ sup.boot = "no" /\ sup.poison = "no"
  BY <1>1, FlipFacts DEF Forward
<1>3. Reads /\ sup.green \notin sup.seen
  BY <1>1, <1>2, HearsReads
<1>4. /\ s \in SupRecs /\ s.live = sup.green /\ s.retired = sup.retired \ {sup.green}
      /\ s.seen = sup.seen /\ s.pepoch = sup.pepoch /\ s.bepoch = sup.bepoch
      /\ s.epochOf = sup.epochOf /\ s.boot = "no" /\ s.poison = "no"
  BY <1>2, SetLiveIs
<1>5. /\ t \in SupRecs /\ t.live = sup.green /\ sup.green \notin t.retired
      /\ t.seen = sup.seen /\ t.pepoch = sup.pepoch /\ t.bepoch = sup.bepoch
      /\ t.epochOf = sup.epochOf /\ t.boot = "no" /\ t.poison = "no"
  <2>. DEFINE R == s.retired \cup {sup.blue}
  <2>2. t = [s EXCEPT !.retired = R]
    OBVIOUS
  <2>. HIDE DEF s, t
  <2>1. R \in SUBSET Somebody /\ sup.green \notin R
    BY <1>2, <1>4 DEF SupRecs, Somebody
  <2>. HIDE DEF R
  <2>3. t \in SupRecs
    BY <1>4, <2>1, <2>2 DEF SupRecs
  <2>. QED  BY <1>4, <2>1, <2>2, <2>3 DEF SupRecs
<1>. HIDE DEF s, t
<1>6. /\ sup' \in SupRecs /\ sup'.flip = "idle" /\ ~sup'.mayOwn /\ sup'.poison = "no"
      /\ sup'.live = sup.green /\ sup.green \notin sup'.retired /\ sup'.boot = "no"
      /\ UNCHANGED <<sup.seen, sup.pepoch, sup.bepoch, sup.epochOf>>
  <2>1. /\ EndFlip(t) \in SupRecs /\ EndFlip(t).flip = "idle" /\ ~EndFlip(t).mayOwn
        /\ EndFlip(t).live = t.live /\ EndFlip(t).poison = t.poison
        /\ EndFlip(t).retired = t.retired /\ EndFlip(t).seen = t.seen
        /\ EndFlip(t).pepoch = t.pepoch /\ EndFlip(t).bepoch = t.bepoch
        /\ EndFlip(t).epochOf = t.epochOf
        /\ EndFlip(t).boot = t.boot \/ t.live = None
    BY <1>5, EndFlipOK
  <2>2. t.live # None
    BY <1>2, <1>5, SupFacts
  <2>. QED  BY <1>1, <1>5, <2>1, <2>2
<1>7. Msg("retire", 0, TRUE) \in InMsgs /\ Msg("retire", 0, TRUE).type = "retire"
  BY DEF Msg, InMsgs, InTypes
<1>8. inbox' \in [Hubs -> Seq(InMsgs)] /\ \A k \in Hubs : Passive(k)
  BY <1>1, <1>2, <1>3, <1>7, SendPassive
<1>9. Shape'
  BY <1>1, <1>3, <1>6, <1>8, SupFacts DEF Shape, Reads
<1>10. SupOK'
  BY <1>2, <1>3, <1>6, SupFacts DEF SupOK, InFlip, Forward, Backward
<1>11. EpochsGrow /\ \A k \in sup'.seen : hub'[k].st = "dead" /\ outbox'[k] = << >>
  BY <1>3, <1>6, <1>8, SupFacts, SeenStay DEF EpochsGrow
<1>12. Owner = sup.green /\ Owner' = Owner
  BY <1>1, <1>6, OwnerIs, OwnerIsNext
<1>13. ASSUME NEW k \in Hubs, Running(k)', k = Owner'
       PROVE  Steady(k)'
  BY <1>1, <1>8, <1>11, <1>12, <1>13, SupFacts, PassiveOK DEF HubOK, Phase
<1>. QED  BY <1>6, <1>8, <1>9, <1>10, <1>11, <1>12, <1>13, SteadyStep

\* What the operators of the rollback do.
LEMMA AbandonedIs ==
  ASSUME NEW s \in SupRecs
  PROVE  /\ Abandoned(s) \in SupRecs /\ Abandoned(s).flip = "abandon"
         /\ Abandoned(s).live \in {s.live, None}
         /\ s.live = s.blue => Abandoned(s).live = None
         /\ Abandoned(s).blue = s.blue /\ Abandoned(s).green = s.green
         /\ Abandoned(s).boot = s.boot /\ Abandoned(s).poison = s.poison
         /\ Abandoned(s).seen = s.seen /\ Abandoned(s).pepoch = s.pepoch
         /\ Abandoned(s).bepoch = s.bepoch /\ Abandoned(s).epochOf = s.epochOf
<1>. DEFINE R == s.retired \cup {s.blue}
            l == IF s.live = s.blue THEN None ELSE s.live
            a == Abandoned(s)
<1>1. /\ R \in SUBSET Somebody /\ l \in Somebody /\ l \in {s.live, None}
      /\ s.live = s.blue => l = None
  BY DEF SupRecs, Somebody
<1>2. a = [s EXCEPT !.flip = "abandon", !.pending = TRUE, !.retired = R, !.live = l]
  BY DEF Abandoned
<1>. HIDE DEF R, l, a
<1>3. a \in SupRecs
  BY <1>1, <1>2 DEF SupRecs, Backward
<1>4. /\ a.flip = "abandon" /\ a.live = l /\ a.blue = s.blue /\ a.green = s.green
      /\ a.boot = s.boot /\ a.poison = s.poison /\ a.seen = s.seen /\ a.pepoch = s.pepoch
      /\ a.bepoch = s.bepoch /\ a.epochOf = s.epochOf
  BY <1>2 DEF SupRecs
<1>. QED  BY <1>1, <1>3, <1>4 DEF a

LEMMA GreenRetires ==
  ASSUME IInv
  PROVE  LET s == [sup EXCEPT !.retired = @ \cup {sup.green}]
         IN /\ s \in SupRecs
            /\ s.flip = sup.flip /\ s.live = sup.live /\ s.blue = sup.blue
            /\ s.green = sup.green /\ s.boot = sup.boot /\ s.poison = sup.poison
            /\ s.seen = sup.seen /\ s.pepoch = sup.pepoch /\ s.bepoch = sup.bepoch
            /\ s.epochOf = sup.epochOf /\ s.mayOwn = sup.mayOwn
            /\ s.retired = sup.retired \cup {sup.green}
<1>. DEFINE s == [sup EXCEPT !.retired = @ \cup {sup.green}]
<1>1. PICK R \in SUBSET Somebody : R = sup.retired \cup {sup.green}
  BY SupFacts DEF SupRecs
<1>2. s = [sup EXCEPT !.retired = R]
  BY <1>1
<1>. HIDE DEF s
<1>3. s \in SupRecs
  BY <1>2, SupFacts DEF SupRecs
<1>4. /\ s.flip = sup.flip /\ s.live = sup.live /\ s.blue = sup.blue
      /\ s.green = sup.green /\ s.boot = sup.boot /\ s.poison = sup.poison
      /\ s.seen = sup.seen /\ s.pepoch = sup.pepoch /\ s.bepoch = sup.bepoch
      /\ s.epochOf = sup.epochOf /\ s.mayOwn = sup.mayOwn /\ s.retired = R
  BY <1>2, SupFacts DEF SupRecs
<1>. QED  BY <1>1, <1>3, <1>4 DEF s

\* A flip that is abandoned kills the owner.
LEMMA AbandonOK ==
  ASSUME IInv, sup.flip \in Forward \cup {"exit", "rebind", "resume"}, NEW s \in SupRecs,
         s.live = sup.live, s.blue = sup.blue, s.green = sup.green, s.boot = sup.boot,
         s.poison = sup.poison, s.seen = sup.seen, s.pepoch = sup.pepoch,
         s.bepoch = sup.bepoch, s.epochOf = sup.epochOf,
         sup' = Abandoned(s), NEW S, Kill(S), Owner \in S \cup {None}, Reads,
         faults' \in 0..MaxFaults, flips' = flips
  PROVE  IInv'
<1>1. /\ sup.blue \in Hubs /\ sup.green \in Hubs /\ sup.blue # sup.green
      /\ sup.boot = "no" /\ sup.poison = "no"
      /\ sup.live = sup.blue \/ (sup.live = None /\ sup.blue \in sup.seen)
  BY FlipFacts DEF Forward, Backward
<1>2. /\ sup' \in SupRecs /\ sup'.flip = "abandon" /\ sup'.live = None
      /\ UNCHANGED <<sup.blue, sup.green, sup.boot, sup.poison, sup.seen, sup.pepoch,
                     sup.bepoch, sup.epochOf>>
  BY <1>1, AbandonedIs
<1>3. /\ hub' \in [Hubs -> HubRecs] /\ inbox' \in [Hubs -> Seq(InMsgs)]
      /\ \A k \in Hubs : Passive(k) /\ (k \in S => ~Running(k)')
  BY KillPassive
<1>4. Shape'
  BY <1>2, <1>3, SupFacts DEF Shape, Reads
<1>5. SupOK'
  BY <1>1, <1>2, SupFacts DEF SupOK, InFlip, Forward, Backward
<1>6. EpochsGrow /\ \A k \in sup'.seen : hub'[k].st = "dead" /\ outbox'[k] = << >>
  BY <1>2, <1>3, SupFacts, SeenStay DEF EpochsGrow
<1>7. Owner' = None
  BY <1>2, OwnerIsNext
<1>8. /\ \A k \in Hubs : ~(Running(k)' /\ Claimant(k)' /\ k = Owner)
      /\ \A k \in Hubs : k # Owner'
  BY <1>3, <1>7, SupFacts
<1>. QED  BY <1>1, <1>2, <1>3, <1>4, <1>5, <1>6, <1>8, SteadyStep

LEMMA RollbackEndsOK ==
  ASSUME IInv, RollbackFails \/ RollbackTimeout
  PROVE  IInv'
<1>1. /\ sup.flip \in {"exit", "rebind", "resume"} /\ sup' = Abandoned(sup)
      /\ Kill({sup.blue}) /\ flips' = flips
      /\ Fault \/ NoFault
      /\ outbox' = outbox \/ (\E type : Hears(sup.blue, type))
  BY DEF RollbackFails, RollbackTimeout, HearsCtl, NoFault
<1>2. faults' \in 0..MaxFaults
  BY <1>1, FaultOK
<1>3. Reads
  BY <1>1, FlipFacts, HearsReads, StaysReads DEF Backward
<1>4. Owner \in {sup.blue} \cup {None}
  BY <1>1, OwnerIs
<1>. QED  BY <1>1, <1>2, <1>3, <1>4, SupFacts, AbandonOK

-----------------------------------------------------------------------------
(* The steps that ask a hub to change its part: drain, promote, rebind. *)

LEMMA ReadTail ==
  ASSUME IInv, Reads, NEW k \in Hubs
  PROVE  /\ outbox'[k] \in Seq(OutMsgs)
         /\ Has(outbox'[k], "released") => Has(outbox[k], "released")
         /\ OutBounded(outbox'[k], sup.pepoch)
<1>1. outbox[k] \in Seq(OutMsgs) /\ OutBounded(outbox[k], sup.pepoch) /\ sup.pepoch \in Nat
  BY HubFacts DEF Shape, EpochsBounded
<1>2. CASE outbox'[k] = outbox[k]
  BY <1>1, <1>2
<1>3. CASE outbox[k] # << >> /\ outbox'[k] = Tail(outbox[k])
  BY <1>1, <1>3, HasTail, OutBoundedStep
<1>. QED  BY <1>2, <1>3 DEF Reads

\* The supervisor asks hub h, from then on the owner.
LEMMA TurnStep ==
  ASSUME IInv, Shape', SupOK', EpochsGrow, Reads, sup'.seen = sup.seen, sup'.poison # "stop",
         NEW h \in Hubs, Owner' = h, hub'[h] = hub[h],
         InBounded(inbox'[h], sup'.pepoch, sup'.bepoch), Running(h) => Phase(h)',
         \A k \in Hubs \ {h} :
           Passive(k) /\ ~(Running(k)' /\ Claimant(k)' /\ k = Owner),
         \/ sup'.flip \in {"promoted", "rebind"}
         \/ sup.flip = "pause" /\ sup'.green = sup.green /\ h # sup.green
  PROVE  IInv'
<1>1. HubOK(h)'
  <2>1. /\ hub[h].ep <= sup.pepoch /\ hub[h].grant <= sup.pepoch /\ hub[h].ctl <= sup.bepoch
        /\ hub[h] \in HubRecs /\ sup.pepoch \in Nat /\ sup.bepoch \in Nat
    BY HubFacts DEF EpochsBounded
  <2>2. OutBounded(outbox'[h], sup'.pepoch)
    BY <2>1, ReadTail, OutBoundedStep DEF EpochsGrow
  <2>3. EpochsBounded(h)'
    BY <2>1, <2>2 DEF EpochsBounded, EpochsGrow, HubRecs
  <2>4. h \in sup'.seen => hub'[h].st = "dead" /\ outbox'[h] = << >>
    BY SupFacts DEF Reads
  <2>5. Running(h)' <=> Running(h)
    BY DEF Running
  <2>6. ~(sup'.flip \in {"ready", "pause", "released"} /\ h = sup'.green)
    BY SupFacts DEF SupRecs
  <2>. QED  BY <2>3, <2>4, <2>5, <2>6 DEF HubOK
<1>2. ASSUME NEW k \in Hubs, k # h
      PROVE  HubOK(k)'
  <2>1. HubOK(k) /\ Passive(k) /\ k # Owner'
    BY <1>2 DEF IInv
  <2>2. ~(Running(k)' /\ Claimant(k)')
    BY <1>2, <2>1, PassiveOK DEF HubOK
  <2>3. /\ Running(k)' /\ sup'.flip \in {"ready", "pause", "released"} /\ k = sup'.green
        => ~Has(outbox[k], "released")'
    BY <2>1, PassiveOK, OutboxTail DEF HubOK
  <2>4. k \in sup'.seen => hub'[k].st = "dead" /\ outbox'[k] = << >>
    BY <2>1, SupFacts, PassiveOK DEF Reads
  <2>. QED  BY <2>1, <2>2, <2>3, <2>4, PassiveOK DEF HubOK
<1>. QED  BY <1>1, <1>2 DEF IInv

\* What appending a request does to an inbox.
LEMMA Asked ==
  ASSUME IInv, NEW h \in Hubs, NEW m \in InMsgs, inbox'[h] = Append(inbox[h], m)
  PROVE  /\ \A t : Has(inbox'[h], t) <=> Has(inbox[h], t) \/ m.type = t
         /\ \A t, u : NoneAfter(inbox[h], t, u) /\ (m.type = u => ~Has(inbox[h], t))
                      => NoneAfter(inbox'[h], t, u)
<1>1. inbox[h] \in Seq(InMsgs)
  BY SupFacts
<1>. QED  BY <1>1, HasAppend, NoneAfterAppend

LEMMA AskedBounded ==
  ASSUME IInv, EpochsGrow, NEW h \in Hubs, NEW m \in InMsgs,
         inbox'[h] = inbox[h] \/ inbox'[h] = Append(inbox[h], m),
         m.type \notin {"pause", "resume"}, m.type \in {"promote", "abort"} => m.n <= sup'.pepoch
  PROVE  InBounded(inbox'[h], sup'.pepoch, sup'.bepoch)
<1>1. inbox[h] \in Seq(InMsgs) /\ InBounded(inbox[h], sup.pepoch, sup.bepoch)
  BY HubFacts DEF Shape, EpochsBounded
<1>2. InBounded(inbox[h], sup'.pepoch, sup'.bepoch)
  BY <1>1, HubFacts, InBoundedStep DEF EpochsGrow
<1>. QED  BY <1>1, <1>2, InBoundedStep DEF EpochsGrow

LEMMA FlipDrainOK ==
  ASSUME IInv, FlipDrain
  PROVE  IInv'
<1>. DEFINE m == Msg("drain", 0, TRUE)
<1>0. PICK b \in Hubs : b = sup.blue
  BY FlipFacts DEF FlipDrain, Forward
<1>1. /\ sup.flip = "pause" /\ Hears(b, "ctl") /\ inbox' = Sent(inbox, b, m)
      /\ sup' = [sup EXCEPT !.flip = "released", !.owner = IF @ = b THEN None ELSE @]
      /\ UNCHANGED <<hub, faults, flips>>
  BY <1>0 DEF FlipDrain, HearsCtl
<1>2. /\ b \in Hubs /\ sup.green \in Hubs /\ b # sup.green
      /\ sup.boot = "no" /\ sup.poison = "no" /\ ~sup.mayOwn
      /\ sup.live = b \/ (sup.live = None /\ b \in sup.seen)
  BY <1>0, <1>1, FlipFacts, SupFacts DEF Forward, SupOK
<1>3. /\ sup' \in SupRecs /\ sup'.flip = "released"
      /\ UNCHANGED <<sup.blue, sup.green, sup.live, sup.mayOwn, sup.boot, sup.cand, sup.poison,
                     sup.retired, sup.seen, sup.pepoch, sup.bepoch, sup.epochOf>>
  <2>. DEFINE o == IF sup.owner = b THEN None ELSE sup.owner
  <2>1. o \in Somebody /\ sup' = [sup EXCEPT !.flip = "released", !.owner = o]
    BY <1>1, SupFacts DEF SupRecs, Somebody
  <2>. HIDE DEF o
  <2>2. sup' \in SupRecs
    BY <2>1, SupFacts DEF SupRecs, Forward
  <2>. QED  BY <2>1, <2>2, SupFacts DEF SupRecs
<1>4. m \in InMsgs /\ m.type = "drain"
  BY DEF Msg, InMsgs, InTypes
<1>. HIDE DEF m
<1>5. Reads
  BY <1>1, <1>2, HearsReads
<1>6. /\ inbox' \in [Hubs -> Seq(InMsgs)] /\ \A k \in Hubs \ {b} : inbox'[k] = inbox[k]
      /\ inbox'[b] = IF Running(b) THEN Append(inbox[b], m) ELSE inbox[b]
  <2>1. /\ Sent(inbox, b, m) \in [Hubs -> Seq(InMsgs)]
        /\ \A k \in Hubs \ {b} : Sent(inbox, b, m)[k] = inbox[k]
        /\ Sent(inbox, b, m)[b] = IF Running(b) THEN Append(inbox[b], m) ELSE inbox[b]
    BY <1>4, SentOK, SupFacts
  <2>. QED  BY <1>1, <2>1
<1>7. Shape'
  BY <1>1, <1>3, <1>5, <1>6, SupFacts DEF Shape, Reads
<1>8. SupOK' /\ EpochsGrow
  BY <1>0, <1>2, <1>3, SupFacts DEF SupOK, InFlip, Forward, Backward, EpochsGrow
<1>9. InBounded(inbox'[b], sup'.pepoch, sup'.bepoch)
  BY <1>2, <1>4, <1>6, <1>8, AskedBounded
<1>10. Owner = b /\ Owner' = b
  BY <1>0, <1>1, <1>3, OwnerIs, OwnerIsNext
<1>11. ASSUME Running(b)
       PROVE  Drained(b)'
  <2>1. Steady(b) /\ hub'[b] = hub[b] /\ inbox'[b] = Append(inbox[b], m)
    BY <1>1, <1>2, <1>6, <1>10, <1>11, SupFacts DEF HubOK, Phase
  <2>2. ~Has(outbox'[b], "released")
    BY <1>2, <1>5, <2>1, ReadTail DEF Steady
  <2>3. \A t : Has(inbox'[b], t) <=> Has(inbox[b], t) \/ m.type = t
    BY <1>2, <1>4, <2>1, Asked
  <2>4. NoneAfter(inbox'[b], "drain", "drain")
    BY <1>2, <1>4, <2>1, Asked, NoneAfterEmpty DEF Steady, Quiet
  <2>. QED  BY <1>4, <2>1, <2>2, <2>3, <2>4 DEF Drained, Steady, Quiet
<1>12. \A k \in Hubs \ {b} : Passive(k)
  BY <1>1, <1>5, <1>6, Zenon DEF Passive, Reads
<1>13. Running(b) => Phase(b)'
  BY <1>3, <1>11 DEF Phase
<1>14. /\ sup'.seen = sup.seen /\ sup'.poison # "stop" /\ hub'[b] = hub[b]
       /\ sup.flip = "pause" /\ sup'.green = sup.green /\ b # sup.green
       /\ \A k \in Hubs \ {b} : ~(Running(k)' /\ Claimant(k)' /\ k = Owner)
  BY <1>1, <1>2, <1>3, <1>10
<1>. QED  BY <1>5, <1>7, <1>8, <1>9, <1>10, <1>12, <1>13, <1>14, TurnStep

LEMMA FlipPromoteOK ==
  ASSUME IInv, FlipPromote
  PROVE  IInv'
<1>. DEFINE m == Msg("promote", sup.pepoch + 1, TRUE)
<1>0. PICK b \in Hubs, g \in Hubs : b = sup.blue /\ g = sup.green /\ b # g
  BY FlipFacts DEF FlipPromote, Forward
<1>1. /\ sup.flip = "released" /\ Hears(b, "released") /\ inbox' = Sent(inbox, g, m)
      /\ sup' = [sup EXCEPT !.flip = "promoted", !.mayOwn = TRUE, !.pepoch = @ + 1]
      /\ UNCHANGED <<hub, faults, flips>>
  BY <1>0 DEF FlipPromote
<1>2. /\ sup.boot = "no" /\ sup.poison = "no"
      /\ sup.live = b \/ (sup.live = None /\ b \in sup.seen)
  BY <1>0, <1>1, FlipFacts, SupFacts DEF Forward, SupOK
<1>3. /\ sup' \in SupRecs /\ sup'.flip = "promoted" /\ sup'.mayOwn
      /\ sup'.pepoch = sup.pepoch + 1
      /\ UNCHANGED <<sup.blue, sup.green, sup.live, sup.boot, sup.cand, sup.poison,
                     sup.retired, sup.seen, sup.bepoch, sup.epochOf>>
  <2>1. PICK p \in Nat : p = sup.pepoch + 1
    BY SupFacts
  <2>2. sup' = [sup EXCEPT !.flip = "promoted", !.mayOwn = TRUE, !.pepoch = p]
    BY <1>1, <2>1
  <2>3. sup' \in SupRecs
    BY <2>2, SupFacts DEF SupRecs, Forward
  <2>. QED  BY <2>1, <2>2, <2>3, SupFacts, SMTT(60) DEF SupRecs
<1>4. m \in InMsgs /\ m.type = "promote" /\ m.n = sup'.pepoch
  BY <1>3, SupFacts DEF Msg, InMsgs, InTypes
<1>. HIDE DEF m
<1>5. Reads
  BY <1>1, HearsReads
<1>6. /\ inbox' \in [Hubs -> Seq(InMsgs)] /\ \A k \in Hubs \ {g} : inbox'[k] = inbox[k]
      /\ inbox'[g] = IF Running(g) THEN Append(inbox[g], m) ELSE inbox[g]
  <2>1. /\ Sent(inbox, g, m) \in [Hubs -> Seq(InMsgs)]
        /\ \A k \in Hubs \ {g} : Sent(inbox, g, m)[k] = inbox[k]
        /\ Sent(inbox, g, m)[g] = IF Running(g) THEN Append(inbox[g], m) ELSE inbox[g]
    BY <1>4, SentOK, SupFacts
  <2>. QED  BY <1>1, <2>1
<1>7. Shape'
  BY <1>1, <1>3, <1>5, <1>6, SupFacts DEF Shape, Reads
<1>8. EpochsGrow /\ sup.pepoch < sup'.pepoch
  BY <1>3, SupFacts DEF EpochsGrow
<1>9. SupOK'
  <2>1. \A h \in Hubs : sup'.epochOf[h] <= sup'.pepoch
    BY <1>3, SupFacts, SMTT(60) DEF SupOK, SupRecs
  <2>. QED  BY <1>0, <1>2, <1>3, <2>1, SupFacts DEF SupOK, InFlip, Forward, Backward
<1>10. InBounded(inbox'[g], sup'.pepoch, sup'.bepoch)
  <2>1. m.n <= sup'.pepoch
    BY <1>3, <1>4, SupFacts
  <2>. QED  BY <1>4, <1>6, <1>8, <2>1, AskedBounded
<1>11. Owner = b /\ Owner' = g
  BY <1>0, <1>1, <1>3, OwnerIs, OwnerIsNext
\* blue has answered that it let go of everything
<1>12. \A k \in Hubs \ {g} : Passive(k)
  BY <1>1, <1>5, <1>6, Zenon DEF Passive, Reads
<1>13. ~(Running(b) /\ Claimant(b))
  <2>. SUFFICES ASSUME Running(b), Claimant(b)
                PROVE  FALSE
    OBVIOUS
  <2>1. Drained(b)
    BY <1>1, <1>11, SupFacts DEF HubOK, Phase
  <2>2. Has(outbox[b], "released")
    BY <1>1, Heard, SupFacts
  <2>3. hub[b].op = "idle"
    BY <2>1, <2>2, SupFacts DEF Drained
  <2>. QED  BY <2>1, <2>2, <2>3 DEF Drained, Claimant, Quiet
<1>14. \A k \in Hubs \ {g} : ~(Running(k)' /\ Claimant(k)' /\ k = Owner)
  BY <1>8, <1>11, <1>12, <1>13, PassiveOK
<1>15. ASSUME Running(g)
       PROVE  Promoted(g)'
  <2>1. Quiet(g) /\ ~Has(outbox[g], "released")
    BY <1>0, <1>1, <1>11, <1>15, SupFacts DEF HubOK, Claimant
  <2>2. hub'[g] = hub[g] /\ inbox'[g] = Append(inbox[g], m)
    BY <1>1, <1>6, <1>15
  <2>3. ~Has(outbox'[g], "released") /\ ~HasN(outbox'[g], "promoted", sup'.pepoch)
    BY <1>5, <1>8, <2>1, ReadTail, OutBoundedStep, SupFacts DEF EpochsGrow
  <2>4. /\ \A t : Has(inbox'[g], t) <=> Has(inbox[g], t) \/ m.type = t
        /\ NoneAfter(inbox'[g], "promote", "promote")
    BY <1>4, <2>1, <2>2, Asked, NoneAfterEmpty DEF Quiet
  <2>. QED  BY <1>4, <2>1, <2>2, <2>3, <2>4 DEF Promoted, Quiet
<1>16. Running(g) => Phase(g)'
  BY <1>3, <1>15 DEF Phase
<1>17. sup'.seen = sup.seen /\ sup'.poison # "stop" /\ hub'[g] = hub[g]
  BY <1>1, <1>2, <1>3
<1>. QED
  BY <1>3, <1>5, <1>7, <1>8, <1>9, <1>10, <1>11, <1>12, <1>14, <1>16, <1>17, TurnStep

LEMMA KilledAsked ==
  ASSUME hub \in [Hubs -> HubRecs], inbox \in [Hubs -> Seq(InMsgs)], NEW S, NEW b \in Hubs,
         b \notin S, NEW m \in InMsgs,
         hub' = Killed(hub, S), inbox' = Sent(Emptied(inbox, S), b, m)
  PROVE  /\ inbox' \in [Hubs -> Seq(InMsgs)]
         /\ \A k \in Hubs \ {b} : inbox'[k] = inbox[k] \/ inbox'[k] = << >>
         /\ inbox'[b] = IF Running(b) THEN Append(inbox[b], m) ELSE inbox[b]
         /\ hub' \in [Hubs -> HubRecs] /\ hub'[b] = hub[b]
         /\ \A k \in Hubs :
              \/ hub'[k] = hub[k]
              \/ Running(k) /\ hub'[k] = [hub[k] EXCEPT !.st = "killed"]
<1>1. /\ Emptied(inbox, S) \in [Hubs -> Seq(InMsgs)]
      /\ \A k \in Hubs : Emptied(inbox, S)[k] = IF k \in S THEN << >> ELSE inbox[k]
  BY EmptiedOK
<1>. DEFINE f == Emptied(inbox, S)
<1>. HIDE DEF f
<1>2. /\ Sent(f, b, m) \in [Hubs -> Seq(InMsgs)]
      /\ \A k \in Hubs \ {b} : Sent(f, b, m)[k] = f[k]
      /\ Sent(f, b, m)[b] = IF Running(b) THEN Append(f[b], m) ELSE f[b]
  BY <1>1, SentOK DEF f
<1>. QED  BY <1>1, <1>2, KilledOK DEF f

\* Blue is asked to take the listener back, whatever it had let go of.
LEMMA RebindOK ==
  ASSUME IInv, sup.flip \in {"ready", "pause", "released", "exit"}, NEW s \in SupRecs,
         s.live = sup.live, s.blue = sup.blue, s.green = sup.green, s.boot = sup.boot,
         s.poison = sup.poison, s.seen = sup.seen, s.pepoch = sup.pepoch,
         s.bepoch = sup.bepoch, s.epochOf = sup.epochOf,
         s.retired \in {sup.retired, sup.retired \cup {sup.green}},
         NEW S \in SUBSET {sup.green},
         sup' = [s EXCEPT !.flip = "rebind", !.pepoch = @ + 1],
         hub' = Killed(hub, S),
         inbox' = Sent(Emptied(inbox, S), s.blue, Msg("abort", s.pepoch + 1, TRUE)),
         Reads, faults' \in 0..MaxFaults, flips' = flips
  PROVE  IInv'
<1>. DEFINE m == Msg("abort", s.pepoch + 1, TRUE)
<1>0. PICK b \in Hubs : b = sup.blue /\ sup.green \in Hubs /\ b # sup.green /\ b \notin S
  BY FlipFacts DEF Forward, Backward
<1>1. inbox' = Sent(Emptied(inbox, S), b, m)
  BY <1>0
<1>2. /\ sup.boot = "no" /\ sup.poison = "no"
      /\ sup.live = b \/ (sup.live = None /\ b \in sup.seen)
  BY <1>0, FlipFacts DEF Forward, Backward
<1>3. /\ sup' \in SupRecs /\ sup'.flip = "rebind" /\ sup'.pepoch = sup.pepoch + 1
      /\ UNCHANGED <<sup.blue, sup.green, sup.live, sup.boot, sup.poison, sup.seen, sup.bepoch,
                     sup.epochOf>>
      /\ sup'.retired \in {sup.retired, sup.retired \cup {sup.green}}
  <2>1. PICK p \in Nat : p = sup.pepoch + 1
    BY SupFacts
  <2>2. sup' = [s EXCEPT !.flip = "rebind", !.pepoch = p]
    BY <2>1
  <2>3. sup' \in SupRecs
    BY <2>2 DEF SupRecs, Backward
  <2>. QED  BY <2>1, <2>2, <2>3 DEF SupRecs
<1>4. m \in InMsgs /\ m.type = "abort" /\ m.n = sup'.pepoch
  BY <1>3, SupFacts DEF Msg, InMsgs, InTypes
<1>. HIDE DEF m
<1>6. hub \in [Hubs -> HubRecs] /\ inbox \in [Hubs -> Seq(InMsgs)] /\ m \in InMsgs
  BY <1>4, SupFacts
<1>5. /\ inbox' \in [Hubs -> Seq(InMsgs)]
      /\ \A k \in Hubs \ {b} : inbox'[k] = inbox[k] \/ inbox'[k] = << >>
      /\ inbox'[b] = IF Running(b) THEN Append(inbox[b], m) ELSE inbox[b]
      /\ hub' \in [Hubs -> HubRecs] /\ hub'[b] = hub[b]
      /\ \A k \in Hubs :
           \/ hub'[k] = hub[k]
           \/ Running(k) /\ hub'[k] = [hub[k] EXCEPT !.st = "killed"]
  <2>1. b \notin S /\ hub' = Killed(hub, S)
    BY <1>0
  <2>. QED  BY <1>1, <1>6, <2>1, KilledAsked, Zenon
<1>8. Shape'
  BY <1>3, <1>5, SupFacts DEF Shape, Reads
<1>9. EpochsGrow /\ sup.pepoch < sup'.pepoch
  BY <1>3, SupFacts DEF EpochsGrow
<1>10. SupOK'
  <2>1. \A h \in Hubs : sup'.epochOf[h] <= sup'.pepoch
    BY <1>3, SupFacts, SMTT(60) DEF SupOK, SupRecs
  <2>2. sup'.live # None => sup'.live \notin sup'.seen /\ sup'.live \notin sup'.retired
    BY <1>0, <1>2, <1>3, SupFacts DEF SupOK
  <2>. QED  BY <1>0, <1>2, <1>3, <2>1, <2>2 DEF SupOK, InFlip, Forward, Backward
<1>11. InBounded(inbox'[b], sup'.pepoch, sup'.bepoch)
  <2>1. m.n <= sup'.pepoch
    BY <1>3, <1>4, SupFacts
  <2>. QED  BY <1>4, <1>5, <1>9, <2>1, AskedBounded
<1>12. ((Owner = b /\ sup.flip # "exit") \/ Owner = None) /\ Owner' = b
  BY <1>0, <1>3, OwnerIs, OwnerIsNext
<1>13. ASSUME NEW k \in Hubs, k # b
       PROVE  Passive(k) /\ ~(Running(k)' /\ Claimant(k)' /\ k = Owner)
  <2>1. inbox'[k] = inbox[k] \/ inbox'[k] = << >>
    BY <1>5, <1>13
  <2>2. \/ outbox'[k] = outbox[k]
        \/ outbox[k] # << >> /\ outbox'[k] = Tail(outbox[k])
    BY DEF Reads
  <2>3. Passive(k)
    BY <1>5, <2>1, <2>2, Zenon DEF Passive
  <2>. QED  BY <1>12, <1>13, <2>3, SupFacts
<1>14. ASSUME Running(b)
       PROVE  Rebound(b)'
  <2>1. Steady(b) \/ Drained(b) \/ Quiet(b)
    <3>1. CASE Owner = b /\ sup.flip # "exit"
      BY <1>14, <3>1, SupFacts DEF HubOK, Phase
    <3>2. CASE Owner = None
      BY <1>14, <3>2, SupFacts DEF HubOK, Claimant
    <3>. QED  BY <1>12, <3>1, <3>2
  <2>2. /\ ~hub[b].abort /\ hub[b].op # "promote"
        /\ ~Has(inbox[b], "promote") /\ ~Has(inbox[b], "abort")
        /\ NoneAfter(inbox[b], "drain", "drain")
        /\ Has(inbox[b], "drain") => hub[b].op = "idle"
    BY <2>1, NoneAfterEmpty DEF Drained, Steady, Quiet
  <2>3. inbox'[b] = Append(inbox[b], m)
    BY <1>5, <1>14
  <2>4. ~HasN(outbox'[b], "rebound", sup'.pepoch)
    BY <1>9, ReadTail, OutBoundedStep, SupFacts DEF EpochsGrow
  <2>5. NoneAfterN(outbox'[b], "rebound", sup'.pepoch, "released")
    BY <2>4 DEF HasN, NoneAfterN
  <2>6. \A t : Has(inbox'[b], t) <=> Has(inbox[b], t) \/ m.type = t
    BY <1>4, <2>3, Asked
  <2>7. /\ NoneAfter(inbox'[b], "abort", "abort") /\ NoneAfter(inbox'[b], "abort", "drain")
        /\ NoneAfter(inbox'[b], "drain", "drain")
    BY <1>4, <2>2, <2>3, Asked, NoneAfterEmpty
  <2>. QED  BY <1>4, <1>5, <2>2, <2>4, <2>5, <2>6, <2>7 DEF Rebound
<1>15. Running(b) => Phase(b)'
  BY <1>3, <1>14 DEF Phase
<1>16. sup'.seen = sup.seen /\ sup'.poison # "stop"
  BY <1>2, <1>3
<1>. QED
  BY <1>3, <1>5, <1>8, <1>9, <1>10, <1>11, <1>12, <1>13, <1>15, <1>16, TurnStep

LEMMA RequestRebindOK ==
  ASSUME IInv, sup.flip \in {"ready", "pause", "released", "exit"}, NEW s \in SupRecs,
         s.live = sup.live, s.blue = sup.blue, s.green = sup.green, s.boot = sup.boot,
         s.poison = sup.poison, s.seen = sup.seen, s.pepoch = sup.pepoch,
         s.bepoch = sup.bepoch, s.epochOf = sup.epochOf,
         s.retired \in {sup.retired, sup.retired \cup {sup.green}},
         NEW S \in SUBSET {sup.green}, RequestRebind(s, S),
         Reads, faults' \in 0..MaxFaults, flips' = flips
  PROVE  IInv'
<1>1. CASE s.blue \in s.seen
  <2>1. sup' = Abandoned(s) /\ Kill(S \cup {s.blue})
    BY <1>1 DEF RequestRebind
  <2>2. Owner \in (S \cup {s.blue}) \cup {None}
    BY OwnerIs
  <2>3. sup.flip \in Forward \cup {"exit", "rebind", "resume"}
    BY DEF Forward
  <2>. QED  BY <2>1, <2>2, <2>3, AbandonOK
<1>2. CASE s.blue \notin s.seen
  <2>1. /\ sup' = [s EXCEPT !.flip = "rebind", !.pepoch = @ + 1]
        /\ hub' = Killed(hub, S)
        /\ inbox' = Sent(Emptied(inbox, S), s.blue, Msg("abort", s.pepoch + 1, TRUE))
    BY <1>2 DEF RequestRebind
  <2>. QED  BY <2>1, RebindOK
<1>. QED  BY <1>1, <1>2

LEMMA RollBackOK ==
  ASSUME IInv, sup.flip \in Forward, RollBack, Reads, faults' \in 0..MaxFaults, flips' = flips
  PROVE  IInv'
<1>. DEFINE s == [sup EXCEPT !.retired = @ \cup {sup.green}]
<1>1. /\ s \in SupRecs
      /\ s.flip = sup.flip /\ s.live = sup.live /\ s.blue = sup.blue
      /\ s.green = sup.green /\ s.boot = sup.boot /\ s.poison = sup.poison
      /\ s.seen = sup.seen /\ s.pepoch = sup.pepoch /\ s.bepoch = sup.bepoch
      /\ s.epochOf = sup.epochOf /\ s.mayOwn = sup.mayOwn
      /\ s.retired = sup.retired \cup {sup.green}
  BY GreenRetires
<1>2. IF s.mayOwn THEN sup' = [s EXCEPT !.flip = "exit"] /\ Kill({s.green})
                  ELSE RequestRebind(s, {s.green})
  BY DEF RollBack
<1>. HIDE DEF s
<1>3. /\ sup.blue \in Hubs /\ sup.green \in Hubs /\ sup.blue # sup.green
      /\ sup.boot = "no" /\ sup.poison = "no"
      /\ sup.live = sup.blue \/ (sup.live = None /\ sup.blue \in sup.seen)
  BY FlipFacts DEF Forward
<1>4. CASE ~s.mayOwn
  <2>1. sup.flip \in {"ready", "pause", "released", "exit"}
    BY <1>1, <1>4, SupFacts DEF SupOK, Forward
  <2>2. RequestRebind(s, {s.green})
    BY <1>2, <1>4
  <2>. QED  BY <1>1, <2>1, <2>2, RequestRebindOK
<1>5. CASE s.mayOwn
  <2>1. sup' = [s EXCEPT !.flip = "exit"] /\ Kill({sup.green})
    BY <1>1, <1>2, <1>5
  <2>2. /\ sup' \in SupRecs /\ sup'.flip = "exit"
        /\ UNCHANGED <<sup.blue, sup.green, sup.live, sup.boot, sup.poison, sup.seen,
                       sup.pepoch, sup.bepoch, sup.epochOf>>
        /\ sup'.retired = sup.retired \cup {sup.green}
    <3>1. sup' \in SupRecs
      BY <1>1, <2>1 DEF SupRecs, Backward
    <3>. QED  BY <1>1, <2>1, <3>1 DEF SupRecs
  <2>3. /\ hub' \in [Hubs -> HubRecs] /\ inbox' \in [Hubs -> Seq(InMsgs)]
        /\ \A k \in Hubs : Passive(k) /\ (k \in {sup.green} => ~Running(k)')
    BY <2>1, KillPassive
  <2>4. Shape'
    BY <2>2, <2>3, SupFacts DEF Shape, Reads
  <2>5. SupOK'
    BY <1>3, <2>2, SupFacts DEF SupOK, InFlip, Forward, Backward
  <2>6. EpochsGrow /\ \A k \in sup'.seen : hub'[k].st = "dead" /\ outbox'[k] = << >>
    BY <2>2, <2>3, SupFacts, SeenStay DEF EpochsGrow
  <2>7. sup.flip \in {"promoted", "act"}
    BY <1>1, <1>5, SupFacts DEF SupOK, Forward
  <2>8. Owner = sup.green /\ Owner' = None
    BY <2>2, <2>7, OwnerIs, OwnerIsNext
  <2>9. /\ \A k \in Hubs : ~(Running(k)' /\ Claimant(k)' /\ k = Owner)
        /\ \A k \in Hubs : k # Owner'
    BY <2>3, <2>8, SupFacts
  <2>. QED  BY <1>3, <2>2, <2>3, <2>4, <2>5, <2>6, <2>9, SteadyStep
<1>6. s.mayOwn \in BOOLEAN
  BY <1>1 DEF SupRecs
<1>. QED  BY <1>4, <1>5, <1>6

LEMMA FlipEndsOK ==
  ASSUME IInv, FlipFails \/ FlipTimeout
  PROVE  IInv'
<1>1. /\ sup.flip \in Forward /\ RollBack /\ flips' = flips /\ (Fault \/ NoFault)
      /\ \/ outbox' = outbox
         \/ \E type : Hears(sup.blue, type) \/ Hears(sup.green, type)
  BY DEF FlipFails, FlipTimeout, HearsCtl, AwaitedHub, NoFault
<1>2. Reads
  BY <1>1, FlipFacts, HearsReads, StaysReads
<1>. QED  BY <1>1, <1>2, FaultOK, RollBackOK

LEMMA RollbackFreedOK ==
  ASSUME IInv, RollbackFreed
  PROVE  IInv'
<1>1. /\ sup.flip = "exit" /\ RequestRebind(sup, {}) /\ UNCHANGED <<outbox, faults, flips>>
      /\ Reads
  BY StaysReads DEF RollbackFreed
<1>2. {} \in SUBSET {sup.green} /\ faults' \in 0..MaxFaults
  BY <1>1, SupFacts
<1>. QED  BY <1>1, <1>2, SupFacts, RequestRebindOK

-----------------------------------------------------------------------------
(* The steps that start a process. *)

LEMMA SpawnStep ==
  ASSUME IInv, NEW h \in Hubs, h \in sup.seen, NEW b \in BOOLEAN, NEW e \in Nat,
         hub' = [hub EXCEPT ![h] = Fresh(b, e)], inbox' = [inbox EXCEPT ![h] = << >>],
         outbox' = [outbox EXCEPT ![h] = << >>], faults' = faults, flips' \in 0..MaxFlips,
         sup' \in SupRecs, SupOK', EpochsGrow, e <= sup'.pepoch, sup'.seen = sup.seen \ {h},
         sup'.poison # "stop", b \/ h = Owner',
         sup.flip \in {"idle", "poison"}, sup'.flip \in {"idle", "poison", "ready"},
         sup'.flip = "ready" => sup'.green = h,
         \A k \in Hubs \ {h} : k = Owner' <=> k = Owner
  PROVE  IInv'
<1>1. /\ Fresh(b, e) \in HubRecs /\ Fresh(b, e).st = "boot" /\ Fresh(b, e).standby = b
      /\ Fresh(b, e).question = FALSE /\ Fresh(b, e).profile = ~b /\ Fresh(b, e).op = "idle"
      /\ Fresh(b, e).abort = FALSE /\ Fresh(b, e).ep = e /\ Fresh(b, e).grant = 0
      /\ Fresh(b, e).ctl = 0
  BY DEF Fresh, HubRecs
<1>2. /\ hub' \in [Hubs -> HubRecs] /\ hub'[h] = Fresh(b, e)
      /\ inbox'[h] = << >> /\ outbox'[h] = << >>
      /\ inbox' \in [Hubs -> Seq(InMsgs)] /\ outbox' \in [Hubs -> Seq(OutMsgs)]
      /\ \A k \in Hubs \ {h} :
           hub'[k] = hub[k] /\ inbox'[k] = inbox[k] /\ outbox'[k] = outbox[k]
  <2>1. << >> \in Seq(InMsgs) /\ << >> \in Seq(OutMsgs)
    OBVIOUS
  <2>2. /\ hub \in [Hubs -> HubRecs] /\ inbox \in [Hubs -> Seq(InMsgs)]
        /\ outbox \in [Hubs -> Seq(OutMsgs)]
    BY SupFacts
  <2>. QED  BY <1>1, <2>1, <2>2
<1>3. Shape'
  BY <1>2, SupFacts DEF Shape
<1>4. HubOK(h)'
  <2>1. EpochsBounded(h)'
    BY <1>1, <1>2, BoundedEmpty DEF EpochsBounded, EpochsGrow
  <2>2. Steady(h)'
    BY <1>1, <1>2, HasEmpty DEF Steady, Quiet
  <2>3. Phase(h)'
    BY <2>2 DEF Phase
  <2>4. Claimant(h)' => h = Owner'
    BY <1>1, <1>2, <2>2 DEF Claimant, Steady
  <2>. QED  BY <1>2, <2>1, <2>3, <2>4, HasEmpty DEF HubOK
<1>5. ASSUME NEW k \in Hubs, k # h
      PROVE  HubOK(k)'
  <2>1. HubOK(k) /\ Passive(k)
    BY <1>2, <1>5, Zenon DEF IInv, Passive
  <2>2. Running(k)' /\ Claimant(k)' => k = Owner'
    BY <1>5, <2>1, PassiveOK DEF HubOK
  <2>3. Running(k)' /\ k = Owner' => Phase(k)'
    <3>1. ASSUME Running(k)', k = Owner'
          PROVE  Steady(k)'
      BY <1>5, <2>1, <3>1, PassiveOK DEF HubOK, Phase
    <3>. QED  BY <3>1 DEF Phase
  <2>4. ~(sup'.flip \in {"ready", "pause", "released"} /\ k = sup'.green)
    BY <1>5
  <2>5. k \in sup'.seen => hub'[k].st = "dead" /\ outbox'[k] = << >>
    BY <1>2, <1>5, SupFacts
  <2>. QED  BY <2>1, <2>2, <2>3, <2>4, <2>5, PassiveOK DEF HubOK
<1>. QED  BY <1>3, <1>4, <1>5 DEF IInv

LEMMA AnIdleIs ==
  ASSUME \E h \in Hubs : Idle(h)
  PROVE  /\ AnIdle \in Hubs /\ AnIdle \in sup.seen
         /\ AnIdle \notin {sup.live, sup.blue, sup.green, sup.cand, sup.owner}
BY DEF AnIdle, Idle

LEMMA BootSpawnOK ==
  ASSUME IInv, BootSpawn
  PROVE  IInv'
<1>1. PICK h \in Hubs, e \in Nat :
        /\ h = AnIdle /\ h \in sup.seen /\ e = sup.pepoch + 1
  BY AnIdleIs, SupFacts DEF BootSpawn
<1>2. /\ sup.boot = "wait"
      /\ hub' = [hub EXCEPT ![h] = Fresh(FALSE, e)]
      /\ inbox' = [inbox EXCEPT ![h] = << >>]
      /\ outbox' = [outbox EXCEPT ![h] = << >>]
      /\ sup' = [sup EXCEPT !.boot = "ready", !.cand = h, !.pepoch = e,
                            !.epochOf[h] = e, !.seen = @ \ {h}, !.retired = @ \ {h}]
      /\ UNCHANGED <<faults, flips>>
  BY <1>1 DEF BootSpawn
<1>3. /\ sup.live = None /\ sup.flip \in {"idle", "poison"}
      /\ sup.poison \in {"no", "boot"} /\ ~sup.mayOwn
  BY <1>2, SupFacts DEF SupOK, InFlip, SupRecs
<1>4. /\ sup' \in SupRecs /\ sup'.boot = "ready" /\ sup'.cand = h /\ sup'.pepoch = e
      /\ sup'.seen = sup.seen \ {h} /\ \A k \in Hubs : sup'.epochOf[k] <= e
      /\ UNCHANGED <<sup.flip, sup.live, sup.blue, sup.green, sup.mayOwn, sup.poison,
                     sup.bepoch>>
  <2>. DEFINE E == [sup.epochOf EXCEPT ![h] = e]
              R == sup.retired \ {h}
              Q == sup.seen \ {h}
  <2>1. sup' = [sup EXCEPT !.boot = "ready", !.cand = h, !.pepoch = e,
                           !.epochOf = E, !.seen = Q, !.retired = R]
    BY <1>2
  <2>2. E \in [Hubs -> Nat] /\ \A k \in Hubs : E[k] <= e
    <3>1. /\ sup.epochOf \in [Hubs -> Nat] /\ \A k \in Hubs : sup.epochOf[k] <= sup.pepoch
          /\ sup.pepoch \in Nat
      BY SupFacts DEF SupRecs, SupOK
    <3>. QED  BY <1>1, <3>1
  <2>3. R \in SUBSET Somebody /\ Q \in SUBSET Hubs
    BY SupFacts DEF SupRecs
  <2>. HIDE DEF E, R, Q
  <2>4. sup' \in SupRecs
    <3>1. sup \in SupRecs
      BY SupFacts
    <3>. QED  BY <2>1, <2>2, <2>3, <3>1 DEF SupRecs, Somebody
  <2>5. sup'.seen = Q
    BY <2>1, SupFacts DEF SupRecs
  <2>. QED  BY <2>1, <2>2, <2>4, <2>5, SupFacts DEF SupRecs, Q
<1>5. SupOK'
  BY <1>3, <1>4, SupFacts DEF SupOK, InFlip, Forward, Backward
<1>6. EpochsGrow /\ e <= sup'.pepoch
  BY <1>1, <1>4, SupFacts DEF EpochsGrow
<1>7. Owner = None /\ Owner' = h
  BY <1>2, <1>3, <1>4, OwnerIs, OwnerIsNext
<1>8. \A k \in Hubs \ {h} : k = Owner' <=> k = Owner
  BY <1>7, SupFacts
<1>9. flips' \in 0..MaxFlips /\ faults' = faults
  BY <1>2, SupFacts
<1>. QED  BY <1>1, <1>2, <1>3, <1>4, <1>5, <1>6, <1>7, <1>8, <1>9, SpawnStep

LEMMA RestartRequestOK ==
  ASSUME IInv, RestartRequest
  PROVE  IInv'
<1>1. PICK g \in Hubs, b \in Hubs, e \in Nat :
        /\ g = AnIdle /\ g \in sup.seen /\ b = sup.live /\ b # g /\ e = sup.epochOf[b]
  <2>1. /\ AnIdle \in Hubs /\ AnIdle \in sup.seen /\ AnIdle # sup.live
        /\ sup.live # None
    BY AnIdleIs DEF RestartRequest
  <2>2. sup.live \in Hubs /\ sup.epochOf[sup.live] \in Nat
    BY <2>1, SupFacts DEF SupRecs, Somebody
  <2>. QED  BY <2>1, <2>2
<1>2. /\ sup.poison = "no" /\ sup.flip = "idle" /\ flips < MaxFlips /\ flips' = flips + 1
      /\ hub' = [hub EXCEPT ![g] = Fresh(TRUE, e)]
      /\ inbox' = [inbox EXCEPT ![g] = << >>]
      /\ outbox' = [outbox EXCEPT ![g] = << >>]
      /\ sup' = [sup EXCEPT !.flip = "ready", !.blue = b, !.green = g,
                            !.epochOf[g] = e, !.seen = @ \ {g}, !.retired = @ \ {g}]
      /\ faults' = faults
  BY <1>1 DEF RestartRequest
<1>3. sup.boot = "no" /\ ~sup.mayOwn /\ b \notin sup.seen /\ b \notin sup.retired /\ e <= sup.pepoch
  BY <1>1, <1>2, SupFacts DEF SupOK
<1>4. /\ sup' \in SupRecs /\ sup'.flip = "ready" /\ sup'.blue = b /\ sup'.green = g
      /\ sup'.seen = sup.seen \ {g} /\ \A k \in Hubs : sup'.epochOf[k] <= sup.pepoch
      /\ sup'.retired = sup.retired \ {g}
      /\ UNCHANGED <<sup.live, sup.boot, sup.cand, sup.mayOwn, sup.poison, sup.pepoch, sup.bepoch>>
  <2>. DEFINE E == [sup.epochOf EXCEPT ![g] = e]
              R == sup.retired \ {g}
              Q == sup.seen \ {g}
  <2>1. sup' = [sup EXCEPT !.flip = "ready", !.blue = b, !.green = g,
                           !.epochOf = E, !.seen = Q, !.retired = R]
    BY <1>2
  <2>2. E \in [Hubs -> Nat] /\ \A k \in Hubs : E[k] <= sup.pepoch
    <3>1. /\ sup.epochOf \in [Hubs -> Nat] /\ \A k \in Hubs : sup.epochOf[k] <= sup.pepoch
      BY SupFacts DEF SupRecs, SupOK
    <3>. QED  BY <1>1, <1>3, <3>1
  <2>3. R \in SUBSET Somebody /\ Q \in SUBSET Hubs
    BY SupFacts DEF SupRecs
  <2>. HIDE DEF E, R, Q
  <2>4. sup' \in SupRecs
    BY <1>1, <2>1, <2>2, <2>3, SupFacts, ZenonT(60) DEF SupRecs, Somebody, Forward
  <2>5. sup'.retired = R /\ sup'.seen = Q
    BY <2>1, SupFacts DEF SupRecs
  <2>. QED  BY <2>1, <2>2, <2>4, <2>5, SupFacts, SMTT(60) DEF SupRecs, R, Q
<1>5. SupOK'
  BY <1>1, <1>2, <1>3, <1>4, SupFacts DEF SupOK, InFlip, Forward, Backward
<1>6. EpochsGrow /\ e <= sup'.pepoch
  BY <1>3, <1>4, SupFacts DEF EpochsGrow
<1>7. Owner = b /\ Owner' = b
  BY <1>1, <1>2, <1>3, <1>4, OwnerIs, OwnerIsNext
<1>8. flips' \in 0..MaxFlips
  BY <1>2, SupFacts, FlipAssumption
<1>. QED  BY <1>1, <1>2, <1>3, <1>4, <1>5, <1>6, <1>7, <1>8, SpawnStep

-----------------------------------------------------------------------------
(* The invariant holds in every state. *)

LEMMA InitOK == Init => IInv
<1>. SUFFICES ASSUME Init PROVE IInv
  OBVIOUS
<1>. USE FlipAssumption
<1>1. /\ Gone(0) \in HubRecs /\ Gone(0).st = "dead" /\ Gone(0).ep = 0 /\ Gone(0).grant = 0
      /\ Gone(0).ctl = 0
  BY DEF Gone, Fresh, HubRecs
<1>2. /\ hub \in [Hubs -> HubRecs] /\ \A h \in Hubs : hub[h] = Gone(0)
      /\ inbox \in [Hubs -> Seq(InMsgs)] /\ \A h \in Hubs : inbox[h] = << >>
      /\ outbox \in [Hubs -> Seq(OutMsgs)] /\ \A h \in Hubs : outbox[h] = << >>
  <2>1. << >> \in Seq(InMsgs) /\ << >> \in Seq(OutMsgs)
    OBVIOUS
  <2>. QED  BY <1>1, <2>1 DEF Init
<1>3. SupInit \in SupRecs
  BY DEF SupInit, SupRecs, Somebody
<1>4. /\ sup = SupInit /\ sup.flip = "idle" /\ ~sup.mayOwn /\ sup.boot = "wait"
      /\ sup.live = None /\ sup.poison = "no" /\ sup.seen = Hubs
      /\ sup.pepoch = 0 /\ sup.bepoch = 0 /\ \A h \in Hubs : sup.epochOf[h] = 0
  BY DEF Init, SupInit
<1>5. Shape
  BY <1>2, <1>3 DEF Init, Shape
<1>6. SupOK
  BY <1>4 DEF SupOK, InFlip, Forward, Backward
<1>7. ASSUME NEW h \in Hubs
      PROVE  HubOK(h)
  <2>1. EpochsBounded(h)
    BY <1>1, <1>2, <1>4, BoundedEmpty DEF EpochsBounded
  <2>. QED  BY <1>1, <1>2, <1>4, <2>1 DEF HubOK, Running
<1>. QED  BY <1>5, <1>6, <1>7 DEF IInv

LEMMA StutterOK ==
  ASSUME IInv, UNCHANGED vars
  PROVE  IInv'
<1>1. UNCHANGED <<hub, inbox, outbox, sup, faults, flips>>
  BY DEF vars
<1>2. Shape' /\ SupOK' /\ EpochsGrow
  BY <1>1, SupFacts DEF Shape, SupOK, InFlip, EpochsGrow
<1>3. /\ \A k \in Hubs : Passive(k)
      /\ \A k \in sup'.seen : hub'[k].st = "dead" /\ outbox'[k] = << >>
  BY <1>1, SupFacts, StaysReads, SeenStay, IdlePassive
<1>4. Owner' = Owner
  BY <1>1 DEF Owner
<1>. QED  BY <1>1, <1>2, <1>3, <1>4, SameFlipStep

LEMMA NextOK ==
  ASSUME IInv, [Next]_vars
  PROVE  IInv'
<1>1. ASSUME NEW h \in Hubs, Listens(h) \/ Serves(h) \/ Adopts(h)
      PROVE  IInv'
  BY <1>1, HubReadyOK, DyingOK, BackupStepsOK, HubDrainOK, DrainLoginsOK, DrainTurnsOK,
     DrainClosedOK, HubPromoteOK, PromoteBindsOK, HubAbortOK, AbortRebindsOK
  DEF Listens, Serves, Adopts
<1>2. ASSUME NEW h \in Hubs, HubFault(h) \/ SnapStart(h) \/ SnapEnd(h) \/ Hearing(h)
      PROVE  IInv'
  BY <1>2, DyingOK, DrainFailsOK, PromoteFailsOK, HubAbortFailsOK, AbortFailsOK, BackupStepsOK,
     HearingOK
  DEF HubFault, Hearing
<1>3. CASE Boots \/ SupFault \/ RestartRequest \/ SupDies
  BY <1>3, BootSpawnOK, BootReadyOK, RefusedOK, BootLiveOK, BootEndsOK, PoisonOK, FlipEndsOK,
     RollbackRetryOK, RollbackEndsOK, RestartRequestOK, SupDiesOK
  DEF Boots, SupFault
<1>4. CASE Flips
  BY <1>4, FlipPauseOK, RefusedOK, FlipDrainOK, FlipPromoteOK, FlipActivateOK, FlipCommitOK,
     FlipEndsOK, RollbackFreedOK, RollbackResumeOK, RolledBackOK, RollbackEndsOK, AbandonDoneOK
  DEF Flips
<1>. QED  BY <1>1, <1>2, <1>3, <1>4, StutterOK DEF Next

\* BlueGreenFlip's type invariant holds for any set of hubs, number of faults and of requests
\* (hubctl.ts, index.ts, restartController.ts).
THEOREM TypeCorrect == Spec => []TypeOK
<1>1. IInv => TypeOK
  <2>. SUFFICES ASSUME IInv PROVE TypeOK
    OBVIOUS
  <2>1. ASSUME NEW h \in Hubs
        PROVE  /\ hub[h].st \in {"dead", "boot", "up", "killed"}
               /\ hub[h].port \in {"no", "eph", "pub"}
               /\ hub[h].op \in {"idle", "logins", "turns", "closing", "promote"}
               /\ hub[h].ep \in 0..sup.pepoch /\ hub[h].ctl \in 0..sup.bepoch
    BY HubFacts DEF EpochsBounded, HubRecs
  <2>2. /\ {sup.live, sup.blue, sup.green, sup.cand, sup.owner} \subseteq Hubs \cup {None}
        /\ sup.flip \in Forward \cup {"idle", "exit", "rebind", "resume", "abandon", "poison"}
        /\ sup.boot \in {"no", "wait", "ready", "act"}
        /\ sup.poison \in {"no", "stop", "boot", "offline"}
    BY SupFacts DEF SupRecs, Somebody, Backward
  <2>. QED  BY <2>1, <2>2, SupFacts DEF TypeOK
<1>. QED  BY <1>1, InitOK, NextOK, PTL DEF Spec

-----------------------------------------------------------------------------
(* The backup lease. *)

\* Hub k keeps its part in the backups, or drops it.
Drops(k) ==
  \/ UNCHANGED <<hub[k].lease, hub[k].active, hub[k].snap>>
  \/ ~hub'[k].lease /\ ~hub'[k].active /\ ~hub'[k].snap

LEMMA LeaseDrops ==
  ASSUME LeaseInv, \A k \in Hubs : Drops(k)
  PROVE  LeaseInv'
BY DEF LeaseInv, Drops

LEMMA LeaseLocal ==
  ASSUME LeaseInv, NEW h \in Hubs, \A k \in Hubs \ {h} : hub'[k] = hub[k],
         hub'[h].lease => hub[h].lease \/ LeaseFree,
         hub'[h].active \/ hub'[h].snap => hub'[h].lease
  PROVE  LeaseInv'
BY DEF LeaseInv, LeaseFree

\* Hub h alone takes a step, from hub[h] to r.
LEMMA OneHub ==
  ASSUME hub \in [Hubs -> HubRecs], NEW h \in Hubs, NEW r, hub' = [hub EXCEPT ![h] = r],
         \/ r.lease = hub[h].lease /\ r.active = hub[h].active /\ r.snap = hub[h].snap
         \/ ~r.lease /\ ~r.active /\ ~r.snap
  PROVE  \A k \in Hubs : Drops(k) /\ (k # h => hub'[k] = hub[k])
<1>1. hub'[h] = r /\ \A k \in Hubs \ {h} : hub'[k] = hub[k]
  OBVIOUS
<1>. QED  BY <1>1 DEF Drops

LEMMA DieDrops ==
  ASSUME hub \in [Hubs -> HubRecs], NEW h \in Hubs, Die(h)
  PROVE  \A k \in Hubs : Drops(k) /\ (k # h => hub'[k] = hub[k])
<1>1. PICK r : r = Gone(hub[h].ep)
  OBVIOUS
<1>2. hub' = [hub EXCEPT ![h] = r]
  BY <1>1 DEF Die
<1>3. ~r.lease /\ ~r.active /\ ~r.snap
  BY <1>1 DEF Gone, Fresh
<1>. QED  BY <1>2, <1>3, OneHub

\* A step of the hubs is one of a single hub; it touches no field of the backups,
\* unless the process dies.
LEMMA LocalDrops ==
  ASSUME hub \in [Hubs -> HubRecs], NEW h \in Hubs,
         \/ HubReady(h) \/ Reap(h) \/ HubRetire(h) \/ HubDrain(h) \/ DrainLogins(h)
         \/ DrainTurns(h) \/ DrainClosed(h) \/ HubPromote(h) \/ PromoteBinds(h) \/ HubAbort(h)
         \/ AbortRebinds(h) \/ HubOrphan(h) \/ HubFault(h)
  PROVE  \A k \in Hubs : Drops(k) /\ (k # h => hub'[k] = hub[k])
<1>. DEFINE Alike(r) ==
              r.lease = hub[h].lease /\ r.active = hub[h].active /\ r.snap = hub[h].snap
            Alone == \A k \in Hubs : Drops(k) /\ (k # h => hub'[k] = hub[k])
<1>1. hub[h] \in HubRecs
  OBVIOUS
<1>2. ASSUME NEW r, hub' = [hub EXCEPT ![h] = r], Alike(r)
      PROVE  Alone
  BY <1>2, OneHub
<1>3. ASSUME hub' = hub
      PROVE  Alone
  BY <1>3 DEF Drops
<1>4. CASE \/ Reap(h) \/ HubRetire(h) \/ HubRefuse(h) \/ HubCrash(h)
           \/ HubOrphan(h) /\ hub[h].port # "pub"
           \/ HubReady(h) /\ Die(h)
  <2>1. Die(h)
    BY <1>4 DEF Reap, HubRetire, HubRefuse, HubCrash, HubOrphan
  <2>. QED  BY <2>1, DieDrops
<1>5. CASE HubReady(h) /\ ~Die(h)
  <2>1. \/ hub' = [hub EXCEPT ![h].st = "up", ![h].port = "eph"]
        \/ hub' = [hub EXCEPT ![h].st = "up", ![h].port = "pub", ![h].question = TRUE]
    BY <1>5 DEF HubReady
  <2>2. ASSUME hub' = [hub EXCEPT ![h].st = "up", ![h].port = "eph"]
        PROVE  Alone
    <3>1. hub' = [hub EXCEPT ![h] = [hub[h] EXCEPT !.st = "up", !.port = "eph"]]
      BY <2>2
    <3>2. Alike([hub[h] EXCEPT !.st = "up", !.port = "eph"])
      BY <1>1 DEF HubRecs
    <3>. QED  BY <1>2, <3>1, <3>2
  <2>3. ASSUME hub' = [hub EXCEPT ![h].st = "up", ![h].port = "pub", ![h].question = TRUE]
        PROVE  Alone
    <3>1. hub' = [hub EXCEPT ![h] = [hub[h] EXCEPT !.st = "up", !.port = "pub", !.question = TRUE]]
      BY <2>3
    <3>2. Alike([hub[h] EXCEPT !.st = "up", !.port = "pub", !.question = TRUE])
      BY <1>1 DEF HubRecs
    <3>. QED  BY <1>2, <3>1, <3>2
  <2>. QED  BY <2>1, <2>2, <2>3
<1>6. CASE HubOrphan(h) /\ hub[h].port = "pub"
  <2>1. hub' = [hub EXCEPT ![h].orphan = TRUE]
    BY <1>6 DEF HubOrphan
  <2>2. ASSUME hub' = [hub EXCEPT ![h].orphan = TRUE]
        PROVE  Alone
    <3>1. hub' = [hub EXCEPT ![h] = [hub[h] EXCEPT !.orphan = TRUE]]
      BY <2>2
    <3>2. Alike([hub[h] EXCEPT !.orphan = TRUE])
      BY <1>1 DEF HubRecs
    <3>. QED  BY <1>2, <3>1, <3>2
  <2>. QED  BY <2>1, <2>2
<1>7. CASE HubDrain(h)
  <2>1. \/ hub' = hub
        \/ hub' = [hub EXCEPT ![h].op = "logins", ![h].draining = TRUE, ![h].fenced = FALSE]
    BY <1>7 DEF HubDrain
  <2>2. ASSUME hub' = [hub EXCEPT ![h].op = "logins", ![h].draining = TRUE, ![h].fenced = FALSE]
        PROVE  Alone
    <3>1. hub' = [hub EXCEPT ![h] = [hub[h] EXCEPT !.op = "logins", !.draining = TRUE, !.fenced = FALSE]]
      BY <2>2
    <3>2. Alike([hub[h] EXCEPT !.op = "logins", !.draining = TRUE, !.fenced = FALSE])
      BY <1>1 DEF HubRecs
    <3>. QED  BY <1>2, <3>1, <3>2
  <2>. QED  BY <2>1, <1>3, <2>2
<1>8. CASE DrainLogins(h)
  <2>1. \/ hub' = [hub EXCEPT ![h].op = "idle", ![h].draining = FALSE]
        \/ hub' = [hub EXCEPT ![h].op = "turns", ![h].question = FALSE]
    BY <1>8 DEF DrainLogins
  <2>2. ASSUME hub' = [hub EXCEPT ![h].op = "idle", ![h].draining = FALSE]
        PROVE  Alone
    <3>1. hub' = [hub EXCEPT ![h] = [hub[h] EXCEPT !.op = "idle", !.draining = FALSE]]
      BY <2>2
    <3>2. Alike([hub[h] EXCEPT !.op = "idle", !.draining = FALSE])
      BY <1>1 DEF HubRecs
    <3>. QED  BY <1>2, <3>1, <3>2
  <2>3. ASSUME hub' = [hub EXCEPT ![h].op = "turns", ![h].question = FALSE]
        PROVE  Alone
    <3>1. hub' = [hub EXCEPT ![h] = [hub[h] EXCEPT !.op = "turns", !.question = FALSE]]
      BY <2>3
    <3>2. Alike([hub[h] EXCEPT !.op = "turns", !.question = FALSE])
      BY <1>1 DEF HubRecs
    <3>. QED  BY <1>2, <3>1, <3>2
  <2>. QED  BY <2>1, <2>2, <2>3
<1>9. CASE DrainTurns(h)
  <2>1. \/ hub' = [hub EXCEPT ![h].op = "idle"]
        \/ hub' = [hub EXCEPT ![h].op = "closing", ![h].profile = FALSE, ![h].port = "no"]
    BY <1>9 DEF DrainTurns
  <2>2. ASSUME hub' = [hub EXCEPT ![h].op = "idle"]
        PROVE  Alone
    <3>1. hub' = [hub EXCEPT ![h] = [hub[h] EXCEPT !.op = "idle"]]
      BY <2>2
    <3>2. Alike([hub[h] EXCEPT !.op = "idle"])
      BY <1>1 DEF HubRecs
    <3>. QED  BY <1>2, <3>1, <3>2
  <2>3. ASSUME hub' = [hub EXCEPT ![h].op = "closing", ![h].profile = FALSE, ![h].port = "no"]
        PROVE  Alone
    <3>1. hub' = [hub EXCEPT ![h] = [hub[h] EXCEPT !.op = "closing", !.profile = FALSE, !.port = "no"]]
      BY <2>3
    <3>2. Alike([hub[h] EXCEPT !.op = "closing", !.profile = FALSE, !.port = "no"])
      BY <1>1 DEF HubRecs
    <3>. QED  BY <1>2, <3>1, <3>2
  <2>. QED  BY <2>1, <2>2, <2>3
<1>10. CASE DrainClosed(h)
  <2>1. hub' = [hub EXCEPT ![h].op = "idle"]
    BY <1>10 DEF DrainClosed
  <2>2. ASSUME hub' = [hub EXCEPT ![h].op = "idle"]
        PROVE  Alone
    <3>1. hub' = [hub EXCEPT ![h] = [hub[h] EXCEPT !.op = "idle"]]
      BY <2>2
    <3>2. Alike([hub[h] EXCEPT !.op = "idle"])
      BY <1>1 DEF HubRecs
    <3>. QED  BY <1>2, <3>1, <3>2
  <2>. QED  BY <2>1, <2>2
<1>11. CASE DrainFails(h)
  <2>1. \/ hub' = [hub EXCEPT ![h].op = "idle", ![h].draining = FALSE, ![h].question = TRUE]
        \/ hub' = [hub EXCEPT ![h].op = "idle", ![h].port = "no"]
    BY <1>11 DEF DrainFails
  <2>2. ASSUME hub' = [hub EXCEPT ![h].op = "idle", ![h].draining = FALSE, ![h].question = TRUE]
        PROVE  Alone
    <3>1. hub' = [hub EXCEPT ![h] = [hub[h] EXCEPT !.op = "idle", !.draining = FALSE, !.question = TRUE]]
      BY <2>2
    <3>2. Alike([hub[h] EXCEPT !.op = "idle", !.draining = FALSE, !.question = TRUE])
      BY <1>1 DEF HubRecs
    <3>. QED  BY <1>2, <3>1, <3>2
  <2>3. ASSUME hub' = [hub EXCEPT ![h].op = "idle", ![h].port = "no"]
        PROVE  Alone
    <3>1. hub' = [hub EXCEPT ![h] = [hub[h] EXCEPT !.op = "idle", !.port = "no"]]
      BY <2>3
    <3>2. Alike([hub[h] EXCEPT !.op = "idle", !.port = "no"])
      BY <1>1 DEF HubRecs
    <3>. QED  BY <1>2, <3>1, <3>2
  <2>. QED  BY <2>1, <2>2, <2>3
<1>12. CASE HubPromote(h)
  <2>1. hub' = [hub EXCEPT ![h].op = "promote", ![h].port = "no", ![h].grant = Head(inbox[h]).n]
    BY <1>12 DEF HubPromote
  <2>2. ASSUME hub' = [hub EXCEPT ![h].op = "promote", ![h].port = "no", ![h].grant = Head(inbox[h]).n]
        PROVE  Alone
    <3>1. hub' = [hub EXCEPT ![h] = [hub[h] EXCEPT !.op = "promote", !.port = "no", !.grant = Head(inbox[h]).n]]
      BY <2>2
    <3>2. Alike([hub[h] EXCEPT !.op = "promote", !.port = "no", !.grant = Head(inbox[h]).n])
      BY <1>1 DEF HubRecs
    <3>. QED  BY <1>2, <3>1, <3>2
  <2>. QED  BY <2>1, <2>2
<1>13. CASE HubAbort(h)
  <2>1. hub' = [hub EXCEPT ![h].abort = TRUE, ![h].grant = Head(inbox[h]).n, ![h].fenced = (hub[h].op # "idle")]
    BY <1>13 DEF HubAbort
  <2>2. ASSUME hub' = [hub EXCEPT ![h].abort = TRUE, ![h].grant = Head(inbox[h]).n, ![h].fenced = (hub[h].op # "idle")]
        PROVE  Alone
    <3>1. hub' = [hub EXCEPT ![h] = [hub[h] EXCEPT !.abort = TRUE, !.grant = Head(inbox[h]).n, !.fenced = (hub[h].op # "idle")]]
      BY <2>2
    <3>2. Alike([hub[h] EXCEPT !.abort = TRUE, !.grant = Head(inbox[h]).n, !.fenced = (hub[h].op # "idle")])
      BY <1>1 DEF HubRecs
    <3>. QED  BY <1>2, <3>1, <3>2
  <2>. QED  BY <2>1, <2>2
<1>14. CASE HubAbortFails(h)
  <2>1. hub' = [hub EXCEPT ![h].draining = TRUE, ![h].fenced = (hub[h].op # "idle")]
    BY <1>14 DEF HubAbortFails
  <2>2. ASSUME hub' = [hub EXCEPT ![h].draining = TRUE, ![h].fenced = (hub[h].op # "idle")]
        PROVE  Alone
    <3>1. hub' = [hub EXCEPT ![h] = [hub[h] EXCEPT !.draining = TRUE, !.fenced = (hub[h].op # "idle")]]
      BY <2>2
    <3>2. Alike([hub[h] EXCEPT !.draining = TRUE, !.fenced = (hub[h].op # "idle")])
      BY <1>1 DEF HubRecs
    <3>. QED  BY <1>2, <3>1, <3>2
  <2>. QED  BY <2>1, <2>2
<1>15. CASE PromoteBinds(h) \/ AbortRebinds(h) \/ PromoteFails(h) \/ AbortFails(h)
  <2>1. \/ hub' = [hub EXCEPT ![h] = Owning(hub[h], hub[h].grant)]
        \/ hub' = [hub EXCEPT ![h] = Disowning(hub[h])]
    BY <1>15 DEF PromoteBinds, AbortRebinds, PromoteFails, AbortFails
  <2>2. Alike(Owning(hub[h], hub[h].grant)) /\ Alike(Disowning(hub[h]))
    BY <1>1 DEF Owning, Disowning, HubRecs
  <2>. QED  BY <1>2, <2>1, <2>2
<1>. QED  BY <1>4, <1>5, <1>6, <1>7, <1>8, <1>9, <1>10, <1>11, <1>12, <1>13, <1>14, <1>15 DEF HubFault

LEMMA BackupLease ==
  ASSUME IInv, LeaseInv, NEW h \in Hubs,
         HubPause(h) \/ HubResume(h) \/ SnapStart(h) \/ SnapEnd(h) \/ OrphanActivates(h)
  PROVE  LeaseInv' /\ \A k \in Hubs \ {h} : hub'[k] = hub[k]
<1>1. hub[h] \in HubRecs /\ hub \in [Hubs -> HubRecs]
      /\ (hub[h].active \/ hub[h].snap => hub[h].lease)
  BY HubFacts DEF LeaseInv
<1>2. CASE HubPause(h)
  <2>1. PICK e : e = Head(inbox[h]).n
    OBVIOUS
  <2>2. \/ hub' = hub
        \/ hub' = [hub EXCEPT ![h].ctl = e, ![h].active = FALSE, ![h].pausing = e]
        \/ ~hub[h].snap
           /\ hub' = [hub EXCEPT ![h].ctl = e, ![h].active = FALSE, ![h].lease = FALSE]
    BY <1>2, <2>1 DEF HubPause
  <2>3. CASE hub' = hub
    BY <1>1, <2>3 DEF LeaseInv
  <2>4. CASE hub' = [hub EXCEPT ![h].ctl = e, ![h].active = FALSE, ![h].pausing = e]
    BY <1>1, <2>4, LeaseLocal DEF HubRecs
  <2>5. CASE ~hub[h].snap
             /\ hub' = [hub EXCEPT ![h].ctl = e, ![h].active = FALSE, ![h].lease = FALSE]
    BY <1>1, <2>5, LeaseLocal DEF HubRecs
  <2>. QED  BY <2>2, <2>3, <2>4, <2>5
<1>3. CASE HubResume(h)
  <2>1. PICK e : e = Head(inbox[h]).n
    OBVIOUS
  <2>2. PICK ok \in BOOLEAN : ok <=> hub[h].lease \/ LeaseFree
    OBVIOUS
  <2>3. hub' = hub \/ hub' = [hub EXCEPT ![h].ctl = e, ![h].active = ok, ![h].lease = ok]
    <3>1. (hub[h].lease \/ LeaseFree) = ok
      BY <1>1, <2>2 DEF HubRecs, LeaseFree
    <3>. QED  BY <1>3, <2>1, <3>1, Zenon DEF HubResume
  <2>4. CASE hub' = hub
    BY <1>1, <2>4 DEF LeaseInv
  <2>5. CASE hub' = [hub EXCEPT ![h].ctl = e, ![h].active = ok, ![h].lease = ok]
    <3>1. /\ \A k \in Hubs \ {h} : hub'[k] = hub[k]
          /\ hub'[h].lease = ok /\ hub'[h].active = ok /\ hub'[h].snap = hub[h].snap
      BY <1>1, <2>2, <2>5 DEF HubRecs
    <3>2. hub[h].snap => ok
      BY <1>1, <2>2
    <3>. QED  BY <2>2, <3>1, <3>2, LeaseLocal
  <2>. QED  BY <2>3, <2>4, <2>5
<1>4. CASE SnapStart(h)
  BY <1>1, <1>4, LeaseLocal DEF SnapStart, HubRecs
<1>5. CASE SnapEnd(h)
  BY <1>1, <1>5, LeaseLocal DEF SnapEnd, HubRecs
<1>6. CASE OrphanActivates(h)
  BY <1>1, <1>6, LeaseLocal DEF OrphanActivates, HubRecs
<1>. QED  BY <1>2, <1>3, <1>4, <1>5, <1>6

\* A step of the supervisor starts a process without a part in the backups and without
\* questions, or kills some processes.
LEMMA SupKills ==
  ASSUME IInv, \/ Boots \/ Flips \/ SupFault \/ RestartRequest \/ SupDies
               \/ \E h \in Hubs : Hearing(h)
  PROVE  \/ hub' = hub
         \/ \E S : hub' = Killed(hub, S)
         \/ \E h \in Hubs : \E b, e : hub' = [hub EXCEPT ![h] = Fresh(b, e)]
<1>. DEFINE Kills == \E S : hub' = Killed(hub, S)
            Spawns == \E h \in Hubs : \E b, e : hub' = [hub EXCEPT ![h] = Fresh(b, e)]
<1>1. (\A S : Kill(S) => Kills) /\ (KillAll => Kills)
  BY DEF Kill, KillAll
<1>2. ASSUME NEW s, NEW S, RequestRebind(s, S)
      PROVE  Kills
  BY <1>1, <1>2 DEF RequestRebind
<1>3. RollBack => Kills
  BY <1>1, <1>2 DEF RollBack
<1>4. ASSUME NEW h, Hearing(h)
      PROVE  hub' = hub
  BY <1>4 DEF Hearing, Exit, Ignore
<1>5. CASE Boots
  <2>1. CASE BootSpawn
    BY <2>1, AnIdleIs DEF BootSpawn
  <2>2. CASE BootReady \/ BootRefused \/ BootLive \/ BootFails \/ PoisonStopped
    BY <1>1, <2>2 DEF BootReady, BootRefused, BootLive, BootFails, PoisonStopped
  <2>. QED  BY <1>5, <2>1, <2>2 DEF Boots
<1>6. CASE Flips
  <2>1. CASE FlipPause \/ FlipDrain \/ FlipPromote \/ FlipActivate \/ FlipCommit
             \/ RollbackResume \/ RolledBack \/ AbandonDone
    BY <2>1 DEF FlipPause, FlipDrain, FlipPromote, FlipActivate, FlipCommit, RollbackResume,
                RolledBack, AbandonDone
  <2>2. CASE FlipRefused \/ FlipFails \/ RollbackFreed \/ RollbackFails
    BY <1>1, <1>2, <1>3, <2>2 DEF FlipRefused, FlipFails, RollbackFreed, RollbackFails
  <2>. QED  BY <1>6, <2>1, <2>2 DEF Flips
<1>7. CASE SupFault
  BY <1>1, <1>3, <1>7
  DEF SupFault, BootTimeout, PoisonFails, FlipTimeout, RollbackRetry, RollbackTimeout
<1>8. CASE RestartRequest
  BY <1>8, AnIdleIs DEF RestartRequest
<1>9. CASE SupDies
  BY <1>9 DEF SupDies
<1>. QED  BY <1>4, <1>5, <1>6, <1>7, <1>8, <1>9

\* A step is one of a single hub, or it kills.
LEMMA StepShape ==
  ASSUME IInv, LeaseInv, [Next]_vars
  PROVE  /\ LeaseInv'
         /\ \/ \E h \in Hubs : \A k \in Hubs \ {h} : hub'[k] = hub[k]
            \/ \A k \in Hubs : hub'[k] = hub[k] \/ ~Running(k)'
<1>1. hub \in [Hubs -> HubRecs]
  BY SupFacts
<1>2. ASSUME NEW h \in Hubs, Listens(h) \/ Serves(h) \/ Adopts(h) \/ HubFault(h)
                             \/ SnapStart(h) \/ SnapEnd(h)
      PROVE  LeaseInv' /\ \A k \in Hubs \ {h} : hub'[k] = hub[k]
  <2>1. CASE HubPause(h) \/ HubResume(h) \/ SnapStart(h) \/ SnapEnd(h) \/ OrphanActivates(h)
    BY <2>1, BackupLease
  <2>2. CASE \/ HubReady(h) \/ Reap(h) \/ HubRetire(h) \/ HubDrain(h) \/ DrainLogins(h)
             \/ DrainTurns(h) \/ DrainClosed(h) \/ HubPromote(h) \/ PromoteBinds(h)
             \/ HubAbort(h) \/ AbortRebinds(h) \/ HubOrphan(h) \/ HubFault(h)
    <3>1. \A k \in Hubs : Drops(k) /\ (k # h => hub'[k] = hub[k])
      BY <1>1, <2>2, LocalDrops
    <3>. QED  BY <3>1, LeaseDrops
  <2>. QED  BY <1>2, <2>1, <2>2 DEF Listens, Serves, Adopts
<1>3. CASE hub' = hub
  BY <1>1, <1>3 DEF LeaseInv
<1>4. ASSUME NEW S, hub' = Killed(hub, S)
      PROVE  LeaseInv' /\ \A k \in Hubs : hub'[k] = hub[k] \/ ~Running(k)'
  <2>1. ASSUME NEW k \in Hubs
        PROVE  Drops(k) /\ (hub'[k] = hub[k] \/ ~Running(k)')
    <3>1. \/ hub'[k] = hub[k]
          \/ hub'[k] = [hub[k] EXCEPT !.st = "killed"]
      BY <1>1, <1>4, KilledOK
    <3>2. hub[k] \in HubRecs
      BY <1>1
    <3>. QED  BY <3>1, <3>2 DEF Drops, Running, HubRecs
  <2>. QED  BY <2>1, LeaseDrops
<1>5. ASSUME NEW h \in Hubs, NEW b, NEW e, hub' = [hub EXCEPT ![h] = Fresh(b, e)]
      PROVE  LeaseInv' /\ \A k \in Hubs \ {h} : hub'[k] = hub[k]
  <2>1. ~Fresh(b, e).lease /\ ~Fresh(b, e).active /\ ~Fresh(b, e).snap
    BY DEF Fresh
  <2>2. \A k \in Hubs : Drops(k) /\ (k # h => hub'[k] = hub[k])
    BY <1>1, <1>5, <2>1, OneHub
  <2>. QED  BY <2>2, LeaseDrops
<1>6. CASE UNCHANGED vars
  BY <1>3, <1>6 DEF vars
<1>7. CASE \/ Boots \/ Flips \/ SupFault \/ RestartRequest \/ SupDies
           \/ \E h \in Hubs : Hearing(h)
  BY <1>3, <1>4, <1>5, <1>7, SupKills
<1>. QED  BY <1>2, <1>6, <1>7 DEF Next

LEMMA InitLease == Init => LeaseInv
<1>1. ~Gone(0).lease /\ ~Gone(0).active /\ ~Gone(0).snap
  BY DEF Gone, Fresh
<1>. QED  BY <1>1 DEF Init, LeaseInv

-----------------------------------------------------------------------------
(* One holder. *)

LEMMA AtMostOne ==
  ASSUME NEW S, \A x, y \in S : x = y
  PROVE  Cardinality(S) <= 1
<1>1. CASE S = {}
  BY <1>1, FS_EmptySet
<1>2. ASSUME NEW x \in S
      PROVE  Cardinality(S) <= 1
  <2>1. S = {x}
    BY <1>2
  <2>. QED  BY <2>1, FS_Singleton
<1>. QED  BY <1>1, <1>2

LEMMA HoldersOwn ==
  ASSUME IInv
  PROVE  \A h \in Holders("question") \cup Holders("profile") : h = Owner
<1>. SUFFICES ASSUME NEW h \in Hubs, Running(h), hub[h].question \/ hub[h].profile
              PROVE  h = Owner
  BY DEF Holders
<1>. QED  BY DEF IInv, HubOK, Claimant

\* However a flip, its rollback and a revival interleave with crashes, late answers and the
\* death of the supervisor, at most one running hub closes and answers questions, at most one
\* holds the profile authority, and only the holder of the backup lease writes snapshots
\* (hubctl.ts, restartController.ts, journalBackup.ts).
THEOREM OneOwnerCorrect == Spec => []OneOwner
<1>1. ASSUME IInv, LeaseInv
      PROVE  OneOwner
  <2>1. SoleAuthority
    <3>1. \A x, y \in Holders("question") : x = y
      BY <1>1, HoldersOwn
    <3>2. \A x, y \in Holders("profile") : x = y
      BY <1>1, HoldersOwn
    <3>. QED  BY <3>1, <3>2, AtMostOne DEF SoleAuthority
  <2>2. OneBackupWriter
    <3>1. \A x, y \in Holders("snap") : x = y
      BY <1>1 DEF Holders, LeaseInv
    <3>2. \A h \in Hubs : Running(h) /\ (hub[h].active \/ hub[h].snap) => hub[h].lease
      BY <1>1 DEF LeaseInv
    <3>. QED  BY <3>1, <3>2, AtMostOne DEF OneBackupWriter
  <2>. QED  BY <2>1, <2>2 DEF OneOwner
<1>2. Init => IInv /\ LeaseInv
  BY InitOK, InitLease
<1>3. IInv /\ LeaseInv /\ [Next]_vars => IInv' /\ LeaseInv'
  BY NextOK, StepShape
<1>. QED  BY <1>1, <1>2, <1>3, PTL DEF Spec

-----------------------------------------------------------------------------
(* The question lifecycle implements the abstract role. *)

LEMMA RoleInit ==
  ASSUME Init
  PROVE  Role!Init
<1>1. \A h \in Hubs : ~Running(h)
  BY DEF Init, Gone, Fresh, Running
<1>. QED  BY <1>1 DEF Role!Init, Holders

LEMMA RoleStep ==
  ASSUME IInv, LeaseInv, [Next]_vars
  PROVE  [Role!Next]_(Holders("question"))
<1>1. PICK Q : Q = Holders("question")
  OBVIOUS
<1>2. Q \subseteq Hubs /\ \A x, y \in Q : x = y
  BY <1>1, HoldersOwn DEF Holders
<1>3. Holders("question")' \subseteq Hubs /\ \A x, y \in Holders("question")' : x = y
  <2>1. IInv'
    BY NextOK
  <2>2. \A h \in Hubs : Running(h)' /\ hub'[h].question => h = Owner'
    BY <2>1 DEF IInv, HubOK, Claimant
  <2>. QED  BY <2>2 DEF Holders
<1>4. CASE Holders("question")' = Q
  BY <1>1, <1>4
<1>5. CASE Q = {} /\ Holders("question")' # {}
  <2>1. PICK h \in Hubs : Holders("question")' = {h}
    BY <1>3, <1>5
  <2>. QED  BY <1>1, <1>5, <2>1 DEF Role!Next, Role!Claim
<1>6. CASE Q # {} /\ Holders("question")' # Q
  <2>1. PICK h \in Hubs : Q = {h}
    BY <1>2, <1>6
  <2>2. Holders("question")' = {}
    <3>1. SUFFICES ASSUME NEW k \in Holders("question")'
                   PROVE  FALSE
      OBVIOUS
    <3>2. k \in Hubs /\ k # h /\ Running(k)' /\ h \notin Holders("question")'
          /\ hub'[k].question
      BY <1>3, <1>6, <2>1 DEF Holders
    <3>3. ~(Running(k) /\ hub[k].question)
      BY <1>1, <2>1, <3>2 DEF Holders
    <3>4. hub'[k] # hub[k]
      BY <3>2, <3>3 DEF Running
    <3>5. Running(h) /\ hub[h].question
      BY <1>1, <2>1 DEF Holders
    <3>6. hub'[h] # hub[h]
      BY <3>2, <3>5 DEF Running, Holders
    <3>. QED  BY <3>2, <3>4, <3>6, StepShape
  <2>. QED  BY <1>1, <2>1, <2>2 DEF Role!Next, Role!Release
<1>. QED  BY <1>4, <1>5, <1>6

\* The questions pass from one hub to the next only through a moment in which no running hub
\* holds them: a flip, a rollback, an adoption by an orphan and a revival all implement the
\* abstract role (restartController.ts, hubctl.ts).
THEOREM RoleHandedOverCorrect == Spec => RoleHandedOver
<1>1. Init => IInv /\ LeaseInv /\ Role!Init
  BY InitOK, InitLease, RoleInit
<1>2. IInv /\ LeaseInv /\ [Next]_vars => IInv' /\ LeaseInv' /\ [Role!Next]_(Holders("question"))
  BY NextOK, StepShape, RoleStep
<1>. QED  BY <1>1, <1>2, PTL DEF Spec, RoleHandedOver, Role!Spec
=============================================================================
