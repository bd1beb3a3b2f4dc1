--------------------------- MODULE ExactlyOnceLog ---------------------------
(***************************************************************************)
(* What the hub promises about a session's worker output (the header of    *)
(* wseqBuffer.ts, attachWorker() in sessions.ts): within one worker era    *)
(* every vendor event enters the log once and in order, and an event that  *)
(* will never enter it is passed over only by an entry that says so.       *)
(***************************************************************************)
EXTENDS Integers, Sequences

VARIABLES
  produced,   \* produced[e]: the wseqs of the vendor events of worker era e
  log         \* entries [era, of, through]: the events recorded, a visible gap, or a marker

\* A marker belongs to no era and records nothing.
Marker == [era |-> 0, of |-> {}, through |-> 0]

\* A gap entry records no event; it declares everything up to `through` accounted for.
Covers(entry, e, w) == entry.era = e /\ (w \in entry.of \/ (entry.of = {} /\ w <= entry.through))

\* By an entry of l before the i-th.
AccountedBefore(l, i, e, w) == \E k \in 1 .. i - 1 : Covers(l[k], e, w)

\* What is left to record there: the events of e that no entry before the i-th accounts for.
Unaccounted(l, i, e) == {w \in produced[e] : ~AccountedBefore(l, i, e, w)}

\* The i-th entry of l may stand where it does: it is a marker, records the first
\* unaccounted events of its era, or declares a gap up to or beyond all that are accounted for.
MayStand(l, i) ==
  LET e == l[i].era
  IN  \/ l[i] = Marker
      \/ /\ e \in DOMAIN produced /\ l[i].of = {}
         /\ \A w \in produced[e] : AccountedBefore(l, i, e, w) => w <= l[i].through
      \/ /\ e \in DOMAIN produced /\ l[i].of # {}
         /\ l[i].of \subseteq Unaccounted(l, i, e)
         /\ \A w \in Unaccounted(l, i, e) \ l[i].of : \A v \in l[i].of : v < w

Init == produced = <<{}>> /\ log = << >>

\* The current era's worker emits a further event, beyond all that the log accounts for:
\* no gap declares lost what is yet to come.
Produce ==
  LET e == Len(produced)
  IN  /\ produced' = [produced EXCEPT ![e] = produced'[e]]
      /\ produced[e] \subseteq produced'[e]
      /\ \A w \in produced'[e] \ produced[e] :
           /\ \A v \in produced[e] : v < w
           /\ \A i \in DOMAIN log : log[i].era = e => log[i].through < w
      /\ UNCHANGED log

\* The worker starts numbering afresh; what it still retained is gone.
NewEra == produced' = Append(produced, {}) /\ UNCHANGED log

\* One hub callback records at most three entries: pending command output, then an
\* event or two markers.
Record ==
  /\ Len(log') \in Len(log) + 1 .. Len(log) + 3
  /\ \A i \in 1 .. Len(log) : log'[i] = log[i]
  /\ \A i \in Len(log) + 1 .. Len(log') : MayStand(log', i)
  /\ UNCHANGED produced

Next == Produce \/ NewEra \/ Record

Spec == Init /\ [][Next]_<<produced, log>>

=============================================================================
