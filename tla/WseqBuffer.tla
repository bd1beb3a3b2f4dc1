----------------------------- MODULE WseqBuffer -----------------------------
(***************************************************************************)
(* The worker's bounded per-session event ring (wseqBuffer.ts).            *)
(*                                                                         *)
(* `last` is the highest wseq ever assigned, `kinds` the kinds of the      *)
(* events still retained, oldest first.  The code stores the wseq beside   *)
(* every event; because an event is pushed with ++last and events are only *)
(* spliced off the front, its position determines it (WseqAt).             *)
(***************************************************************************)
EXTENDS Integers, Sequences

CONSTANT MaxPerSession      \* events retained per session (the constructor's argument)

ASSUME MaxPerSessionAssumption == MaxPerSession \in Nat \ {0}

EmptyRing == [last |-> 0, kinds |-> << >>]

Rings(Kinds) == [last : Nat, kinds : Seq(Kinds)]

OldestRetained(r) == r.last - Len(r.kinds) + 1

WseqAt(r, i) == r.last - Len(r.kinds) + i

Trimmed(ks) ==
  IF Len(ks) > MaxPerSession
  THEN SubSeq(ks, Len(ks) - MaxPerSession + 1, Len(ks))
  ELSE ks

\* append(): assign the next wseq, store, drop the oldest beyond the bound.
RingAppend(r, kind) == [last  |-> r.last + 1,
                        kinds |-> Trimmed(Append(r.kinds, kind))]

\* since()'s gap condition: the next event the caller needs was trimmed.
HasGap(r, cursor) == cursor + 1 < OldestRetained(r)

\* The index of the first retained event with wseq > cursor.
FirstNewer(r, cursor) ==
  IF HasGap(r, cursor) THEN 1 ELSE cursor + 1 - OldestRetained(r) + 1

\* The retained events with wseq > cursor, ascending.
Survivors(r, cursor) ==
  LET f == FirstNewer(r, cursor)
  IN  [i \in 1 .. Len(r.kinds) - f + 1 |->
         [wseq |-> WseqAt(r, f + i - 1), kind |-> r.kinds[f + i - 1]]]

\* The worker/attach-gap sentinel: it carries the highest wseq no longer available.
GapSentinel(r) == [wseq |-> OldestRetained(r) - 1, kind |-> "gap"]

\* since(): nothing for an empty ring; the sentinel first when events were trimmed.
Since(r, cursor) ==
  IF r.kinds = << >> THEN << >>
  ELSE IF HasGap(r, cursor) THEN <<GapSentinel(r)>> \o Survivors(r, cursor)
  ELSE Survivors(r, cursor)

=============================================================================
