------------------------- MODULE MCJournalPruning -------------------------
(* Small instances of JournalPruning for TLC.                               *)
EXTENDS JournalPruning

CONSTANTS p, q

\* A delta that anchors the cursor, its terminal and a new era; a delta after the terminal;
\* two diffs.
MCHistories == {<<"delta", "end", "reset">>, <<"end", "delta", "delta">>, <<"diff", "diff", "end">>}
===========================================================================
