------------------------- MODULE WorkerReattachLog --------------------------
(***************************************************************************)
(* WorkerReattach implements ExactlyOnceLog: the log is the journal, in    *)
(* which reset markers and stale notices, of era 0, record nothing.        *)
(***************************************************************************)
EXTENDS WorkerReattach

Entry(row) == [era |-> row.era, of |-> row.of, through |-> row.wseq]

LogOf(j) == [i \in DOMAIN j |-> Entry(j[i])]

Log == INSTANCE ExactlyOnceLog WITH log <- LogOf(journal)

\* Every step of the hub and the worker is a step of the exactly-once log, or leaves
\* it unchanged: output is recorded in order, never twice, and never skipped unseen.
ImplementsLog == Log!Spec

=============================================================================
