--------------------------- MODULE MCDurableRuns ---------------------------
(* Small instances of DurableRuns for TLC: every run needs every resource, so  *)
(* that no two of them may be at work together.                                *)
EXTENDS DurableRuns

CONSTANTS h1, h2, r1, r2, x

MCOrder == <<r1, r2>>
MCNeeds == [r \in Runs |-> Res]

=============================================================================
