---------------------------- MODULE PublicRole ----------------------------
(***************************************************************************)
(* What the restart promises of an exclusive role of the hub: it passes    *)
(* from one process to the next only through a moment in which nobody has  *)
(* it.                                                                     *)
(***************************************************************************)
CONSTANT Hubs
VARIABLE holders    \* the processes that hold the role

Init == holders = {}

Claim(h) == holders = {} /\ holders' = {h}
Release(h) == h \in holders /\ holders' = holders \ {h}

Next == \E h \in Hubs : Claim(h) \/ Release(h)

Spec == Init /\ [][Next]_holders
=============================================================================
