---------------------------- MODULE MCResultGrid ----------------------------
(* A small instance of the result grid: Orders and Users on every          *)
(* connection, and a user who makes at most MaxClicks choices.  The driver *)
(* and the connects answer at any moment between them.                     *)
EXTENDS ResultGrid
CONSTANTS Orders, Users, MaxClicks
VARIABLE clicks

MCInit == Init /\ clicks = 0
MCNext ==
  \/ User /\ clicks < MaxClicks /\ clicks' = clicks + 1
  \/ /\ Dispatch \/ Answer \/ Connected \/ \E n \in 1..ChunkRows : AppendChunk(n)
     /\ UNCHANGED clicks
MCSpec == MCInit /\ [][MCNext]_<<vars, clicks>> /\ Fairness
=============================================================================
