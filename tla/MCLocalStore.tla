----------------------------- MODULE MCLocalStore -----------------------------
(* What the window keeps on this machine, under a user who works on one    *)
(* part of it at a time: the tabs, the query lists or the records of the   *)
(* workspace, at most MaxClicks choices, or the connection profiles.  The  *)
(* window may end at any moment.                                           *)
EXTENDS Workspace, ConnectionProfiles, TLC
CONSTANTS MaxClicks
VARIABLES clicks, focus
MCInit ==
  /\ WorkspaceInit /\ ProfilesInit /\ clicks = 0
  /\ focus \in {"tabs", "queries", "records", "profiles"}
Click ==
  \/ focus = "tabs" /\ TabHandlers
  \/ focus = "queries" /\ (QueryHandlers \/ NewQuery)
  \/ focus = "records" /\ (RecordHandlers \/ NewQuery)
  \/ Restart
MCNext ==
  \/ /\ focus # "profiles" /\ clicks < MaxClicks
     /\ Click /\ clicks' = clicks + 1 /\ UNCHANGED <<focus, profileVars>>
  \/ focus # "profiles" /\ Storage /\ UNCHANGED <<clicks, focus, profileVars>>
  \/ focus = "profiles" /\ ProfilesNext /\ UNCHANGED <<clicks, focus, workspaceVars>>
MCSpec == MCInit /\ [][MCNext]_<<workspaceVars, profileVars, clicks, focus>>
\* Fresh ids of profiles are chosen, never compared.
Symmetry == Permutations(Ids)
=============================================================================
