--------------------------- MODULE MCCommandModes ---------------------------
(***************************************************************************)
(* Two joints and five controllers: one that drives the whole arm in each  *)
(* mode, and two position controllers of one joint each.                   *)
(***************************************************************************)
EXTENDS CommandModes

CONSTANTS shoulder, elbow,
          trajectory, forward, freedrive, shoulderOnly, elbowOnly

MCJoints == {shoulder, elbow}

MCModeOf ==
  [c \in Controllers |->
     CASE c = forward -> "velocity"
       [] c = freedrive -> "freedrive"
       [] OTHER -> "position"]

MCJointsOf ==
  [c \in Controllers |->
     CASE c = shoulderOnly -> {shoulder}
       [] c = elbowOnly -> {elbow}
       [] OTHER -> MCJoints]
=============================================================================
