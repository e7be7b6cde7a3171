----------------------------- MODULE MCFreedrive -----------------------------
(***************************************************************************)
(* One joint, and one controller for each mode.                            *)
(***************************************************************************)
EXTENDS Freedrive

CONSTANTS shoulder, trajectory, forward

MCModeOf ==
  [c \in Controllers |->
     CASE c = forward -> "velocity"
       [] c = Freedriver -> "freedrive"
       [] OTHER -> "position"]

MCJointsOf == [c \in Controllers |-> {shoulder}]
=============================================================================
