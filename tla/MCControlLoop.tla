--------------------------- MODULE MCControlLoop ----------------------------
(***************************************************************************)
(* A wake-up is a little early, late, or late by more than two periods:    *)
(* with these the gaps between wake-ups are even.  A loop that ran missed  *)
(* cycles back to back would record them late and without a gap.           *)
(***************************************************************************)
EXTENDS ControlLoop

MCLateness == {-1, 3, 9}
BackToBack == {Sample(0, lateness) : lateness \in {1, 5}}
MCSamples  ==
  {Sample(gap, lateness) : gap \in {2 * n : n \in 0 .. 7}, lateness \in MCLateness} \cup BackToBack
=============================================================================
