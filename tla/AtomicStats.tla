---------------------------- MODULE AtomicStats -----------------------------
(***************************************************************************)
(* What PeriodStats promises its two threads: a record of the loop and a   *)
(* snapshot of the reporter each take place at once, and a reset of the    *)
(* window is applied by the record after it.                               *)
(***************************************************************************)
EXTENDS Timebase

CONSTANTS Fields,    \* the fields of a Snapshot
          Samples    \* what the loop may record

VARIABLES
  stats,      \* the statistics
  seen,       \* the window the loop applied last
  request,    \* the window the reporter asked for last
  current,    \* the snapshot the reporter took last
  taken       \* the reporter has a snapshot that it has not reported

vars == << stats, seen, request, current, taken >>

Zeros == [f \in Fields |-> 0]

Init ==
  /\ stats = Zeros /\ seen = 0
  /\ request = 0 /\ current = Zeros /\ taken = FALSE

Record(s) ==
  /\ stats' = Fold(stats, request, seen, s)
  /\ seen' = request
  /\ UNCHANGED << request, current, taken >>

Snapshot ==
  /\ ~taken
  /\ current' = stats /\ taken' = TRUE
  /\ UNCHANGED << stats, seen, request >>

ResetWindow ==
  /\ taken
  /\ request' = request + 1 /\ taken' = FALSE
  /\ UNCHANGED << stats, seen, current >>

Next == Snapshot \/ ResetWindow \/ \E s \in Samples : Record(s)

Spec == Init /\ [][Next]_vars
=============================================================================
