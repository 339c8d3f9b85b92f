--------------------------- MODULE MCJobTracking ----------------------------
(* Small instances of JobTracking for TLC. *)
EXTENDS JobTracking, TLC

\* Repository and rows share nothing, so one of them rests while the other moves.
OneAtATime ==
  \/ \A n \in Names : job[n] = NoJob
  \/ (\A j \in Jobs : rows[j] = NoRow) /\ tick = NoTick /\ ~stopped
=============================================================================
