---------------------------- MODULE MCMonitorCheck ----------------------------
(* Small instances of MonitorCheck.  Workers are interchangeable: no action  *)
(* or property names one.                                                   *)
EXTENDS MonitorCheck, TLC

WorkerSymmetry == Permutations(Workers)
=============================================================================
