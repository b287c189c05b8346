---------------------------- MODULE MCStoredRecords ---------------------------
(* Small instances of StoredRecords: the task is the client's and in the     *)
(* project, or internal and outside of it, and a billable timer may already *)
(* run on it.                                                                *)
EXTENDS StoredRecords

TaskMovesOut == {[owner |-> "client", project |-> "project"],
                 [owner |-> "internal", project |-> "none"]}

OneOnTask == {[id |-> 1, target |-> "task", project |-> "project", owner |-> "client",
               billable |-> TRUE]}
=============================================================================
