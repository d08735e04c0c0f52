----------------------------- MODULE MCOutboxSync -----------------------------
(***************************************************************************)
(* Instances of OutboxSync for TLC.  A discovery row (key "shape") comes   *)
(* with two observations; "late" appears with the second parser version;   *)
(* "req" is a request shape.                                               *)
(***************************************************************************)
EXTENDS OutboxSync, TLC

\* Sync workers are interchangeable (safety runs only).
WorkerSymmetry == Permutations(Worker)

MCParsers == 2
MCRowsOf ==
  << [o \in Obs |-> {"shape"}],
     [o \in Obs |-> IF o = "o1" THEN {"shape", "late"} ELSE {"shape"}] >>
MCShapeOf == [r \in ReqObs |-> "req"]
MCTableOf == [k \in Key |-> IF k = "late" THEN 1 ELSE 2]
MCCapturedAt == [o \in Obs \cup ReqObs |-> IF o = "o2" THEN 1 ELSE 0]
=============================================================================
