CONSTANTS
  Job = {1, 2}
  Worker = {"a", "b"}
  NoWorker = "nobody"
  BatchSize = 2
  MaxAttempts = 2
SPECIFICATION FairSpec
INVARIANTS TypeOK OneRunner CompletedIsNotRerun
PROPERTIES EndedIsFinal QueuedEndsOrIsOrphaned
CHECK_DEADLOCK FALSE
