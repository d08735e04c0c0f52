--------------------------- MODULE JobQueueProofs ---------------------------
(***************************************************************************)
(* Proofs about JobQueue, for any jobs, any number of workers, any batch   *)
(* size and any number of attempts.                                        *)
(***************************************************************************)
EXTENDS JobQueue, TLAPS

Row == [status: Statuses, attempts: Nat, due: BOOLEAN, collector: Worker \cup {NoWorker}]

Stand == [pc: Pcs, batch: SUBSET Candidate, current: [job: Nat, attempts: Nat],
          outcome: {"none"} \cup Outcomes]

-----------------------------------------------------------------------------
(* Types.                                                                  *)

\* An idle worker, and one that goes on with a batch, are well typed.
LEMMA StandType ==
  /\ Idle \in Stand
  /\ \A rest \in SUBSET Candidate : Resumed(rest) \in Stand
<1>1. Idle \in Stand
  BY DEF Idle, Stand, NoCandidate, Pcs
<1>2. \A rest \in SUBSET Candidate : [Idle EXCEPT !.pc = "claiming", !.batch = rest] \in Stand
  BY DEF Idle, Stand, NoCandidate, Pcs
<1>3. QED
  BY <1>1, <1>2 DEF Resumed

\* The rows a claim and a report write are well typed.
LEMMA RowType ==
  ASSUME TypeOK, NEW w \in Worker
  PROVE  /\ \A c \in Candidate : Claimed(w, c) \in Row
         /\ Current(w).job \in Job =>
              /\ [jobs[Current(w).job] EXCEPT !.status = "running"] \in Row
              /\ Reported(w) \in Row
<1>1. \A j \in Job : jobs[j] \in Row
  BY DEF TypeOK, Row
<1>2. \A c \in Candidate : Claimed(w, c) \in Row
  <2>1. \A c \in Candidate : c.job \in Job /\ c.attempts + 1 \in Nat
    BY DEF Candidate
  <2>2. ASSUME NEW row \in Row, NEW n \in Nat
        PROVE  [row EXCEPT !.status = "claimed", !.collector = w, !.attempts = n] \in Row
    BY <2>2 DEF Row, Statuses
  <2>3. QED
    BY <1>1, <2>1, <2>2 DEF Claimed
<1>3. ASSUME Current(w).job \in Job
      PROVE  [jobs[Current(w).job] EXCEPT !.status = "running"] \in Row
  BY <1>1, <1>3 DEF Row, Statuses
<1>4. ASSUME Current(w).job \in Job PROVE Reported(w) \in Row
  <2> DEFINE row == jobs[Current(w).job]
  <2>1. /\ [row EXCEPT !.status = "succeeded"] \in Row
        /\ [row EXCEPT !.status = "dead_letter"] \in Row
        /\ [row EXCEPT !.status = "queued", !.due = FALSE] \in Row
    BY <1>1, <1>4 DEF Row, Statuses
  <2>2. QED
    BY <2>1, Zenon DEF Reported
<1>5. QED
  BY <1>2, <1>3, <1>4

-----------------------------------------------------------------------------
(* Ownership.  Between its claim and its report a worker owns the row: the *)
(* row says who runs it, and nobody else's request can match or change it. *)

Busy(w) == poll[w].pc \in {"starting", "executing", "reporting"}

Owns(w) ==
  Busy(w) =>
    /\ Current(w).job \in Job
    /\ jobs[Current(w).job].status = IF At(w, "starting") THEN "claimed" ELSE "running"
    /\ jobs[Current(w).job].collector = w

\* A completed job is succeeded, or running under a worker that will say so.
CompletedHere(w) ==
  Busy(w) /\ Current(w).job \in completed => At(w, "reporting") /\ poll[w].outcome = "ok"

CompletedStatus == \A j \in completed : jobs[j].status \in {"running", "succeeded"}

OwnerInv ==
  /\ TypeOK
  /\ \A w \in Worker : Owns(w) /\ CompletedHere(w)
  /\ CompletedStatus

\* What a worker's step may do to the table: rewrite one row, that was queued
\* or is the worker's own.
Touches(w, j) ==
  /\ j \in Job
  /\ jobs[j].status = "queued" \/ (Busy(w) /\ Current(w).job = j)
  /\ jobs' = [jobs EXCEPT ![j] = jobs'[j]]

\* The other workers keep what they own.
LEMMA OthersKeep ==
  ASSUME OwnerInv, NEW w \in Worker, NEW v \in Worker, v # w,
         poll'[v] = poll[v],
         UNCHANGED jobs \/ \E j \in Job : Touches(w, j),
         completed' = completed \/ (Busy(w) /\ completed' = completed \cup {Current(w).job})
  PROVE  Owns(v)' /\ CompletedHere(v)'
<1>1. Busy(v)' = Busy(v) /\ Current(v)' = Current(v) /\ At(v, "starting")' = At(v, "starting")
      /\ At(v, "reporting")' = At(v, "reporting")
  BY DEF Busy, Current, At
<1>2. Busy(v) /\ Busy(w) => Current(v).job # Current(w).job
  BY DEF OwnerInv, Owns
<1>3. Busy(v) => jobs'[Current(v).job] = jobs[Current(v).job]
  <2>1. CASE UNCHANGED jobs
    BY <2>1
  <2>2. ASSUME NEW j \in Job, Touches(w, j), Busy(v)
        PROVE  jobs'[Current(v).job] = jobs[Current(v).job]
    <3>1. Current(v).job \in Job /\ jobs[Current(v).job].status # "queued"
      BY <2>2 DEF OwnerInv, Owns
    <3>2. Current(v).job # j
      BY <1>2, <2>2, <3>1 DEF Touches
    <3>3. QED
      BY <2>2, <3>1, <3>2 DEF Touches, OwnerInv, TypeOK
  <2>3. QED
    BY <2>1, <2>2
<1>4. Owns(v)'
  BY <1>1, <1>3 DEF OwnerInv, Owns
<1>5. CompletedHere(v)'
  BY <1>1, <1>2 DEF OwnerInv, CompletedHere
<1>6. QED
  BY <1>4, <1>5

\* The shape of a worker's step: it moves w only, and rewrites at most the
\* row w may touch, to a well-typed row.
Moves(w, stand) == stand \in Stand /\ poll' = [poll EXCEPT ![w] = stand]

Writes(w, j, row) == Touches(w, j) /\ row \in Row /\ jobs' = [jobs EXCEPT ![j] = row]

\* A step of that shape keeps the types.
LEMMA ShapeType ==
  ASSUME TypeOK, NEW w \in Worker, NEW stand, Moves(w, stand),
         UNCHANGED jobs \/ \E j \in Job, row \in Row : Writes(w, j, row),
         paused' = paused,
         completed' = completed \/ (Busy(w) /\ Current(w).job \in Job
                                    /\ completed' = completed \cup {Current(w).job})
  PROVE  /\ TypeOK'
         /\ poll'[w] = stand
         /\ \A v \in Worker \ {w} : poll'[v] = poll[v]
<1>1. poll \in [Worker -> Stand] /\ jobs \in [Job -> Row]
  BY DEF TypeOK, Stand, Row
<1>2. poll' \in [Worker -> Stand]
  BY <1>1 DEF Moves
<1>3. jobs' \in [Job -> Row]
  BY <1>1 DEF Writes
<1>4. completed' \in SUBSET Job
  BY DEF TypeOK
<1>5. poll'[w] = stand /\ \A v \in Worker \ {w} : poll'[v] = poll[v]
  BY <1>1 DEF Moves
<1>6. QED
  BY <1>2, <1>3, <1>4, <1>5 DEF TypeOK, Stand, Row

\* If w is not busy afterwards, a step of that shape that writes no completed
\* job's row keeps ownership.
LEMMA ReleaseKeeps ==
  ASSUME OwnerInv, NEW w \in Worker, NEW stand, Moves(w, stand),
         stand.pc \notin {"starting", "executing", "reporting"},
         \/ UNCHANGED jobs
         \/ \E j \in Job, row \in Row :
              /\ Writes(w, j, row)
              /\ j \in completed => row.status \in {"running", "succeeded"},
         UNCHANGED <<paused, completed>>
  PROVE  OwnerInv'
<1>1. /\ TypeOK'
      /\ poll'[w] = stand
      /\ \A v \in Worker \ {w} : poll'[v] = poll[v]
  BY ShapeType DEF OwnerInv
<1>2. ~Busy(w)'
  BY <1>1 DEF Busy
<1>3. Owns(w)' /\ CompletedHere(w)'
  BY <1>2 DEF Owns, CompletedHere
<1>4. ASSUME NEW v \in Worker, v # w PROVE Owns(v)' /\ CompletedHere(v)'
  BY <1>1, <1>4, OthersKeep DEF Writes
<1>5. CompletedStatus'
  BY DEF OwnerInv, CompletedStatus, Writes, TypeOK
<1>6. QED
  BY <1>1, <1>3, <1>4, <1>5 DEF OwnerInv

\* A poll that reads its candidates, or fails before any request took effect.
LEMMA CandidatesKeeps ==
  ASSUME OwnerInv, NEW w \in Worker, Candidates(w)
  PROVE  OwnerInv'
<1>1. PICK first \in SUBSET Job :
        Advance(w, {[job |-> j, attempts |-> jobs[j].attempts] : j \in first})
  BY DEF Candidates, Claimable
<1> DEFINE rest == {[job |-> j, attempts |-> jobs[j].attempts] : j \in first}
<1>2. rest \in SUBSET Candidate
  BY DEF Candidate, OwnerInv, TypeOK
<1>3. Moves(w, Resumed(rest))
  BY <1>1, <1>2, StandType DEF Advance, Moves
<1>4. Resumed(rest).pc \in {"idle", "claiming"}
  BY DEF Resumed, Idle
<1> HIDE DEF rest
<1>5. QED
  BY <1>3, <1>4, ReleaseKeeps DEF Candidates

\* A failed poll leaves what it had written.
LEMMA PollFailsMoves ==
  ASSUME NEW w \in Worker, PollFails(w)
  PROVE  Moves(w, Idle) /\ Idle.pc = "idle"
BY StandType DEF PollFails, Moves, Idle

\* A claim takes a queued row, or none.
LEMMA ClaimKeeps ==
  ASSUME OwnerInv, NEW w \in Worker, Claim(w)
  PROVE  OwnerInv'
<1>1. PICK c \in First(w) :
        LET queued == jobs[c.job].status = "queued"
        IN  \/ queued /\ Rewrite(c.job, Claimed(w, c)) /\ Took(w, c)
            \/ ~queued /\ UNCHANGED jobs /\ Advance(w, poll[w].batch \ {c})
            \/ queued /\ Rewrite(c.job, Claimed(w, c)) /\ PollFails(w)
            \/ UNCHANGED jobs /\ PollFails(w)
  BY DEF Claim
<1>2. /\ poll[w] \in Stand
      /\ c \in Candidate /\ c.job \in Job
      /\ UNCHANGED <<paused, completed>>
  BY DEF First, OwnerInv, TypeOK, Stand, Candidate, Claim
<1>3. Claimed(w, c) \in Row
  BY <1>2, RowType DEF OwnerInv
<1>4. jobs[c.job].status = "queued" => c.job \notin completed
  BY DEF OwnerInv, CompletedStatus
<1>5. jobs[c.job].status = "queued" /\ Rewrite(c.job, Claimed(w, c)) =>
        Writes(w, c.job, Claimed(w, c))
  BY <1>2, RowType DEF Writes, Touches, Rewrite, OwnerInv, TypeOK
<1>6. CASE UNCHANGED jobs /\ PollFails(w)
  BY <1>2, <1>6, PollFailsMoves, ReleaseKeeps
<1>7. CASE jobs[c.job].status = "queued" /\ Rewrite(c.job, Claimed(w, c)) /\ PollFails(w)
  BY <1>2, <1>3, <1>4, <1>5, <1>7, PollFailsMoves, ReleaseKeeps
<1>8. CASE UNCHANGED jobs /\ Advance(w, poll[w].batch \ {c})
  <2>1. poll[w].batch \ {c} \in SUBSET Candidate
    BY <1>2 DEF Stand
  <2>2. Moves(w, Resumed(poll[w].batch \ {c}))
    BY <1>8, <2>1, StandType DEF Advance, Moves
  <2>3. Resumed(poll[w].batch \ {c}).pc \in {"idle", "claiming"}
    BY DEF Resumed, Idle
  <2>4. QED
    BY <1>2, <1>8, <2>2, <2>3, ReleaseKeeps
<1>9. CASE jobs[c.job].status = "queued" /\ Rewrite(c.job, Claimed(w, c)) /\ Took(w, c)
  <2> DEFINE stand == [pc |-> "starting", batch |-> poll[w].batch \ {c}, current |-> c,
                       outcome |-> "none"]
  <2>1. stand \in Stand
    <3>1. c \in [job: Nat, attempts: Nat]
      BY <1>2, JobsAssumption DEF Candidate
    <3>2. poll[w].batch \ {c} \in SUBSET Candidate
      BY <1>2 DEF Stand
    <3>3. QED
      BY <3>1, <3>2 DEF Stand, Pcs
  <2>2. Moves(w, stand)
    BY <1>9, <2>1 DEF Took, Moves
  <2>3. /\ TypeOK'
        /\ poll'[w] = stand
        /\ \A v \in Worker \ {w} : poll'[v] = poll[v]
    BY <1>2, <1>3, <1>5, <1>9, <2>2, ShapeType DEF OwnerInv
  <2>4. jobs'[c.job] = Claimed(w, c) /\ \A j \in Job \ {c.job} : jobs'[j] = jobs[j]
    BY <1>2, <1>9 DEF Rewrite, OwnerInv, TypeOK
  <2>5. Claimed(w, c).status = "claimed" /\ Claimed(w, c).collector = w
    <3>1. jobs[c.job] \in Row
      BY <1>2 DEF OwnerInv, TypeOK, Row
    <3>2. QED
      BY <3>1 DEF Claimed, Row
  <2>6. Owns(w)' /\ CompletedHere(w)'
    BY <1>2, <1>4, <1>9, <2>3, <2>4, <2>5 DEF Owns, CompletedHere, Busy, Current, At
  <2>7. ASSUME NEW v \in Worker, v # w PROVE Owns(v)' /\ CompletedHere(v)'
    BY <1>2, <1>5, <1>9, <2>3, <2>7, OthersKeep DEF Writes
  <2>8. CompletedStatus'
    BY <1>2, <1>4, <1>9, <2>4 DEF OwnerInv, CompletedStatus, TypeOK
  <2>9. QED
    BY <2>3, <2>6, <2>7, <2>8 DEF OwnerInv
<1>10. QED
  BY <1>1, <1>6, <1>7, <1>8, <1>9

\* A busy worker that goes on at another step, with at most its own row
\* rewritten, keeps ownership if its own row and outcome agree with the step.
LEMMA BusyKeeps ==
  ASSUME OwnerInv, NEW w \in Worker, Busy(w), NEW stand, Moves(w, stand),
         stand.current = Current(w),
         NEW row \in Row, Rewrite(Current(w).job, row),
         row.collector = w,
         stand.pc \in {"executing", "reporting"} /\ row.status = "running",
         stand.pc = "executing" => Current(w).job \notin completed',
         stand.pc = "reporting" /\ Current(w).job \in completed' => stand.outcome = "ok",
         completed' = completed \/ completed' = completed \cup {Current(w).job},
         UNCHANGED paused
  PROVE  OwnerInv'
<1> DEFINE j == Current(w).job
<1>1. j \in Job
  BY DEF OwnerInv, Owns
<1>2. Writes(w, j, row)
  BY <1>1 DEF Writes, Touches, Rewrite, OwnerInv, TypeOK
<1>3. /\ TypeOK'
      /\ poll'[w] = stand
      /\ \A v \in Worker \ {w} : poll'[v] = poll[v]
  BY <1>1, <1>2, ShapeType DEF OwnerInv
<1>4. jobs'[j] = row /\ \A i \in Job \ {j} : jobs'[i] = jobs[i]
  BY <1>1 DEF Rewrite, OwnerInv, TypeOK
<1>5. Owns(w)' /\ CompletedHere(w)'
  BY <1>1, <1>3, <1>4 DEF Owns, CompletedHere, Busy, Current, At
<1>6. ASSUME NEW v \in Worker, v # w PROVE Owns(v)' /\ CompletedHere(v)'
  BY <1>1, <1>2, <1>3, <1>6, OthersKeep DEF Writes
<1>7. CompletedStatus'
  BY <1>1, <1>4 DEF OwnerInv, CompletedStatus, TypeOK
<1>8. QED
  BY <1>3, <1>5, <1>6, <1>7 DEF OwnerInv

\* Marking the row running.
LEMMA StartKeeps ==
  ASSUME OwnerInv, NEW w \in Worker, Start(w)
  PROVE  OwnerInv'
<1> DEFINE j == Current(w).job
           running == [jobs[j] EXCEPT !.status = "running"]
<1>1. /\ Busy(w) /\ At(w, "starting") /\ poll[w] \in Stand
      /\ UNCHANGED <<paused, completed>>
  BY DEF Start, Busy, At, OwnerInv, TypeOK, Stand
<1>2. j \in Job /\ j \notin completed /\ jobs[j].collector = w /\ jobs[j] \in Row
  BY <1>1 DEF OwnerInv, Owns, CompletedHere, At, TypeOK, Row
<1>3. running \in Row /\ running.status = "running" /\ running.collector = w
  BY <1>2 DEF Row, Statuses
<1>4. CASE UNCHANGED jobs /\ PollFails(w)
  BY <1>1, <1>4, PollFailsMoves, ReleaseKeeps
<1>5. CASE Rewrite(j, running) /\ PollFails(w)
  <2>1. Writes(w, j, running)
    BY <1>1, <1>2, <1>3, <1>5 DEF Writes, Touches, Rewrite, OwnerInv, TypeOK
  <2>2. QED
    BY <1>1, <1>2, <1>3, <1>5, <2>1, PollFailsMoves, ReleaseKeeps
<1>6. CASE Rewrite(j, running) /\ Goto(w, "executing")
  <2> DEFINE stand == [poll[w] EXCEPT !.pc = "executing"]
  <2>1. /\ stand \in Stand /\ stand.pc = "executing"
        /\ stand.current = Current(w)
    BY <1>1 DEF Stand, Pcs, Current
  <2>2. Moves(w, stand)
    BY <1>6, <2>1 DEF Goto, Moves
  <2> HIDE DEF stand, running
  <2>3. QED
    BY <1>1, <1>2, <1>3, <1>6, <2>1, <2>2, BusyKeeps
<1>7. QED
  BY <1>4, <1>5, <1>6 DEF Start

\* Running the routine.
LEMMA ExecuteKeeps ==
  ASSUME OwnerInv, NEW w \in Worker, NEW outcome \in Outcomes,
         Execute(w, outcome)
  PROVE  OwnerInv'
<1> DEFINE j == Current(w).job
           stand == [poll[w] EXCEPT !.pc = "reporting", !.outcome = outcome]
<1>1. /\ Busy(w) /\ At(w, "executing") /\ poll[w] \in Stand
      /\ UNCHANGED <<jobs, paused>>
      /\ completed' = IF outcome = "ok" THEN completed \cup {j} ELSE completed
  BY DEF Execute, Busy, At, OwnerInv, TypeOK, Stand
<1>2. /\ j \in Job /\ j \notin completed /\ jobs[j] \in Row
      /\ jobs[j].collector = w /\ jobs[j].status = "running"
  BY <1>1 DEF OwnerInv, Owns, CompletedHere, At, TypeOK, Row
<1>3. /\ stand \in Stand /\ stand.pc = "reporting" /\ stand.outcome = outcome
      /\ stand.current = Current(w)
  BY <1>1 DEF Stand, Pcs, Current
<1>4. Moves(w, stand)
  BY <1>3 DEF Execute, Moves
<1>5. Rewrite(j, jobs[j])
  BY <1>1, <1>2 DEF Rewrite, OwnerInv, TypeOK
<1> HIDE DEF stand
<1>6. QED
  BY <1>1, <1>2, <1>3, <1>4, <1>5, BusyKeeps

\* Reporting the outcome.
LEMMA ReportKeeps ==
  ASSUME OwnerInv, NEW w \in Worker, Report(w)
  PROVE  OwnerInv'
<1> DEFINE j == Current(w).job
<1>1. /\ Busy(w) /\ At(w, "reporting") /\ poll[w] \in Stand
      /\ UNCHANGED <<paused, completed>>
  BY DEF Report, Busy, At, OwnerInv, TypeOK, Stand
<1>2. j \in Job /\ Reported(w) \in Row
  BY <1>1, RowType DEF OwnerInv, Owns
<1>3. j \in completed => Reported(w).status \in {"running", "succeeded"}
  <2>1. ASSUME j \in completed PROVE poll[w].outcome = "ok"
    BY <1>1, <2>1 DEF OwnerInv, CompletedHere
  <2>2. jobs[j] \in Row
    BY <1>2 DEF OwnerInv, TypeOK, Row
  <2>3. [jobs[j] EXCEPT !.status = "succeeded"].status = "succeeded"
    BY <2>2 DEF Row
  <2>4. QED
    BY <2>1, <2>3 DEF Reported
<1>4. ASSUME Rewrite(j, Reported(w)) PROVE Writes(w, j, Reported(w))
  BY <1>1, <1>2, <1>4 DEF Writes, Touches, Rewrite, OwnerInv, TypeOK
<1>5. CASE PollFails(w)
  BY <1>1, <1>2, <1>3, <1>4, <1>5, PollFailsMoves, ReleaseKeeps DEF Report
<1>6. CASE Rewrite(j, Reported(w)) /\ Filed(w)
  <2> DEFINE stand == [Idle EXCEPT !.pc = "recording", !.batch = poll[w].batch]
  <2>1. stand \in Stand /\ stand.pc = "recording"
    BY <1>1 DEF Idle, Stand, NoCandidate, Pcs
  <2>2. Moves(w, stand)
    BY <1>6, <2>1 DEF Filed, Moves
  <2> HIDE DEF stand
  <2>3. QED
    BY <1>1, <1>2, <1>3, <1>4, <1>6, <2>1, <2>2, ReleaseKeeps
<1>7. QED
  BY <1>5, <1>6 DEF Report

\* Everything else: the audit row, a crash, and what is not a worker's.
LEMMA RestKeeps ==
  ASSUME OwnerInv,
         \/ \E w \in Worker : RecordRun(w) \/ Crash(w)
         \/ \E j \in Job : Insert(j) \/ BackoffElapses(j)
         \/ Pause
         \/ Resume
         \/ UNCHANGED vars
  PROVE  OwnerInv'
<1>1. ASSUME NEW w \in Worker, RecordRun(w) PROVE OwnerInv'
  <2>1. poll[w].batch \in SUBSET Candidate
    BY DEF OwnerInv, TypeOK
  <2>2. Moves(w, Resumed(poll[w].batch))
    BY <1>1, <2>1, StandType DEF RecordRun, Advance, Moves
  <2>3. Resumed(poll[w].batch).pc \in {"idle", "claiming"}
    BY DEF Resumed, Idle
  <2>4. QED
    BY <1>1, <2>2, <2>3, ReleaseKeeps DEF RecordRun
<1>2. ASSUME NEW w \in Worker, Crash(w) PROVE OwnerInv'
  BY <1>2, PollFailsMoves, ReleaseKeeps DEF Crash
<1>3. ASSUME NEW j \in Job, NEW row \in Row, Rewrite(j, row),
             jobs[j].status \in {"none", "queued"}, row.status = "queued",
             UNCHANGED <<poll, paused, completed>>
      PROVE  OwnerInv'
  <2>1. jobs'[j] = row /\ \A i \in Job \ {j} : jobs'[i] = jobs[i]
    BY <1>3 DEF Rewrite, OwnerInv, TypeOK
  <2>2. TypeOK'
    BY <1>3 DEF Rewrite, OwnerInv, TypeOK, Row
  <2>3. j \notin completed
    BY <1>3 DEF OwnerInv, CompletedStatus
  <2>4. \A v \in Worker : Busy(v) => Current(v).job # j
    BY <1>3 DEF OwnerInv, Owns
  <2>5. ASSUME NEW v \in Worker PROVE Owns(v)' /\ CompletedHere(v)'
    BY <1>3, <2>1, <2>4 DEF OwnerInv, Owns, CompletedHere, Busy, Current, At
  <2>6. CompletedStatus'
    BY <1>3, <2>1, <2>3 DEF OwnerInv, CompletedStatus, TypeOK
  <2>7. QED
    BY <2>2, <2>5, <2>6 DEF OwnerInv
<1>4. ASSUME NEW j \in Job, Insert(j) PROVE OwnerInv'
  <2>1. [NoJob EXCEPT !.status = "queued"] \in Row
        /\ [NoJob EXCEPT !.status = "queued"].status = "queued"
    BY DEF NoJob, Row, Statuses
  <2>2. QED
    BY <1>3, <1>4, <2>1 DEF Insert
<1>5. ASSUME NEW j \in Job, BackoffElapses(j) PROVE OwnerInv'
  <2>1. jobs[j] \in Row /\ jobs[j].status = "queued"
    BY <1>5 DEF OwnerInv, TypeOK, Row, BackoffElapses
  <2>2. [jobs[j] EXCEPT !.due = TRUE] \in Row
        /\ [jobs[j] EXCEPT !.due = TRUE].status = "queued"
    BY <2>1 DEF Row
  <2>3. QED
    BY <1>3, <1>5, <2>1, <2>2 DEF BackoffElapses
<1>6. CASE Pause \/ Resume \/ UNCHANGED vars
  <2>1. UNCHANGED <<jobs, poll, completed>> /\ paused' \in BOOLEAN
    BY <1>6 DEF Pause, Resume, vars, OwnerInv, TypeOK
  <2>2. QED
    BY <2>1 DEF OwnerInv, TypeOK, Owns, CompletedHere, CompletedStatus, Busy, Current, At
<1>7. QED
  BY <1>1, <1>2, <1>4, <1>5, <1>6

\* The ownership invariant is inductive.
LEMMA OwnerInvStep == ASSUME OwnerInv, [Next]_vars PROVE OwnerInv'
<1>1. ASSUME NEW w \in Worker, Poll(w) PROVE OwnerInv'
  BY <1>1, CandidatesKeeps, ClaimKeeps, StartKeeps, ExecuteKeeps, ReportKeeps, RestKeeps
     DEF Poll
<1>2. QED
  BY <1>1, RestKeeps DEF Next

\* Nobody owns anything initially.
LEMMA OwnerInvInit == ASSUME Init PROVE OwnerInv
<1>1. jobs \in [Job -> Row] /\ poll \in [Worker -> Stand]
  BY StandType DEF Init, NoJob, Row, Statuses
<1>2. QED
  BY <1>1 DEF Init, OwnerInv, TypeOK, Row, Stand, Owns, CompletedHere, CompletedStatus, Busy,
              Idle

\* Ownership holds in every reachable state.
THEOREM Ownership == Spec => []OwnerInv
<1>1. Init => OwnerInv
  BY OwnerInvInit
<1>2. OwnerInv /\ [Next]_vars => OwnerInv'
  BY OwnerInvStep
<1>3. QED
  BY <1>1, <1>2, PTL DEF Spec

\* Rows, polls and the history keep their types, whatever fails halfway.
THEOREM RowsKeepTheirTypes == Spec => []TypeOK
<1>1. OwnerInv => TypeOK
  BY DEF OwnerInv
<1>2. QED
  BY <1>1, Ownership, PTL

\* The conditional PATCH is lock enough: for any number of workers, a job has
\* one runner at most, however many requests fail halfway and workers crash.
THEOREM OneRunnerAtMost == Spec => []OneRunner
<1>1. OwnerInv => OneRunner
  BY DEF OwnerInv, Owns, OneRunner, Holds, Busy, At
<1>2. QED
  BY <1>1, Ownership, PTL

\* A routine that ended well is not run again.
THEOREM NoRerun == Spec => []CompletedIsNotRerun
<1>1. OwnerInv => CompletedIsNotRerun
  BY DEF OwnerInv, CompletedStatus, CompletedHere, CompletedIsNotRerun, Busy, At
<1>2. QED
  BY <1>1, Ownership, PTL

\* A finished job's row is never rewritten.
THEOREM FinishedStays == Spec => EndedIsFinal
<1>1. OwnerInv /\ [Next]_vars => [\A j \in Job : Ended(j) => jobs'[j] = jobs[j]]_vars
  <2>1. ASSUME OwnerInv, [Next]_vars, NEW j \in Job, Ended(j)
        PROVE  jobs'[j] = jobs[j]
    <3>1. \A w \in Worker : Busy(w) => Current(w).job # j
      BY <2>1 DEF OwnerInv, Owns, Ended
    <3>2. ASSUME NEW i, NEW row, i # j, Rewrite(i, row) PROVE jobs'[j] = jobs[j]
      BY <2>1, <3>2 DEF Rewrite, OwnerInv, TypeOK
    <3>3. ASSUME NEW w \in Worker, Poll(w) PROVE jobs'[j] = jobs[j]
      <4>1. CASE Claim(w)
        BY <2>1, <3>2, <4>1 DEF Claim, Ended
      <4>2. CASE Start(w) \/ Report(w)
        BY <3>1, <3>2, <4>2 DEF Start, Report, Busy, At
      <4>3. CASE ~(Claim(w) \/ Start(w) \/ Report(w))
        BY <3>3, <4>3 DEF Poll, Candidates, Execute, RecordRun
      <4>4. QED
        BY <4>1, <4>2, <4>3
    <3>4. ASSUME NEW i \in Job, Insert(i) \/ BackoffElapses(i) PROVE jobs'[j] = jobs[j]
      BY <2>1, <3>2, <3>4 DEF Insert, BackoffElapses, Ended
    <3>5. QED
      BY <2>1, <3>3, <3>4 DEF Next, Crash, Pause, Resume, vars
  <2>2. QED
    BY <2>1
<1>2. QED
  BY <1>1, Ownership, PTL DEF Spec, EndedIsFinal
===============================================================================
