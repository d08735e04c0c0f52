------------------------------- MODULE JobQueue -------------------------------
(***************************************************************************)
(* The refresh-job queue: officers queue jobs in the cloud table           *)
(* refresh_jobs, and the collectors' job workers (jobs/worker.py, run by   *)
(* jobs/__main__.py) claim them, run them through the routine executor     *)
(* and report back, over requests that can fail before or after they take  *)
(* effect.                                                                 *)
(*                                                                         *)
(* Jobs are numbered in claim order (priority, then creation).  A routine  *)
(* is one step with an outcome; a backoff is the fact that it has not yet  *)
(* elapsed.                                                                *)
(***************************************************************************)
EXTENDS Naturals, FiniteSets

CONSTANTS
  Job,           \* job ids, ordered as candidates orders them
  Worker,        \* job workers, one per collector
  NoWorker,      \* collector_id is null
  BatchSize,     \* candidates one poll takes
  MaxAttempts    \* executions after which a failed job is dead lettered

ASSUME JobsAssumption ==
  /\ Job \subseteq Nat
  /\ NoWorker \notin Worker
  /\ BatchSize \in Nat \ {0}
  /\ MaxAttempts \in Nat \ {0}

VARIABLES
  jobs,          \* jobs[j]: the refresh_jobs row of j
  poll,          \* poll[w]: where worker w's poll stands
  paused,        \* the kill switch is engaged
  completed      \* history: jobs a run of which ended well

vars == <<jobs, poll, paused, completed>>

Statuses == {"none", "queued", "claimed", "running", "succeeded", "dead_letter"}

\* How a run ends: well, with a failure worth a retry, because the operator
\* paused things, or with one that no retry can mend.
Outcomes == {"ok", "failed", "paused", "permanent"}

NoJob == [status |-> "none", attempts |-> 0, due |-> TRUE, collector |-> NoWorker]

\* batch: candidates not yet dealt with, each with the attempt_count read;
\* current: the candidate being claimed and run.
NoCandidate == [job |-> 0, attempts |-> 0]

Idle == [pc |-> "idle", batch |-> {}, current |-> NoCandidate, outcome |-> "none"]

Init ==
  /\ jobs = [j \in Job |-> NoJob]
  /\ poll = [w \in Worker |-> Idle]
  /\ paused = FALSE
  /\ completed = {}

-----------------------------------------------------------------------------
(* Requests.  A PATCH may fail before it is applied or after: either way   *)
(* the poll ends in an HTTPError, which main logs, and the worker polls    *)
(* again at the next tick.                                                 *)

At(w, pc) == poll[w].pc = pc

Goto(w, pc) == poll' = [poll EXCEPT ![w].pc = pc]

PollFails(w) == poll' = [poll EXCEPT ![w] = Idle]

\* The candidate the loop of poll_once takes next.
First(w) == {c \in poll[w].batch : \A d \in poll[w].batch : c.job <= d.job}

\* The loop goes on with the rest of the candidates.
Resumed(rest) ==
  IF rest = {} THEN Idle ELSE [Idle EXCEPT !.pc = "claiming", !.batch = rest]

Advance(w, rest) == poll' = [poll EXCEPT ![w] = Resumed(rest)]

Current(w) == poll[w].current

Rewrite(j, row) == jobs' = [jobs EXCEPT ![j] = row]

-----------------------------------------------------------------------------
(* poll_once.                                                              *)

Claimable(w) ==
  {j \in Job : /\ jobs[j].status = "queued" /\ jobs[j].due
               /\ jobs[j].collector \in {NoWorker, w}}

\* The kill switch is looked at before a poll only.
Candidates(w) ==
  /\ At(w, "idle") /\ ~paused
  /\ Claimable(w) # {}
  /\ LET first == {j \in Claimable(w) :
                     Cardinality({i \in Claimable(w) : i < j}) < BatchSize}
     IN  Advance(w, {[job |-> j, attempts |-> jobs[j].attempts] : j \in first})
  /\ UNCHANGED <<jobs, paused, completed>>

\* Mutation: the claim does not spend an attempt.
ClaimedUncounted(w, c) ==
  [jobs[c.job] EXCEPT !.status = "claimed", !.collector = w]

\* The row as the PATCH leaves it; the attempt count is the one read before.
Claimed(w, c) ==
  [jobs[c.job] EXCEPT !.status = "claimed", !.collector = w, !.attempts = c.attempts + 1]

Took(w, c) ==
  poll' = [poll EXCEPT ![w] = [pc |-> "starting", batch |-> poll[w].batch \ {c},
                               current |-> c, outcome |-> "none"]]

\* Mutation: the update is not conditional on status=queued.
ClaimUnconditional(w) ==
  /\ At(w, "claiming")
  /\ \E c \in First(w) :
       \/ Rewrite(c.job, Claimed(w, c)) /\ Took(w, c)
       \/ UNCHANGED jobs /\ PollFails(w)
  /\ UNCHANGED <<paused, completed>>

\* PATCH ... status=eq.queued: it takes the job or matches no row.
Claim(w) ==
  /\ At(w, "claiming")
  /\ \E c \in First(w) :
       LET queued == jobs[c.job].status = "queued"
       IN  \/ queued /\ Rewrite(c.job, Claimed(w, c)) /\ Took(w, c)
           \/ ~queued /\ UNCHANGED jobs /\ Advance(w, poll[w].batch \ {c})
           \/ queued /\ Rewrite(c.job, Claimed(w, c)) /\ PollFails(w)
           \/ UNCHANGED jobs /\ PollFails(w)
  /\ UNCHANGED <<paused, completed>>

\* run_claimed marks the row running.
Start(w) ==
  LET running == [jobs[Current(w).job] EXCEPT !.status = "running"]
  IN  /\ At(w, "starting")
      /\ \/ Rewrite(Current(w).job, running) /\ Goto(w, "executing")
         \/ Rewrite(Current(w).job, running) /\ PollFails(w)
         \/ UNCHANGED jobs /\ PollFails(w)
      /\ UNCHANGED <<paused, completed>>

\* The executor, up to its last look at the kill switch: an engaged switch
\* ends a known job as "paused"; an exception is a failure like any other.
Execute(w, outcome) ==
  /\ At(w, "executing")
  /\ outcome = "ok" => ~paused
  /\ outcome = "paused" => paused
  /\ poll' = [poll EXCEPT ![w].pc = "reporting", ![w].outcome = outcome]
  /\ completed' = IF outcome = "ok" THEN completed \cup {Current(w).job} ELSE completed
  /\ UNCHANGED <<jobs, paused>>

Exhausted(w) ==
  poll[w].outcome = "permanent" \/ Current(w).attempts + 1 >= MaxAttempts

\* Mutation: the attempts are looked at before the outcome.
ReportSwapped(w) ==
  LET row == jobs[Current(w).job]
  IN  IF Exhausted(w) THEN [row EXCEPT !.status = "dead_letter"]
      ELSE IF poll[w].outcome = "ok" THEN [row EXCEPT !.status = "succeeded"]
      ELSE [row EXCEPT !.status = "queued", !.due = FALSE]

\* Mutation: a failed job is marked as the workflow run is.
ReportFailed(w) ==
  LET row == jobs[Current(w).job]
  IN  IF poll[w].outcome = "ok" THEN [row EXCEPT !.status = "succeeded"]
      ELSE [row EXCEPT !.status = "failed"]

\* The row run_claimed writes when the executor has answered.
Reported(w) ==
  LET row == jobs[Current(w).job]
  IN  IF poll[w].outcome = "ok" THEN [row EXCEPT !.status = "succeeded"]
      ELSE IF Exhausted(w) THEN [row EXCEPT !.status = "dead_letter"]
      ELSE [row EXCEPT !.status = "queued", !.due = FALSE]

\* What is left of a reported run is its audit row, whose content is left out.
Filed(w) ==
  poll' = [poll EXCEPT ![w] = [Idle EXCEPT !.pc = "recording", !.batch = poll[w].batch]]

Report(w) ==
  /\ At(w, "reporting")
  /\ \/ Rewrite(Current(w).job, Reported(w)) /\ Filed(w)
     \/ Rewrite(Current(w).job, Reported(w)) /\ PollFails(w)
     \/ UNCHANGED jobs /\ PollFails(w)
  /\ UNCHANGED <<paused, completed>>

\* The workflow_runs row: lost or not, the loop goes on.
RecordRun(w) ==
  /\ At(w, "recording")
  /\ Advance(w, poll[w].batch)
  /\ UNCHANGED <<jobs, paused, completed>>

\* The process is killed, or dies on something main does not catch.
Crash(w) ==
  /\ ~At(w, "idle")
  /\ PollFails(w)
  /\ UNCHANGED <<jobs, paused, completed>>

-----------------------------------------------------------------------------
(* Around the workers.                                                     *)

\* An officer inserts a job.
Insert(j) ==
  /\ jobs[j].status = "none"
  /\ Rewrite(j, [NoJob EXCEPT !.status = "queued"])
  /\ UNCHANGED <<poll, paused, completed>>

\* next_attempt_at passes; only candidates looks at it.
BackoffElapses(j) ==
  /\ jobs[j].status = "queued" /\ ~jobs[j].due
  /\ Rewrite(j, [jobs[j] EXCEPT !.due = TRUE])
  /\ UNCHANGED <<poll, paused, completed>>

\* The operator engages or releases the kill switch.
Pause == ~paused /\ paused' = TRUE /\ UNCHANGED <<jobs, poll, completed>>

Resume == paused /\ paused' = FALSE /\ UNCHANGED <<jobs, poll, completed>>

-----------------------------------------------------------------------------

Poll(w) ==
  \/ Candidates(w)
  \/ Claim(w)
  \/ Start(w)
  \/ \E outcome \in Outcomes : Execute(w, outcome)
  \/ Report(w)
  \/ RecordRun(w)

Next ==
  \/ \E w \in Worker : Poll(w) \/ Crash(w)
  \/ \E j \in Job : Insert(j) \/ BackoffElapses(j)
  \/ Pause
  \/ Resume

Spec == Init /\ [][Next]_vars

\* Workers poll at every tick and are restarted; the cloud answers often
\* enough for a claim to come through; backoffs elapse; the switch is
\* released when it was engaged, often enough for a poll to start.
Fairness ==
  /\ \A w \in Worker :
       /\ WF_vars(Poll(w))
       /\ SF_vars(Candidates(w))
       /\ \A j \in Job : SF_vars(Claim(w) /\ jobs'[j] # jobs[j])
  /\ \A j \in Job : WF_vars(BackoffElapses(j))
  /\ WF_vars(Resume)

FairSpec == Spec /\ Fairness

-----------------------------------------------------------------------------
(* Properties.                                                             *)

Pcs == {"idle", "claiming", "starting", "executing", "reporting", "recording"}

Candidate == [job: Job, attempts: Nat]

TypeOK ==
  /\ jobs \in [Job -> [status: Statuses, attempts: Nat, due: BOOLEAN,
                       collector: Worker \cup {NoWorker}]]
  /\ poll \in [Worker -> [pc: Pcs, batch: SUBSET Candidate,
                          current: [job: Nat, attempts: Nat],
                          outcome: {"none"} \cup Outcomes]]
  /\ paused \in BOOLEAN
  /\ completed \in SUBSET Job

\* w has claimed j and has not reported on it.
Holds(w, j) ==
  /\ poll[w].pc \in {"starting", "executing", "reporting"}
  /\ Current(w).job = j

\* "Two workers racing means one gets an empty response and moves on": a job
\* has one runner at most, and its row says so while it runs.
OneRunner ==
  \A w \in Worker, j \in Job : Holds(w, j) =>
    /\ jobs[j].status = IF At(w, "starting") THEN "claimed" ELSE "running"
    /\ jobs[j].collector = w
    /\ \A v \in Worker \ {w} : ~Holds(v, j)

Ended(j) == jobs[j].status \in {"succeeded", "dead_letter"}

\* No late report, stale candidate list or restarted worker takes a finished
\* job back.
EndedIsFinal ==
  [][\A j \in Job : Ended(j) => jobs'[j] = jobs[j]]_vars

\* A routine that ended well is never run again: its job is succeeded, or
\* still running as far as the table knows.
CompletedIsNotRerun ==
  \A j \in completed :
    /\ jobs[j].status \in {"running", "succeeded"}
    /\ \A w \in Worker : ~(At(w, "executing") /\ Current(w).job = j)

\* A job nobody works on any more, and nobody can claim.
Orphaned(j) ==
  /\ jobs[j].status \in {"claimed", "running"}
  /\ \A w \in Worker : ~Holds(w, j)

\* A queued job ends, whatever fails on the way, or a lost answer or a crash
\* orphans it: nothing else keeps it from ending.
QueuedEndsOrIsOrphaned ==
  \A j \in Job : jobs[j].status = "queued" ~> Ended(j) \/ Orphaned(j)

-----------------------------------------------------------------------------
(* Claims of the code's comments that the code does not keep.              *)

\* "Supabase being unreachable is the normal condition this has to survive:
\* jobs stay queued and the next tick retries".
JobsStayQueued == \A j \in Job : ~Orphaned(j)

\* The switch is checked before claiming because "claiming a job just to abort
\* it would count an attempt and eventually dead-letter work the operator
\* merely paused": no report on a run that ended on the switch dead letters it.
PausedIsNotDeadLettered ==
  [][\A w \in Worker :
       At(w, "reporting") /\ poll[w].outcome = "paused" =>
         jobs'[Current(w).job].status # "dead_letter"]_vars
===============================================================================
