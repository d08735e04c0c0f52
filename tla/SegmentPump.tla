------------------------------ MODULE SegmentPump ------------------------------
(***************************************************************************)
(* The hand-over between the sniffer and the journal (capture/pump.py) in  *)
(* the process that uses it (capture/__main__.py): the main thread sniffs  *)
(* and submits into a bounded queue, one daemon worker thread journals,    *)
(* and on the way out the main thread closes the pump, then the journal.   *)
(*                                                                         *)
(* Segments are numbered in the order the sniffer delivers them.  Handling *)
(* a segment is one step that journals it or raises.  The threads          *)
(* interleave at queue operations, reads of `failure` and the join.        *)
(***************************************************************************)
EXTENDS Naturals, Sequences

CONSTANTS
  Capacity,      \* maxsize of the queue
  MaxSegments    \* bound: segments the sniffer delivers while the pump works

VARIABLES
  queue,         \* segments waiting for the worker, and the closing sentinel
  main,          \* where the main thread stands
  worker,        \* where the worker thread stands
  hand,          \* the segment the worker took last, unless it is journalled
  submitted,     \* segments the queue accepted
  handled,       \* segments journalled, in order
  failure,       \* the worker stored an exception
  journalOpen,   \* the journal's connection is open
  timedOut,      \* the join gave up on a worker still running
  raised         \* the worker's exception came out of main

mainVars == <<main, submitted, journalOpen, timedOut, raised>>
workerVars == <<worker, hand, handled, failure>>
vars == <<queue, mainVars, workerVars>>

Sentinel == 0

MainPcs == {"sniffing", "putting", "closing", "joining", "joined", "journal",
            "reporting", "ended"}

Init ==
  /\ queue = <<>>
  /\ main = "sniffing"
  /\ worker = "waiting"
  /\ hand = <<>>
  /\ submitted = 0
  /\ handled = <<>>
  /\ failure = FALSE
  /\ journalOpen = TRUE
  /\ timedOut = FALSE
  /\ raised = FALSE

HasRoom == Len(queue) < Capacity

-----------------------------------------------------------------------------
(* The main thread.                                                        *)

Goto(pc) == main' = pc

\* A packet arrives: submit looks at the worker's failure first, and raising
\* it ends the sniff.  Packets that only meet a failure are not counted.
CheckFailure ==
  /\ main = "sniffing"
  /\ IF failure THEN Goto("closing")
     ELSE submitted < MaxSegments /\ Goto("putting")
  /\ UNCHANGED <<queue, submitted, journalOpen, timedOut, raised, workerVars>>

\* Mutation: a queue without a maxsize.
PutUnbounded ==
  /\ main = "putting"
  /\ queue' = Append(queue, submitted + 1)
  /\ submitted' = submitted + 1
  /\ Goto("sniffing")
  /\ UNCHANGED <<journalOpen, timedOut, raised, workerVars>>

\* put_nowait, or the blocking put when the queue was full.
Put ==
  /\ main = "putting" /\ HasRoom
  /\ queue' = Append(queue, submitted + 1)
  /\ submitted' = submitted + 1
  /\ Goto("sniffing")
  /\ UNCHANGED <<journalOpen, timedOut, raised, workerVars>>

\* Ctrl+C, the normal way to stop; a segment in hand is not submitted.
Interrupt ==
  /\ main \in {"sniffing", "putting"}
  /\ Goto("closing")
  /\ UNCHANGED <<queue, submitted, journalOpen, timedOut, raised, workerVars>>

\* Mutation: the sentinel overtakes what is queued.
CloseAhead ==
  /\ main = "closing" /\ HasRoom
  /\ queue' = <<Sentinel>> \o queue
  /\ Goto("joining")
  /\ UNCHANGED <<submitted, journalOpen, timedOut, raised, workerVars>>

\* close: the sentinel goes through the same bounded queue.
Close ==
  /\ main = "closing" /\ HasRoom
  /\ queue' = Append(queue, Sentinel)
  /\ Goto("joining")
  /\ UNCHANGED <<submitted, journalOpen, timedOut, raised, workerVars>>

\* join(timeout=30): the worker has ended, or the 30 seconds have.
Join ==
  /\ main = "joining"
  /\ timedOut' = (worker \notin {"stopped", "failed"})
  /\ Goto("joined")
  /\ UNCHANGED <<queue, submitted, journalOpen, raised, workerVars>>

\* Mutation: close returns without looking at the failure.
JoinedUnchecked ==
  /\ main = "joined"
  /\ Goto("journal")
  /\ UNCHANGED <<queue, submitted, journalOpen, timedOut, raised, workerVars>>

\* The end of close: the stored failure is raised, past journal.close().
Joined ==
  /\ main = "joined"
  /\ raised' = failure
  /\ Goto(IF failure THEN "ended" ELSE "journal")
  /\ UNCHANGED <<queue, submitted, journalOpen, timedOut, workerVars>>

CloseJournal ==
  /\ main = "journal"
  /\ journalOpen' = FALSE
  /\ Goto("reporting")
  /\ UNCHANGED <<queue, submitted, timedOut, raised, workerVars>>

\* The process ends and takes the daemon worker with it.
End ==
  /\ main = "reporting"
  /\ Goto("ended")
  /\ UNCHANGED <<queue, submitted, journalOpen, timedOut, raised, workerVars>>

-----------------------------------------------------------------------------
(* The worker thread (_drain), for as long as the process lives.           *)

Get ==
  /\ main # "ended" /\ worker = "waiting" /\ queue # <<>>
  /\ queue' = Tail(queue)
  /\ IF Head(queue) = Sentinel
     THEN worker' = "stopped" /\ hand' = hand
     ELSE worker' = "handling" /\ hand' = <<Head(queue)>>
  /\ UNCHANGED <<mainVars, handled, failure>>

Handle ==
  /\ main # "ended" /\ worker = "handling" /\ journalOpen
  /\ handled' = handled \o hand
  /\ hand' = <<>>
  /\ worker' = "waiting"
  /\ UNCHANGED <<queue, mainVars, failure>>

\* Whatever the handler raised is stored, and the worker is gone.
HandleRaises ==
  /\ main # "ended" /\ worker = "handling"
  /\ failure' = TRUE
  /\ worker' = "failed"
  /\ UNCHANGED <<queue, mainVars, hand, handled>>

-----------------------------------------------------------------------------

Main ==
  CheckFailure \/ Put \/ Close \/ Join \/ Joined \/ CloseJournal \/ End

Worker == Get \/ Handle \/ HandleRaises

Next == Main \/ Interrupt \/ Worker

Spec == Init /\ [][Next]_vars

\* Both threads are scheduled; the join waits 30 seconds, which a worker that
\* is not stuck uses; nothing obliges anyone to press Ctrl+C.
FairSpec == Spec /\ WF_vars(Main) /\ WF_vars(Worker)

-----------------------------------------------------------------------------
(* Properties.                                                             *)

TypeOK ==
  /\ queue \in Seq(Nat) /\ Len(queue) <= Capacity
  /\ main \in MainPcs
  /\ worker \in {"waiting", "handling", "stopped", "failed"}
  /\ hand \in Seq(Nat) /\ Len(hand) <= 1
  /\ submitted \in 0..MaxSegments
  /\ handled \in Seq(Nat)
  /\ failure \in BOOLEAN /\ journalOpen \in BOOLEAN
  /\ timedOut \in BOOLEAN /\ raised \in BOOLEAN

\* The segments in the queue: the sentinel is the last one to be put.
Waiting ==
  LET last == Len(queue)
  IN  IF last > 0 /\ queue[last] = Sentinel THEN SubSeq(queue, 1, last - 1) ELSE queue

\* Blocking is not loss: what was submitted is journalled, in the worker's
\* hand or in the queue, each segment once and in the order it arrived.
NothingDropped == handled \o hand \o Waiting = [i \in 1..submitted |-> i]

\* A quiet exit is a complete one: when close returned without raising and
\* without giving up on the worker, every submitted segment is journalled
\* and the journal is closed under nobody.
QuietExitIsComplete ==
  main \in {"journal", "reporting", "ended"} /\ ~raised /\ ~timedOut =>
    /\ worker = "stopped"
    /\ handled = [i \in 1..submitted |-> i]

\* Backpressure and shutdown end: a submit or a close in progress returns
\* unless the worker has failed.
BlockedIsTemporary ==
  main \in {"putting", "closing", "joining"} ~> main \in {"sniffing", "ended"} \/ failure

\* The worker's failure comes out of main when the queue has room for the
\* segment being submitted and for the sentinel.
FailureSurfacesWithRoom ==
  failure /\ main \in {"sniffing", "putting", "closing"} /\ Len(queue) + 2 <= Capacity ~> raised

-----------------------------------------------------------------------------
(* A claim of the code's comments that the code does not keep.             *)

\* "A journal that stopped accepting writes must not look like a quiet game":
\* a failure the worker stored before the close comes out of main.
FailureSurfaces ==
  failure /\ main \in {"sniffing", "putting", "closing"} ~> raised
===============================================================================
