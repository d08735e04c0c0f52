---------------------------- MODULE CaptureProofs ----------------------------
(***************************************************************************)
(* Proofs about MCCapture: the pump, for any capacity of the queue and any *)
(* number of segments; the window, for any views and adapters and any      *)
(* number of questions and loads; the reassembler, for any buffer and any  *)
(* set of pieces of which none begins within another and none wraps.       *)
(***************************************************************************)
EXTENDS MCCapture, SequenceTheorems, FiniteSetTheorems, WellFoundedInduction, TLAPS

-----------------------------------------------------------------------------
(* The pump.  Segments are numbered in the order they arrive, so it is     *)
(* enough to say which number stands at each place.                        *)

\* close has put the sentinel.
Closed == main \in {"joining", "joined", "journal", "reporting", "ended"}

\* Segments that have left the queue.
Out == Len(handled) + Len(hand)

\* The sentinel is the last in the queue until the worker takes it, and then
\* the queue is empty.
SentinelIsLast ==
  /\ Closed /\ worker # "stopped" => queue # <<>> /\ queue[Len(queue)] = Pump!Sentinel
  /\ worker = "stopped" => Closed /\ queue = <<>>

Segment(i) == queue[i] = Out + i

InPlace ==
  /\ \A i \in 1 .. Len(handled) : handled[i] = i
  /\ \A i \in 1 .. Len(hand) : hand[i] = Len(handled) + i
  /\ \A i \in 1 .. Len(queue) :
       (Closed /\ i = Len(queue)) \/ Segment(i)
  /\ submitted = Out + Len(queue) - (IF Closed /\ worker # "stopped" THEN 1 ELSE 0)

HandIsFull == hand = <<>> <=> worker \in {"waiting", "stopped"}

FailureIsStored == failure <=> worker = "failed"

\* What main has seen of the worker on its way out.
WayOut ==
  /\ main \in {"joined", "journal", "reporting", "ended"} /\ ~ timedOut =>
       worker \in {"stopped", "failed"}
  /\ main \in {"journal", "reporting", "ended"} /\ ~ raised /\ ~ timedOut => worker = "stopped"
  /\ raised => main = "ended"

\* The bound is looked at when a packet arrives.
RoomInTheBound == main = "putting" => submitted < MaxSegments

PumpInv ==
  /\ Pump!TypeOK /\ SentinelIsLast /\ InPlace /\ HandIsFull
  /\ FailureIsStored /\ WayOut /\ RoomInTheBound

\* The flags of the pump.
PumpFlags == failure \in BOOLEAN /\ journalOpen \in BOOLEAN /\ timedOut \in BOOLEAN
  /\ raised \in BOOLEAN

\* What is left of the pump's types.
PumpData ==
  /\ queue \in Seq(Nat) /\ Len(queue) <= Capacity
  /\ main \in Pump!MainPcs
  /\ worker \in {"waiting", "handling", "stopped", "failed"}
  /\ hand \in Seq(Nat) /\ Len(hand) <= 1
  /\ submitted \in 0 .. MaxSegments
  /\ handled \in Seq(Nat)

LEMMA PumpTypes == (Pump!TypeOK <=> PumpData /\ PumpFlags)
  /\ (Pump!TypeOK' <=> PumpData' /\ PumpFlags')
BY Zenon DEF Pump!TypeOK, PumpData, PumpFlags

\* Nothing waits initially.
LEMMA PumpInvInit == ASSUME Pump!Init PROVE PumpInv
<1>1. PumpData
  BY PumpAssumption DEF PumpAssumption, Pump!Init, PumpData, Pump!MainPcs
<1>2. PumpFlags
  BY Zenon DEF Pump!Init, PumpFlags
<1>3. QED
  BY <1>1, <1>2, PumpTypes
     DEF Pump!Init, PumpInv, SentinelIsLast, InPlace, HandIsFull, FailureIsStored, WayOut,
         RoomInTheBound, Closed, Out

\* A segment goes to the end of the queue.
LEMMA PutKeeps == ASSUME PumpInv, Pump!Put PROVE PumpInv'
<1>1. /\ queue \in Seq(Nat) /\ submitted \in Nat /\ ~ Closed /\ worker # "stopped"
      /\ queue' = Append(queue, submitted + 1) /\ Len(queue) < Capacity
      /\ handled \in Seq(Nat) /\ hand \in Seq(Nat)
      /\ submitted < MaxSegments /\ submitted' = submitted + 1
      /\ main' = "sniffing" /\ ~ Closed'
      /\ UNCHANGED <<handled, hand, worker, failure, journalOpen, timedOut, raised>>
  BY PumpTypes DEF PumpInv, PumpData, SentinelIsLast, Closed, RoomInTheBound, Pump!Put,
                   Pump!HasRoom, Pump!Goto, Pump!workerVars
<1>2. /\ Len(queue') = Len(queue) + 1 /\ queue'[Len(queue) + 1] = submitted + 1
      /\ \A i \in 1 .. Len(queue) : queue'[i] = queue[i]
  BY <1>1
<1>3. PumpData' /\ PumpFlags'
  <2>1. PumpData'
    BY <1>1, <1>2, PumpTypes, PumpAssumption DEF PumpAssumption, PumpInv, PumpData, Pump!MainPcs
  <2>2. PumpFlags'
    BY <1>1, PumpTypes DEF PumpInv, PumpFlags
  <2>3. QED
    BY <2>1, <2>2
<1>4. InPlace'
  <2>1. submitted = Out + Len(queue) /\ \A i \in 1 .. Len(queue) : queue[i] = Out + i
    BY <1>1 DEF PumpInv, InPlace, Segment
  <2>2. Out' = Out /\ Out \in Nat
    BY <1>1 DEF Out
  <2>3. \A i \in 1 .. Len(queue') : Segment(i)'
    <3>1. ASSUME NEW i \in 1 .. Len(queue') PROVE queue'[i] = Out' + i
      <4>1. Len(queue) \in Nat
        BY <1>1
      <4>2. i = Len(queue) + 1 \/ i \in 1 .. Len(queue)
        BY <4>1, <1>2
      <4>3. CASE i = Len(queue) + 1
        BY <1>2, <2>1, <2>2, <4>1, <4>3
      <4>4. CASE i \in 1 .. Len(queue)
        BY <1>2, <2>1, <2>2, <4>4
      <4>5. QED
        BY <4>2, <4>3, <4>4
    <3>2. QED
      BY <3>1 DEF Segment
  <2>4. submitted' = Out' + Len(queue')
    BY <1>1, <1>2, <2>1, <2>2
  <2>5. QED
    BY <1>1, <2>3, <2>4 DEF PumpInv, InPlace
<1>5. QED
  BY <1>1, <1>3, <1>4, PumpTypes
     DEF PumpInv, SentinelIsLast, HandIsFull, FailureIsStored, WayOut, RoomInTheBound, Closed

\* The sentinel goes behind the last segment.
LEMMA CloseKeeps == ASSUME PumpInv, Pump!Close PROVE PumpInv'
<1>1. /\ queue \in Seq(Nat) /\ ~ Closed /\ worker # "stopped"
      /\ queue' = Append(queue, Pump!Sentinel) /\ Len(queue) < Capacity
      /\ handled \in Seq(Nat) /\ hand \in Seq(Nat)
      /\ main' = "joining" /\ Closed'
      /\ UNCHANGED <<handled, hand, worker, failure, submitted, journalOpen, timedOut, raised>>
  BY PumpTypes DEF PumpInv, PumpData, SentinelIsLast, Closed, Pump!Close, Pump!HasRoom, Pump!Goto,
                   Pump!workerVars
<1>2. /\ Len(queue') = Len(queue) + 1 /\ queue'[Len(queue')] = Pump!Sentinel
      /\ \A i \in 1 .. Len(queue) : queue'[i] = queue[i]
  BY <1>1 DEF Pump!Sentinel
<1>3. PumpData' /\ PumpFlags'
  <2>1. PumpData'
    BY <1>1, <1>2, PumpTypes, PumpAssumption
       DEF PumpAssumption, PumpInv, PumpData, Pump!MainPcs, Pump!Sentinel
  <2>2. PumpFlags'
    BY <1>1, PumpTypes DEF PumpInv, PumpFlags
  <2>3. QED
    BY <2>1, <2>2
<1>4. InPlace'
  <2>1. submitted = Out + Len(queue) /\ \A i \in 1 .. Len(queue) : queue[i] = Out + i
    BY <1>1 DEF PumpInv, InPlace, Segment
  <2>2. Out' = Out /\ Out \in Nat
    BY <1>1 DEF Out
  <2>3. \A i \in 1 .. Len(queue') : i = Len(queue') \/ Segment(i)'
    BY <1>1, <1>2, <2>1, <2>2 DEF Segment
  <2>4. submitted' = Out' + Len(queue') - 1
    BY <1>1, <1>2, <2>1, <2>2
  <2>5. QED
    BY <1>1, <2>3, <2>4 DEF PumpInv, InPlace
<1>5. QED
  <2>1. queue' # <<>>
    BY <1>1, <1>2, EmptySeq, LenProperties
  <2>2. QED
    BY <1>1, <1>2, <1>3, <1>4, <2>1, PumpTypes
       DEF PumpInv, SentinelIsLast, HandIsFull, FailureIsStored, WayOut, RoomInTheBound, Closed

\* What main does besides, and the raising of the handler, moves no segment.
LEMMA NothingMoves ==
  ASSUME PumpInv, UNCHANGED <<queue, hand, handled, submitted>>,
         Closed' = Closed, (worker = "stopped") <=> (worker = "stopped")'
  PROVE  SentinelIsLast' /\ InPlace'
BY DEF PumpInv, SentinelIsLast, InPlace, Segment, Out, Closed

\* The other steps of main.
LEMMA MainKeeps ==
  ASSUME PumpInv,
         \/ Pump!CheckFailure \/ Pump!Interrupt \/ Pump!Join \/ Pump!Joined
         \/ Pump!CloseJournal \/ Pump!End \/ UNCHANGED pumpVars
  PROVE  PumpInv'
<1> USE DEF Pump!CheckFailure, Pump!Interrupt, Pump!Join, Pump!Joined, Pump!CloseJournal,
            Pump!End, pumpVars, Pump!Goto, Pump!workerVars
<1>1. UNCHANGED <<queue, hand, handled, submitted, worker, failure>> /\ Closed' = Closed
  BY DEF Closed
<1>2. SentinelIsLast' /\ InPlace'
  BY <1>1, NothingMoves
<1>3. PumpData'
  BY <1>1, PumpTypes DEF PumpInv, PumpData, Pump!MainPcs
<1>4. PumpFlags'
  <2>1. PumpFlags
    BY PumpTypes DEF PumpInv
  <2>2. QED
    BY <2>1, <1>1, Zenon DEF PumpFlags
<1>5. WayOut' /\ RoomInTheBound'
  BY <1>1, PumpTypes DEF PumpInv, WayOut, RoomInTheBound, FailureIsStored, PumpData, PumpFlags
<1>6. QED
  BY <1>1, <1>2, <1>3, <1>4, <1>5, PumpTypes DEF PumpInv, HandIsFull, FailureIsStored

\* The worker takes the first segment, or the sentinel when it is alone.
LEMMA GetKeeps == ASSUME PumpInv, Pump!Get PROVE PumpInv'
<1>1. /\ queue \in Seq(Nat) /\ queue # <<>> /\ handled \in Seq(Nat) /\ hand = <<>>
      /\ queue' = Tail(queue) /\ worker = "waiting" /\ main # "ended" /\ ~ failure
      /\ UNCHANGED <<handled, main, failure, submitted, journalOpen, timedOut, raised>>
      /\ Closed' = Closed /\ Len(queue) <= Capacity
  BY PumpTypes DEF PumpInv, PumpData, HandIsFull, FailureIsStored, Closed, Pump!Get, Pump!mainVars
<1>2. /\ Len(queue) > 0 /\ Len(queue') = Len(queue) - 1 /\ Head(queue) = queue[1]
      /\ queue' \in Seq(Nat) /\ queue[1] \in Nat
      /\ \A i \in 1 .. Len(queue') : queue'[i] = queue[i + 1]
  BY <1>1
<1>3. PumpFlags'
  BY <1>1, PumpTypes DEF PumpInv, PumpFlags
<1>4. Out = Len(handled) /\ Out \in Nat
  BY <1>1 DEF Out
<1>5. CASE queue[1] = Pump!Sentinel
  <2>1. worker' = "stopped" /\ hand' = hand
    BY <1>1, <1>2, <1>5 DEF Pump!Get
  <2>2. Closed /\ Len(queue) = 1
    <3>1. 1 \in 1 .. Len(queue) /\ queue[1] # Out + 1
      BY <1>2, <1>4, <1>5 DEF Pump!Sentinel
    <3>2. QED
      BY <3>1 DEF PumpInv, InPlace, Segment
  <2>3. queue' = <<>>
    BY <1>1, <1>2, <2>2
  <2>4. PumpData'
    BY <1>1, <1>2, <2>1, PumpTypes, PumpAssumption DEF PumpInv, PumpData, PumpAssumption
  <2>5. InPlace'
    <3>1. Out' = Out /\ Len(queue') = 0 /\ submitted = Out
      BY <1>1, <1>2, <1>4, <2>1, <2>2 DEF PumpInv, InPlace, Out
    <3>2. QED
      BY <1>1, <1>4, <2>1, <3>1 DEF PumpInv, InPlace
  <2>6. QED
    BY <1>1, <1>3, <2>1, <2>2, <2>3, <2>4, <2>5, PumpTypes
       DEF PumpInv, SentinelIsLast, HandIsFull, FailureIsStored, WayOut, RoomInTheBound
<1>6. CASE queue[1] # Pump!Sentinel
  <2>1. worker' = "handling" /\ hand' = <<queue[1]>>
    BY <1>1, <1>2, <1>6 DEF Pump!Get
  <2>2. Len(hand') = 1 /\ hand'[1] = queue[1] /\ hand' \in Seq(Nat) /\ hand' # <<>>
    BY <1>2, <2>1
  <2>3. Closed => Len(queue) > 1 /\ queue[Len(queue)] = Pump!Sentinel
    BY <1>1, <1>2, <1>6 DEF PumpInv, SentinelIsLast
  <2>4. queue[1] = Out + 1
    BY <1>2, <2>3 DEF PumpInv, InPlace, Segment
  <2>5. PumpData'
    BY <1>1, <1>2, <2>1, <2>2, PumpTypes, PumpAssumption DEF PumpInv, PumpData, PumpAssumption
  <2>6. Out' = Out + 1
    BY <1>1, <1>4, <2>2 DEF Out
  <2>7. SentinelIsLast'
    <3>1. ASSUME Closed PROVE queue' # <<>> /\ queue'[Len(queue')] = Pump!Sentinel
      <4>1. Len(queue') \in 1 .. Len(queue') /\ Len(queue') + 1 = Len(queue)
        BY <1>1, <1>2, <2>3, <3>1
      <4>2. QED
        BY <1>2, <2>3, <3>1, <4>1
    <3>2. QED
      BY <1>1, <2>1, <3>1 DEF SentinelIsLast
  <2>8. InPlace'
    <3>1. \A i \in 1 .. Len(hand') : hand'[i] = Len(handled') + i
      BY <1>1, <1>4, <2>2, <2>4
    <3>2. \A i \in 1 .. Len(queue') : (Closed /\ i = Len(queue')) \/ queue'[i] = Out' + i
      BY <1>2, <1>4, <2>6 DEF PumpInv, InPlace, Segment
    <3>3. submitted' = Out' + Len(queue') - (IF Closed THEN 1 ELSE 0)
      <4>1. submitted = Out + Len(queue) - (IF Closed THEN 1 ELSE 0)
        BY <1>1 DEF PumpInv, InPlace
      <4>2. Len(queue) \in Nat /\ submitted' = submitted
        BY <1>1
      <4>3. QED
        BY <1>2, <1>4, <2>6, <4>1, <4>2
    <3>4. QED
      BY <1>1, <2>1, <3>1, <3>2, <3>3 DEF PumpInv, InPlace, Segment
  <2>9. QED
    BY <1>1, <1>3, <2>1, <2>2, <2>5, <2>7, <2>8, PumpTypes
       DEF PumpInv, HandIsFull, FailureIsStored, WayOut, RoomInTheBound
<1>7. QED
  BY <1>5, <1>6

\* The segment in hand is journalled behind those that were.
LEMMA HandleKeeps == ASSUME PumpInv, Pump!Handle PROVE PumpInv'
<1>1. /\ handled \in Seq(Nat) /\ hand \in Seq(Nat) /\ hand # <<>> /\ Len(hand) <= 1
      /\ handled' = handled \o hand /\ hand' = <<>>
      /\ worker = "handling" /\ worker' = "waiting" /\ Closed' = Closed
      /\ UNCHANGED <<queue, main, failure, submitted, journalOpen, timedOut, raised>>
  BY PumpTypes DEF PumpInv, PumpData, HandIsFull, Closed, Pump!Handle, Pump!mainVars
<1>2. /\ Len(hand) = 1 /\ Len(handled') = Len(handled) + 1 /\ handled' \in Seq(Nat)
      /\ handled'[Len(handled) + 1] = hand[1]
      /\ \A i \in 1 .. Len(handled) : handled'[i] = handled[i]
  <2>1. Len(hand) = 1
    <3>1. Len(hand) \in Nat \ {0} /\ Len(hand) <= 1
      BY <1>1, EmptySeq
    <3>2. \A n \in Nat \ {0} : n <= 1 => n = 1
      OBVIOUS
    <3>3. QED
      BY <3>1, <3>2
  <2>2. QED
    BY <1>1, <2>1, ConcatProperties
<1>3. PumpData' /\ PumpFlags'
  <2>1. PumpData'
    BY <1>1, <1>2, PumpTypes DEF PumpInv, PumpData
  <2>2. PumpFlags'
    BY <1>1, PumpTypes DEF PumpInv, PumpFlags
  <2>3. QED
    BY <2>1, <2>2
<1>4. Out' = Out
  BY <1>1, <1>2 DEF Out
<1>5. InPlace'
  <2>1. \A i \in 1 .. Len(handled') : handled'[i] = i
    BY <1>1, <1>2 DEF PumpInv, InPlace
  <2>2. QED
    BY <1>1, <1>4, <2>1 DEF PumpInv, InPlace, Segment
<1>6. QED
  BY <1>1, <1>3, <1>5, PumpTypes
     DEF PumpInv, SentinelIsLast, HandIsFull, FailureIsStored, WayOut, RoomInTheBound

\* The segment the handler raised on stays in hand.
LEMMA HandleRaisesKeeps == ASSUME PumpInv, Pump!HandleRaises PROVE PumpInv'
<1>1. /\ worker = "handling" /\ worker' = "failed" /\ failure' = TRUE /\ main # "ended"
      /\ UNCHANGED <<queue, hand, handled, main, submitted, journalOpen, timedOut, raised>>
      /\ Closed' = Closed
  BY DEF Closed, Pump!HandleRaises, Pump!mainVars
<1>2. SentinelIsLast' /\ InPlace'
  BY <1>1, NothingMoves
<1>3. PumpData'
  BY <1>1, PumpTypes DEF PumpInv, PumpData
<1>4. PumpFlags'
  BY <1>1, PumpTypes DEF PumpInv, PumpFlags
<1>5. QED
  BY <1>1, <1>2, <1>3, <1>4, PumpTypes
     DEF PumpInv, HandIsFull, FailureIsStored, WayOut, RoomInTheBound

\* The pump's invariant is inductive.
LEMMA PumpInvStep ==
  ASSUME PumpInv, Pump!Main \/ Pump!Interrupt \/ Pump!Worker \/ UNCHANGED pumpVars
  PROVE  PumpInv'
BY PutKeeps, CloseKeeps, MainKeeps, GetKeeps, HandleKeeps, HandleRaisesKeeps
   DEF Pump!Main, Pump!Worker

\* The queue without its sentinel continues what has left it.
LEMMA PumpInvIsEnough == ASSUME PumpInv PROVE NothingIsLost
<1>1. /\ queue \in Seq(Nat) /\ handled \in Seq(Nat) /\ hand \in Seq(Nat)
      /\ submitted \in Nat
  BY PumpTypes DEF PumpInv, PumpData
<1>2. Len(queue) \in Nat /\ Out \in Nat
  BY <1>1 DEF Out
<1>3. /\ Pump!Waiting \in Seq(Nat)
      /\ submitted = Out + Len(Pump!Waiting)
      /\ \A i \in 1 .. Len(Pump!Waiting) : Pump!Waiting[i] = Out + i
  <2>1. CASE Closed /\ worker # "stopped"
    <3>1. queue # <<>> /\ queue[Len(queue)] = Pump!Sentinel
      BY <2>1 DEF PumpInv, SentinelIsLast
    <3>2. Len(queue) > 0
      BY <1>1, <3>1, EmptySeq
    <3>3. Pump!Waiting = SubSeq(queue, 1, Len(queue) - 1)
      BY <3>1, <3>2 DEF Pump!Waiting
    <3>4. /\ Pump!Waiting \in Seq(Nat) /\ Len(Pump!Waiting) = Len(queue) - 1
          /\ \A i \in 1 .. Len(queue) - 1 : Pump!Waiting[i] = queue[i]
      <4> DEFINE n == Len(queue) - 1
      <4>1. n \in Nat /\ 1 \in Int /\ \A i \in 1 .. n : queue[i] \in Nat
        BY <1>1, <1>2, <3>2
      <4>2. /\ SubSeq(queue, 1, n) \in Seq(Nat)
            /\ Len(SubSeq(queue, 1, n)) = IF 1 <= n THEN n - 1 + 1 ELSE 0
            /\ \A i \in 1 .. n - 1 + 1 : SubSeq(queue, 1, n)[i] = queue[1 + i - 1]
        BY <4>1, SubSeqProperties
      <4> HIDE DEF n
      <4>3. /\ Len(SubSeq(queue, 1, n)) = n
            /\ \A i \in 1 .. n : SubSeq(queue, 1, n)[i] = queue[i]
        BY <4>1, <4>2
      <4>4. QED
        BY <3>3, <4>2, <4>3 DEF n
    <3>5. \A i \in 1 .. Len(queue) - 1 : queue[i] = Out + i
      BY <1>2 DEF PumpInv, InPlace, Segment
    <3>6. submitted = Out + Len(queue) - 1
      BY <2>1 DEF PumpInv, InPlace
    <3>7. QED
      BY <1>2, <3>4, <3>5, <3>6
  <2>2. CASE ~ (Closed /\ worker # "stopped")
    <3>1. \A i \in 1 .. Len(queue) : queue[i] = Out + i
      <4>1. CASE worker = "stopped"
        BY <4>1 DEF PumpInv, SentinelIsLast
      <4>2. CASE ~ Closed
        BY <4>2 DEF PumpInv, InPlace, Segment
      <4>3. QED
        BY <2>2, <4>1, <4>2
    <3>2. Pump!Waiting = queue
      BY <1>2, <3>1 DEF Pump!Waiting, Pump!Sentinel
    <3>3. submitted = Out + Len(queue)
      BY <1>2, <2>2 DEF PumpInv, InPlace
    <3>4. QED
      BY <1>1, <3>1, <3>2, <3>3
  <2>3. QED
    BY <2>1, <2>2
<1>4. Pump!NothingDropped
  <2> DEFINE all == handled \o hand \o Pump!Waiting
             numbered == [i \in 1 .. submitted |-> i]
  <2>1. Len(handled) \in Nat /\ Len(hand) \in Nat /\ Len(Pump!Waiting) \in Nat
    BY <1>1, <1>3
  <2>2. /\ \A i \in 1 .. Len(handled) : handled[i] = i
        /\ \A i \in 1 .. Len(hand) : hand[i] = Len(handled) + i
    BY DEF PumpInv, InPlace
  <2>3. /\ handled \o hand \in Seq(Nat) /\ Len(handled \o hand) = Out
        /\ \A i \in 1 .. Out : (handled \o hand)[i] = i
    <3>1. \A i \in 1 .. Len(handled) + Len(hand) :
            (handled \o hand)[i] = IF i <= Len(handled) THEN handled[i] ELSE hand[i - Len(handled)]
      BY <1>1, ConcatProperties
    <3>2. \A i \in 1 .. Len(handled) + Len(hand) :
            i <= Len(handled) \/ i - Len(handled) \in 1 .. Len(hand)
      BY <2>1
    <3>3. QED
      BY <1>1, <2>1, <2>2, <3>1, <3>2, ConcatProperties DEF Out
  <2>4. /\ all \in Seq(Nat) /\ Len(all) = submitted
        /\ \A i \in 1 .. submitted : all[i] = i
    <3>1. \A i \in 1 .. Out + Len(Pump!Waiting) :
            all[i] = IF i <= Out THEN (handled \o hand)[i] ELSE Pump!Waiting[i - Out]
      BY <1>1, <1>3, <2>3, ConcatProperties
    <3>2. \A i \in 1 .. Out + Len(Pump!Waiting) : i <= Out \/ i - Out \in 1 .. Len(Pump!Waiting)
      BY <1>2, <2>1
    <3>3. all \in Seq(Nat) /\ Len(all) = submitted
      BY <1>3, <2>3, ConcatProperties
    <3>4. ASSUME NEW i \in 1 .. submitted PROVE all[i] = i
      <4>1. i \in 1 .. Out + Len(Pump!Waiting)
        BY <1>3
      <4>2. CASE i <= Out
        BY <1>2, <2>3, <3>1, <4>1, <4>2
      <4>3. CASE ~ (i <= Out)
        <5>1. i - Out \in 1 .. Len(Pump!Waiting) /\ all[i] = Pump!Waiting[i - Out]
          BY <3>1, <3>2, <4>1, <4>3
        <5>2. QED
          BY <1>2, <1>3, <5>1
      <4>4. QED
        BY <4>2, <4>3
    <3>5. QED
      BY <3>3, <3>4
  <2>5. numbered \in Seq(Nat) /\ Len(numbered) = submitted
    BY <1>1
  <2> HIDE DEF all
  <2>6. all = numbered
    BY <1>1, <2>4, <2>5, SeqEqual
  <2>7. QED
    BY <2>6 DEF all, Pump!NothingDropped
<1>5. Pump!QuietExitIsComplete
  <2>1. SUFFICES ASSUME main \in {"journal", "reporting", "ended"}, ~ raised, ~ timedOut
                 PROVE  worker = "stopped" /\ handled = [i \in 1 .. submitted |-> i]
    BY DEF Pump!QuietExitIsComplete
  <2>2. worker = "stopped" /\ hand = <<>> /\ queue = <<>>
    BY <2>1 DEF PumpInv, WayOut, HandIsFull, SentinelIsLast
  <2>3. Pump!Waiting = <<>>
    BY <2>2 DEF Pump!Waiting
  <2>4. handled \o hand \o Pump!Waiting = handled
    BY <1>1, <2>2, <2>3, ConcatEmptySeq
  <2>5. QED
    BY <1>4, <2>2, <2>4 DEF Pump!NothingDropped
<1>6. QED
  BY <1>4, <1>5 DEF NothingIsLost

-----------------------------------------------------------------------------
(* The window.                                                             *)

Asked ==
  {"health", "landing", "get_settings", "get_adapters", "capture_status", "save_settings",
   "saved", "switch_capture"}

AdapterChoices == Adapters \cup {"none"}

\* Questions of the first n loads.
CallType(n) ==
  [ask: Asked, load: 0 .. n, got: AdapterChoices \cup {"failed", "kept", "first", "again"},
   had: {"empty", "filled"} \X AdapterChoices]

\* What a function has in hand when it asks.
Sends(c) ==
  /\ c.ask \notin {"health", "landing"} => c.load # 0
  /\ c.ask = "get_adapters" => c.got \in AdapterChoices \cup {"failed"}
  /\ c.ask \in {"save_settings", "saved"} => c.got \in AdapterChoices \cup {"kept"}

CallsOK == calls \subseteq CallType(settingsLoadToken) /\ \A c \in calls : Sends(c)

WindowData ==
  /\ active \in Views /\ rows \in {"empty", "filled"} /\ held \in AdapterChoices
  /\ startup \in {"status", "health", "settings", "done"}
  /\ settingsLoadToken \in 0 .. MaxLoads /\ form \in {0, settingsLoadToken}
  /\ options \in Window!Selections /\ picked \in options \cup {"none"}
  /\ summary \in {"none", "failed", "empty", "filled"}
  /\ statusPollHandle \in 0 .. settingsLoadToken /\ timers \subseteq 1 .. settingsLoadToken

WindowFlags ==
  pinned \in BOOLEAN /\ firstRunNote \in BOOLEAN /\ loading \in BOOLEAN /\ edited \in BOOLEAN

OneIsShown == form = 0 \/ ~ loading

\* The questions of the start, of which one is out at a time.
Starting(c) == c.ask \in {"health", "landing"}

StartupOK ==
  /\ startup = "health" <=> \E c \in calls : c.ask = "health"
  /\ (\E c \in calls : c.ask = "landing") => startup = "settings"
  /\ \A c, d \in calls : Starting(c) /\ Starting(d) => c = d

\* A save that has landed will be drawn, by a load that is still to come.
Undrawn == \E c \in calls : c.ask = "saved"

\* What the newest load has in hand is what the reader holds.
IsTrue(c) ==
  c.load = settingsLoadToken =>
    /\ c.ask = "get_settings" => c.had[2] = held
    /\ c.ask = "get_adapters" => c.got \in {held, "failed"}

NewestLoadIsTrue ==
  ~ Undrawn =>
    /\ \A c \in calls : IsTrue(c)
    /\ form # 0 /\ ~ edited => picked = Window!Shown(held, options)

WindowInv ==
  /\ WindowData /\ WindowFlags /\ OneIsShown /\ StartupOK /\ CallsOK
  /\ NewestLoadIsTrue /\ Window!OneInterval

\* What can be picked is an adapter or none.
LEMMA SelectionsAreChoices ==
  /\ {} \in Window!Selections
  /\ \A among \in Window!Selections : among \subseteq AdapterChoices
  /\ \A among : \A adapter : Window!Shown(adapter, among) \in among \cup {"none"}
BY DEF Window!Selections, Window!Shown, AdapterChoices

\* The window's types are part of the invariant.
LEMMA WindowInvIsEnough ==
  ASSUME WindowInv PROVE Window!TypeOK /\ FieldsMatchWhatIsHeld
<1>1. \A c \in calls : c.load \in 0 .. settingsLoadToken
  BY DEF WindowInv, CallsOK, CallType
<1>2. Window!TypeOK
  BY <1>1, Zenon DEF WindowInv, WindowData, WindowFlags, OneIsShown, StartupOK, Window!TypeOK,
                     AdapterChoices
<1>3. FieldsMatchWhatIsHeld
  BY DEF WindowInv, NewestLoadIsTrue, Undrawn, FieldsMatchWhatIsHeld, Window!FieldsMatchWhatIsHeld
<1>4. QED
  BY <1>2, <1>3

\* Nothing is asked or drawn initially.
LEMMA WindowInvInit == ASSUME Window!Init PROVE WindowInv
<1>1. WindowData
  BY WindowAssumption, SelectionsAreChoices
     DEF WindowAssumption, Window!Init, WindowData, AdapterChoices
<1>2. WindowFlags /\ OneIsShown
  BY Zenon DEF Window!Init, WindowFlags, OneIsShown
<1>3. QED
  BY <1>1, <1>2 DEF Window!Init, WindowInv, StartupOK, CallsOK, NewestLoadIsTrue, Undrawn,
                    Window!OneInterval

-----------------------------------------------------------------------------

\* A question is what it was asked with.
LEMMA QuestionType ==
  ASSUME WindowInv, NEW n \in Nat, NEW ask \in Asked, NEW load \in 0 .. n,
         NEW got \in AdapterChoices \cup {"failed", "kept", "first", "again"}
  PROVE  LET q == Window!Question(ask, load, got)
         IN  /\ q \in CallType(n)
             /\ q.ask = ask /\ q.load = load /\ q.got = got
             /\ ask = "get_settings" => q.had[2] = held
BY DEF WindowInv, WindowData, CallType, Window!Question, AdapterChoices

\* What an answer finds is well typed.
LEMMA AnswerType ==
  ASSUME WindowInv, NEW c \in calls
  PROVE  /\ c \in CallType(settingsLoadToken) /\ Sends(c)
         /\ c.load \in 0 .. settingsLoadToken /\ settingsLoadToken \in Nat
         /\ Window!Counted(c) \subseteq {"empty", "filled"}
         /\ Window!Read(c) \subseteq AdapterChoices
<1>1. c \in CallType(settingsLoadToken) /\ Sends(c) /\ settingsLoadToken \in Nat
  BY DEF WindowInv, CallsOK, WindowData
<1>2. c.had[1] \in {"empty", "filled"} /\ c.had[2] \in AdapterChoices
      /\ c.load \in 0 .. settingsLoadToken
  BY <1>1 DEF CallType
<1>3. QED
  BY <1>1, <1>2 DEF WindowInv, WindowData, Window!Counted, Window!Read

\* The start is where it was when its questions are.
LEMMA StartStays ==
  ASSUME StartupOK, startup' = startup, \A c : Starting(c) => (c \in calls' <=> c \in calls)
  PROVE  StartupOK'
BY DEF StartupOK, Starting

\* A question that is no load's, or whose load has read what is held.
LEMMA AskKeeps ==
  ASSUME WindowInv, UNCHANGED <<held, settingsLoadToken, form, options, picked, edited>>,
         NEW q \in CallType(settingsLoadToken), Sends(q), ~ Undrawn => IsTrue(q),
         calls' \subseteq calls \cup {q},
         \A c \in calls : c.ask = "saved" => c \in calls'
  PROVE  CallsOK' /\ NewestLoadIsTrue'
<1>1. CallsOK'
  BY DEF WindowInv, CallsOK
<1>2. Undrawn => Undrawn'
  BY DEF Undrawn
<1>3. ASSUME ~ Undrawn PROVE \A c \in calls' : IsTrue(c)'
  BY <1>3 DEF WindowInv, NewestLoadIsTrue, IsTrue
<1>4. QED
  BY <1>1, <1>2, <1>3 DEF WindowInv, NewestLoadIsTrue

\* An answer nothing is asked after.
LEMMA EndKeeps ==
  ASSUME WindowInv, NEW c \in calls, Window!Ends(c), c.ask # "saved",
         UNCHANGED <<held, settingsLoadToken, form, options, picked, edited>>
  PROVE  CallsOK' /\ NewestLoadIsTrue'
<1>1. c \in CallType(settingsLoadToken) /\ Sends(c) /\ (~ Undrawn => IsTrue(c))
  BY AnswerType DEF WindowInv, NewestLoadIsTrue
<1>2. calls' \subseteq calls \cup {c} /\ \A d \in calls : d.ask = "saved" => d \in calls'
  BY DEF Window!Ends
<1>3. QED
  BY <1>1, <1>2, AskKeeps

\* A load begins with nothing drawn, and is newer than every other.
LEMMA LoadKeeps ==
  ASSUME WindowInv, NEW answered, Window!loadSettingsView(answered), held' = held
  PROVE  /\ CallsOK' /\ NewestLoadIsTrue'
         /\ settingsLoadToken' \in 0 .. MaxLoads /\ settingsLoadToken' = settingsLoadToken + 1
         /\ form' = 0 /\ options' = {} /\ picked' = "none" /\ summary' = "none" /\ loading' = TRUE
              /\ edited' = FALSE
         /\ \A c : Starting(c) => (c \in calls' <=> c \in calls \ answered)
<1> DEFINE q == Window!Question("get_settings", settingsLoadToken', "none")
<1>1. /\ settingsLoadToken \in Nat /\ settingsLoadToken' = settingsLoadToken + 1
      /\ settingsLoadToken' \in 0 .. MaxLoads
      /\ form' = 0 /\ options' = {} /\ picked' = "none" /\ summary' = "none" /\ loading' = TRUE
           /\ edited' = FALSE
      /\ calls' = (calls \ answered) \cup {q}
  BY WindowAssumption
     DEF WindowAssumption, WindowInv, WindowData, Window!loadSettingsView, Window!Invoke
<1>2. /\ q \in CallType(settingsLoadToken') /\ q.ask = "get_settings"
      /\ q.load = settingsLoadToken' /\ q.had[2] = held
  BY <1>1, QuestionType DEF Asked, AdapterChoices
<1> HIDE DEF q
<1>3. \A c \in calls : c \in CallType(settingsLoadToken') /\ c.load # settingsLoadToken'
  BY <1>1 DEF WindowInv, CallsOK, CallType
<1>4. CallsOK'
  BY <1>1, <1>2, <1>3 DEF WindowInv, CallsOK, Sends
<1>5. \A c \in calls' : IsTrue(c)'
  BY <1>1, <1>2, <1>3 DEF IsTrue
<1>6. NewestLoadIsTrue'
  BY <1>1, <1>5 DEF NewestLoadIsTrue
<1>7. QED
  BY <1>1, <1>2, <1>4, <1>6 DEF Starting

\* What an action leaves as it is.
LEMMA FrameKeeps ==
  ASSUME WindowInv,
         UNCHANGED <<active, rows, held, pinned, settingsLoadToken, form, loading, options, picked,
           edited>>,
         startup' \in {"status", "health", "settings", "done"}
  PROVE  /\ OneIsShown'
         /\ firstRunNote' \in BOOLEAN => WindowFlags'
         /\ UNCHANGED <<summary, statusPollHandle, timers>> => WindowData'
<1>1. OneIsShown'
  BY DEF WindowInv, OneIsShown
<1>2. firstRunNote' \in BOOLEAN => WindowFlags'
  BY Zenon DEF WindowInv, WindowFlags
<1>3. QED
  BY <1>1, <1>2 DEF WindowInv, WindowData

\* Starting: the reader is there, or is not.
LEMMA ReaderKeeps ==
  ASSUME WindowInv, Window!ReaderReady \/ Window!ReaderFailed PROVE WindowInv'
<1> DEFINE q == Window!Question("health", 0, "none")
<1>1. /\ startup = "status" /\ startup' \in {"health", "done"}
      /\ UNCHANGED <<active, rows, held, pinned, firstRunNote, settingsLoadToken, form, loading,
                     options, picked, edited, summary, statusPollHandle, timers>>
      /\ (startup' = "health" /\ calls' = calls \cup {q}) \/ (startup' = "done" /\ calls' = calls)
  BY DEF Window!ReaderReady, Window!ReaderFailed, Window!readerVars, Window!settingsVars,
         Window!pollVars
<1>2. /\ q \in CallType(settingsLoadToken) /\ q.ask = "health" /\ q.load = 0
      /\ settingsLoadToken \in Nat
  <2>1. settingsLoadToken \in Nat /\ 0 \in 0 .. settingsLoadToken
    BY DEF WindowInv, WindowData
  <2>2. QED
    BY <2>1, QuestionType DEF Asked, AdapterChoices
<1> HIDE DEF q
<1>3. CallsOK' /\ NewestLoadIsTrue'
  <2>1. Sends(q) /\ IsTrue(q)
    BY <1>2 DEF Sends, IsTrue
  <2>2. QED
    BY <1>1, <1>2, <2>1, AskKeeps
<1>4. StartupOK'
  <2>1. \A c \in calls : ~ Starting(c)
    BY <1>1 DEF WindowInv, StartupOK, Starting
  <2>2. QED
    BY <1>1, <1>2, <2>1 DEF StartupOK, Starting
<1>5. WindowData' /\ WindowFlags' /\ OneIsShown' /\ Window!OneInterval'
  BY <1>1, FrameKeeps DEF WindowInv, WindowFlags, Window!OneInterval
<1>6. QED
  BY <1>3, <1>4, <1>5 DEF WindowInv

\* Showing a view.
LEMMA ShowKeeps ==
  ASSUME WindowInv, NEW answered \in SUBSET calls, NEW view \in Views, Window!Show(answered, view),
         \A c \in answered : c.ask # "saved",
         UNCHANGED <<rows, held, pinned>>, firstRunNote' \in BOOLEAN,
         startup' \in {"status", "health", "settings", "done"}
  PROVE  /\ WindowData' /\ WindowFlags' /\ OneIsShown' /\ CallsOK' /\ NewestLoadIsTrue'
         /\ Window!OneInterval'
         /\ \A c : Starting(c) => (c \in calls' <=> c \in calls \ answered)
<1>1. active' \in Views
  BY DEF Window!Show
<1>2. \/ UNCHANGED <<statusPollHandle, timers>>
      \/ statusPollHandle' = 0 /\ timers' = timers \ {statusPollHandle}
  BY DEF Window!Show, Window!stopStatusPolling, Window!pollVars
<1>3. Window!OneInterval'
  BY <1>2 DEF WindowInv, Window!OneInterval
<1>4. /\ settingsLoadToken \in Nat
      /\ statusPollHandle' \in 0 .. settingsLoadToken /\ timers' \subseteq 1 .. settingsLoadToken
  <2>1. /\ settingsLoadToken \in Nat
        /\ statusPollHandle \in 0 .. settingsLoadToken /\ timers \subseteq 1 .. settingsLoadToken
    BY DEF WindowInv, WindowData
  <2>2. CASE UNCHANGED <<statusPollHandle, timers>>
    BY <2>1, <2>2
  <2>3. CASE statusPollHandle' = 0 /\ timers' = timers \ {statusPollHandle}
    BY <2>1, <2>3
  <2>4. QED
    BY <1>2, <2>1, <2>2, <2>3
<1>5. CASE Window!loadSettingsView(answered)
  <2>1. /\ CallsOK' /\ NewestLoadIsTrue'
        /\ settingsLoadToken' \in 0 .. MaxLoads /\ settingsLoadToken' = settingsLoadToken + 1
        /\ form' = 0 /\ options' = {} /\ picked' = "none" /\ summary' = "none" /\ loading' = TRUE
             /\ edited' = FALSE
        /\ \A c : Starting(c) => (c \in calls' <=> c \in calls \ answered)
    BY <1>5, LoadKeeps
  <2>2. WindowData'
    <3>1. statusPollHandle' \in 0 .. settingsLoadToken' /\ timers' \subseteq 1 .. settingsLoadToken'
      BY <1>4, <2>1
    <3>2. QED
      BY <1>1, <2>1, <3>1, SelectionsAreChoices DEF WindowInv, WindowData
  <2>3. WindowFlags' /\ OneIsShown'
    BY <2>1, Zenon DEF WindowInv, WindowFlags, OneIsShown
  <2>4. QED
    BY <1>3, <2>1, <2>2, <2>3
<1>6. CASE calls' = calls \ answered /\ UNCHANGED Window!settingsVars
  <2>1. UNCHANGED <<settingsLoadToken, form, loading, options, picked, edited, summary>>
    BY <1>6 DEF Window!settingsVars
  <2>2. CallsOK' /\ NewestLoadIsTrue'
    <3>1. Undrawn => Undrawn'
      BY <1>6 DEF Undrawn
    <3>2. QED
      BY <1>6, <2>1, <3>1 DEF WindowInv, CallsOK, NewestLoadIsTrue, IsTrue
  <2>3. WindowData'
    BY <1>1, <1>4, <2>1 DEF WindowInv, WindowData
  <2>4. WindowFlags' /\ OneIsShown'
    BY <2>1, Zenon DEF WindowInv, WindowFlags, OneIsShown
  <2>5. QED
    BY <1>3, <1>6, <2>2, <2>3, <2>4
<1>7. QED
  BY <1>5, <1>6 DEF Window!Show

\* The player clicks.
LEMMA ClickKeeps == ASSUME WindowInv, Window!Click PROVE WindowInv'
<1>1. PICK view \in Views : Window!Show({}, view)
  BY DEF Window!Click
<1>2. UNCHANGED <<rows, held, pinned, startup, firstRunNote>>
  BY DEF Window!Click, Window!readerVars
<1>3. firstRunNote' \in BOOLEAN /\ startup' \in {"status", "health", "settings", "done"}
  BY <1>2 DEF WindowInv, WindowFlags, WindowData
<1>4. /\ WindowData' /\ WindowFlags' /\ OneIsShown' /\ CallsOK' /\ NewestLoadIsTrue'
      /\ Window!OneInterval' /\ \A c : Starting(c) => (c \in calls' <=> c \in calls)
  BY <1>1, <1>2, <1>3, ShowKeeps
<1>5. StartupOK'
  BY <1>2, <1>4, StartStays DEF WindowInv
<1>6. QED
  BY <1>4, <1>5 DEF WindowInv

\* The journal's health is known: the start goes on or is over.
LEMMA HealthKeeps ==
  ASSUME WindowInv, NEW c \in calls, Window!HealthAnswered(c) PROVE WindowInv'
<1> DEFINE q == Window!Question("landing", 0, "none")
<1>1. /\ c.ask = "health" /\ startup' \in {"settings", "done"}
      /\ UNCHANGED <<active, rows, held, pinned, firstRunNote, settingsLoadToken, form, loading,
                     options, picked, edited, summary, statusPollHandle, timers>>
      /\ \/ startup' = "done" /\ calls' = calls \ {c}
         \/ startup' = "settings" /\ calls' = (calls \ {c}) \cup {q}
  BY DEF Window!HealthAnswered, Window!Ends, Window!Invoke, Window!readerVars,
         Window!settingsVars, Window!pollVars
<1>2. /\ q \in CallType(settingsLoadToken) /\ q.ask = "landing" /\ q.load = 0
      /\ settingsLoadToken \in Nat
  <2>1. settingsLoadToken \in Nat /\ 0 \in 0 .. settingsLoadToken
    BY DEF WindowInv, WindowData
  <2>2. QED
    BY <2>1, QuestionType DEF Asked, AdapterChoices
<1> HIDE DEF q
<1>3. CallsOK' /\ NewestLoadIsTrue'
  <2>1. Sends(q) /\ IsTrue(q)
    BY <1>2 DEF Sends, IsTrue
  <2>2. calls' \subseteq calls \cup {q} /\ \A d \in calls : d.ask = "saved" => d \in calls'
    BY <1>1
  <2>3. QED
    BY <1>1, <1>2, <2>1, <2>2, AskKeeps
<1>4. StartupOK'
  <2>1. \A d \in calls : Starting(d) => d = c
    BY <1>1 DEF WindowInv, StartupOK, Starting
  <2>2. QED
    BY <1>1, <1>2, <2>1 DEF StartupOK, Starting
<1>5. WindowData' /\ WindowFlags' /\ OneIsShown' /\ Window!OneInterval'
  BY <1>1, FrameKeeps DEF WindowInv, WindowFlags, Window!OneInterval
<1>6. QED
  BY <1>3, <1>4, <1>5 DEF WindowInv

\* The start is over, on the settings screen or where the player is.
LEMMA LandingKeeps ==
  ASSUME WindowInv, NEW c \in calls, Window!LandingAnswered(c) PROVE WindowInv'
<1>1. /\ c.ask = "landing" /\ startup' = "done" /\ UNCHANGED <<rows, held, pinned>>
  BY DEF Window!LandingAnswered, Window!readerVars
<1>2. firstRunNote' \in BOOLEAN
  BY DEF Window!LandingAnswered, WindowInv, WindowFlags
<1>3. /\ WindowData' /\ WindowFlags' /\ OneIsShown' /\ CallsOK' /\ NewestLoadIsTrue'
      /\ Window!OneInterval' /\ \A d : Starting(d) => (d \in calls' <=> d \in calls \ {c})
  <2>1. CASE Window!Show({c}, "settings")
    <3>1. "settings" \in Views
      BY WindowAssumption DEF WindowAssumption
    <3>2. QED
      BY <1>1, <1>2, <2>1, <3>1, ShowKeeps
  <2>2. CASE Window!Ends(c) /\ UNCHANGED <<active, Window!settingsVars, Window!pollVars>>
    <3>1. UNCHANGED <<active, settingsLoadToken, form, loading, options, picked, edited, summary,
                      statusPollHandle, timers>>
      BY <2>2 DEF Window!settingsVars, Window!pollVars
    <3>2. CallsOK' /\ NewestLoadIsTrue'
      BY <1>1, <2>2, <3>1, EndKeeps
    <3>3. WindowData' /\ WindowFlags' /\ OneIsShown' /\ Window!OneInterval'
      BY <1>1, <1>2, <3>1, FrameKeeps DEF WindowInv, Window!OneInterval
    <3>4. QED
      BY <2>2, <3>2, <3>3 DEF Window!Ends
  <2>3. QED
    BY <2>1, <2>2 DEF Window!LandingAnswered
<1>4. StartupOK'
  <2>1. \A d \in calls : Starting(d) => d = c
    BY <1>1 DEF WindowInv, StartupOK, Starting
  <2>2. \A d \in calls' : ~ Starting(d)
    BY <1>3, <2>1
  <2>3. QED
    BY <1>1, <2>2 DEF StartupOK, Starting
<1>5. QED
  BY <1>3, <1>4 DEF WindowInv

\* The settings are there, or are not: the adapters are asked for, with what
\* was read.
LEMMA SettingsKeeps ==
  ASSUME WindowInv, NEW c \in calls, Window!SettingsAnswered(c) PROVE WindowInv'
<1>1. /\ c.ask = "get_settings"
      /\ UNCHANGED <<active, startup, rows, held, pinned, firstRunNote, settingsLoadToken, form,
                     loading, options, picked, edited, summary, statusPollHandle, timers>>
  BY DEF Window!SettingsAnswered, Window!stay, Window!readerVars, Window!settingsVars,
         Window!pollVars
<1>2. PICK got \in Window!Read(c) \cup {"failed"} :
        calls' = (calls \ {c}) \cup {Window!Question("get_adapters", c.load, got)}
  BY DEF Window!SettingsAnswered, Window!Invoke
<1> DEFINE q == Window!Question("get_adapters", c.load, got)
<1>3. got \in AdapterChoices \cup {"failed"}
  BY <1>2, AnswerType
<1>4. q \in CallType(settingsLoadToken) /\ q.ask = "get_adapters" /\ q.load = c.load /\ q.got = got
  BY <1>3, AnswerType, QuestionType DEF Asked
<1> HIDE DEF q
<1>5. Sends(q)
  BY <1>1, <1>3, <1>4, AnswerType DEF Sends
<1>6. ~ Undrawn => IsTrue(q)
  BY <1>1, <1>2, <1>4 DEF WindowInv, NewestLoadIsTrue, IsTrue, Window!Read
<1>7. /\ calls' \subseteq calls \cup {q} /\ \A d \in calls : d.ask = "saved" => d \in calls'
      /\ \A d : Starting(d) => (d \in calls' <=> d \in calls)
  BY <1>1, <1>2, <1>4 DEF q, Starting
<1>8. CallsOK' /\ NewestLoadIsTrue' /\ StartupOK'
  BY <1>1, <1>4, <1>5, <1>6, <1>7, AskKeeps, StartStays DEF WindowInv
<1>9. WindowData' /\ WindowFlags' /\ OneIsShown' /\ Window!OneInterval'
  BY <1>1, FrameKeeps DEF WindowInv, WindowData, WindowFlags, Window!OneInterval
<1>10. QED
  BY <1>8, <1>9 DEF WindowInv

\* A question asked from the screen, in place of an answer or not.
LEMMA ScreenAsks ==
  ASSUME WindowInv, NEW answered \in SUBSET calls, \A c \in answered : c.ask # "saved"
         /\ ~ Starting(c),
         NEW ask \in {"capture_status", "save_settings", "switch_capture"},
         NEW load \in 1 .. settingsLoadToken,
         NEW got \in AdapterChoices \cup {"failed", "kept", "first", "again"},
         ask = "save_settings" => got \in AdapterChoices \cup {"kept"},
         calls' = (calls \ answered) \cup {Window!Question(ask, load, got)},
         startup' = startup
  PROVE  /\ StartupOK'
         /\ UNCHANGED <<held, settingsLoadToken, form, options, picked, edited>> =>
              CallsOK' /\ NewestLoadIsTrue'
         /\ UNCHANGED <<held, settingsLoadToken>> /\ ~ Undrawn => \A c \in calls' : IsTrue(c)'
         /\ Undrawn => Undrawn'
         /\ settingsLoadToken' = settingsLoadToken => CallsOK'
<1> DEFINE q == Window!Question(ask, load, got)
<1>1. load \in 0 .. settingsLoadToken /\ load # 0 /\ settingsLoadToken \in Nat
  BY DEF WindowInv, WindowData
<1>2. q \in CallType(settingsLoadToken) /\ q.ask = ask /\ q.load = load /\ q.got = got
  BY <1>1, QuestionType DEF Asked
<1>3. calls' = (calls \ answered) \cup {q}
  OBVIOUS
<1> HIDE DEF q
<1>4. Sends(q) /\ IsTrue(q)
  BY <1>1, <1>2 DEF Sends, IsTrue
<1>5. /\ calls' \subseteq calls \cup {q} /\ \A d \in calls : d.ask = "saved" => d \in calls'
      /\ \A d : Starting(d) => (d \in calls' <=> d \in calls)
  BY <1>2, <1>3 DEF Starting
<1>6. StartupOK'
  BY <1>5, StartStays DEF WindowInv
<1>7. Undrawn => Undrawn'
  BY <1>5 DEF Undrawn
<1>8. settingsLoadToken' = settingsLoadToken => CallsOK'
  BY <1>2, <1>4, <1>5 DEF WindowInv, CallsOK
<1>9. ASSUME UNCHANGED <<held, settingsLoadToken>>, ~ Undrawn PROVE \A c \in calls' : IsTrue(c)'
  BY <1>4, <1>5, <1>9 DEF WindowInv, NewestLoadIsTrue, IsTrue
<1>10. QED
  BY <1>2, <1>4, <1>5, <1>6, <1>7, <1>8, <1>9, AskKeeps

\* The adapters are there, or the reason why not: the newest load draws its
\* form.
LEMMA AdaptersKeeps ==
  ASSUME WindowInv, NEW c \in calls, Window!AdaptersAnswered(c) PROVE WindowInv'
<1>1. /\ c.ask = "get_adapters"
      /\ UNCHANGED <<settingsLoadToken, active, startup, rows, held, pinned, statusPollHandle,
           timers>>
  BY DEF Window!AdaptersAnswered, Window!stay, Window!readerVars, Window!pollVars
<1>2. Window!OneInterval'
  BY <1>1 DEF WindowInv, Window!OneInterval
<1>3. c.load \in 1 .. settingsLoadToken /\ c.got \in AdapterChoices \cup {"failed"}
  BY <1>1, AnswerType DEF Sends
<1>4. CASE ~ Window!IsNewest(c.load)
  <2>1. Window!Ends(c) /\ UNCHANGED <<form, loading, options, picked, edited, summary,
        firstRunNote>>
    BY <1>4 DEF Window!AdaptersAnswered
  <2>2. CallsOK' /\ NewestLoadIsTrue'
    BY <1>1, <2>1, EndKeeps
  <2>3. StartupOK'
    BY <1>1, <2>1, StartStays DEF WindowInv, Window!Ends, Starting
  <2>4. WindowData' /\ WindowFlags' /\ OneIsShown'
    BY <1>1, <2>1, FrameKeeps DEF WindowInv, WindowData, WindowFlags
  <2>5. QED
    BY <1>2, <2>2, <2>3, <2>4 DEF WindowInv
<1>5. CASE Window!IsNewest(c.load) /\ c.got = "failed"
  <2>1. /\ form' = 0 /\ loading' = FALSE /\ options' = {} /\ picked' = "none" /\ edited' = FALSE
        /\ summary' = "none"
        /\ firstRunNote' = firstRunNote /\ calls' = calls \ {c}
    BY <1>5 DEF Window!AdaptersAnswered, Window!Ends
  <2>2. StartupOK'
    BY <1>1, <2>1, StartStays DEF WindowInv, Starting
  <2>3. WindowFlags' /\ OneIsShown'
    BY <1>1, <2>1, Zenon DEF WindowInv, WindowFlags, OneIsShown
  <2>4. WindowData'
    BY <1>1, <2>1, SelectionsAreChoices DEF WindowInv, WindowData
  <2>5. Undrawn => Undrawn'
    BY <1>1, <2>1 DEF Undrawn
  <2>6. CallsOK' /\ NewestLoadIsTrue'
    BY <1>1, <2>1, <2>5 DEF WindowInv, CallsOK, NewestLoadIsTrue, IsTrue
  <2>7. QED
    BY <1>2, <2>2, <2>3, <2>4, <2>6 DEF WindowInv
<1>6. CASE Window!IsNewest(c.load) /\ c.got # "failed"
  <2>1. /\ form' = c.load /\ loading' = FALSE /\ edited' = FALSE
        /\ options' \in Window!Selections /\ picked' = Window!Shown(c.got, options')
        /\ summary' = "none" /\ firstRunNote' = FALSE
        /\ calls' = (calls \ {c}) \cup {Window!Question("capture_status", c.load, "first")}
    BY <1>6 DEF Window!AdaptersAnswered, Window!Invoke
  <2>2. c.got \in AdapterChoices /\ c.load = settingsLoadToken
    BY <1>3, <1>6 DEF Window!IsNewest
  <2>3. /\ StartupOK' /\ CallsOK' /\ (Undrawn => Undrawn')
        /\ ~ Undrawn => \A d \in calls' : IsTrue(d)'
    BY <1>1, <1>3, <2>1, ScreenAsks DEF Starting
  <2>4. ~ Undrawn => c.got = held
    BY <1>1, <1>6, <2>2 DEF WindowInv, NewestLoadIsTrue, IsTrue
  <2>5. NewestLoadIsTrue'
    BY <1>1, <2>1, <2>3, <2>4 DEF NewestLoadIsTrue
  <2>6. WindowData'
    BY <1>1, <2>1, <2>2, SelectionsAreChoices DEF WindowInv, WindowData
  <2>7. WindowFlags' /\ OneIsShown'
    BY <1>1, <2>1, Zenon DEF WindowInv, WindowFlags, OneIsShown
  <2>8. QED
    BY <1>2, <2>3, <2>5, <2>6, <2>7 DEF WindowInv
<1>7. QED
  BY <1>4, <1>5, <1>6

\* The counters are there: the first answer of a form starts its polling.
LEMMA StatusKeeps ==
  ASSUME WindowInv, NEW c \in calls, Window!StatusAnswered(c) PROVE WindowInv'
<1>1. /\ c.ask = "capture_status" /\ Window!Ends(c)
      /\ UNCHANGED <<active, startup, rows, held, pinned, firstRunNote, settingsLoadToken, form,
                     loading, options, picked, edited>>
      /\ \/ statusPollHandle' = c.load /\ timers' = (timers \ {statusPollHandle}) \cup {c.load}
         \/ UNCHANGED <<statusPollHandle, timers>>
  BY DEF Window!StatusAnswered, Window!stay, Window!readerVars, Window!StartPolling, Window!pollVars
<1>2. c.load \in 1 .. settingsLoadToken /\ settingsLoadToken \in Nat
  BY <1>1, AnswerType DEF Sends
<1>3. CallsOK' /\ NewestLoadIsTrue'
  BY <1>1, EndKeeps
<1>4. StartupOK'
  BY <1>1, StartStays DEF WindowInv, Window!Ends, Starting
<1>5. Window!OneInterval'
  BY <1>1 DEF WindowInv, Window!OneInterval
<1>6. summary' \in {"none", "failed", "empty", "filled"}
  BY AnswerType DEF Window!StatusAnswered, WindowInv, WindowData
<1>7. statusPollHandle' \in 0 .. settingsLoadToken /\ timers' \subseteq 1 .. settingsLoadToken
  <2>1. statusPollHandle \in 0 .. settingsLoadToken /\ timers \subseteq 1 .. settingsLoadToken
    BY DEF WindowInv, WindowData
  <2>2. CASE statusPollHandle' = c.load /\ timers' = (timers \ {statusPollHandle}) \cup {c.load}
    <3>1. c.load \in 0 .. settingsLoadToken
      BY <1>2
    <3>2. timers' \subseteq 1 .. settingsLoadToken
      BY <1>2, <2>1, <2>2, Zenon
    <3>3. QED
      BY <1>1, <2>2, <3>1, <3>2
  <2>3. CASE UNCHANGED <<statusPollHandle, timers>>
    BY <1>1, <1>2, <2>1, <2>3
  <2>4. QED
    BY <1>1, <2>2, <2>3
<1>8. WindowData'
  BY <1>1, <1>6, <1>7 DEF WindowInv, WindowData
<1>9. WindowFlags' /\ OneIsShown'
  BY <1>1, FrameKeeps DEF WindowInv, WindowData, WindowFlags
<1>10. QED
  BY <1>3, <1>4, <1>5, <1>8, <1>9 DEF WindowInv

\* An interval, a button, or the switched capture asks.
LEMMA AsksKeep ==
  ASSUME WindowInv, Window!Tick \/ Window!Press \/ \E c \in calls : Window!CaptureSwitched(c)
  PROVE  WindowInv'
<1>1. UNCHANGED <<active, startup, rows, held, pinned, firstRunNote, settingsLoadToken, form,
      loading,
                  options, picked, edited, summary, statusPollHandle, timers>>
  BY DEF Window!Tick, Window!Press, Window!CaptureSwitched, Window!stay, Window!readerVars,
         Window!settingsVars, Window!pollVars
<1>2. WindowData' /\ WindowFlags' /\ OneIsShown' /\ Window!OneInterval'
  BY <1>1, FrameKeeps DEF WindowInv, WindowData, WindowFlags, Window!OneInterval
<1>3. StartupOK' /\ CallsOK' /\ NewestLoadIsTrue'
  <2>1. CASE Window!Tick
    <3>1. PICK load \in timers : calls' = (calls \ {})
               \cup {Window!Question("capture_status", load, "again")}
      BY <2>1 DEF Window!Tick
    <3>2. load \in 1 .. settingsLoadToken
      BY <3>1 DEF WindowInv, WindowData
    <3>3. QED
      BY <1>1, <3>1, <3>2, ScreenAsks
  <2>2. CASE Window!Press
    <3>1. PICK ask \in {"save_settings", "switch_capture"} :
            \E got \in {Window!Sent, "none"} :
              calls' = (calls \ {}) \cup {Window!Question(ask, form, got)}
      BY <2>2 DEF Window!Press, Window!Invoke
    <3>2. form \in 1 .. settingsLoadToken /\ {Window!Sent, "none"} \subseteq AdapterChoices
          \cup {"kept"}
      BY <2>2, SelectionsAreChoices
         DEF WindowInv, WindowData, Window!Press, Window!FormIsShown, Window!Sent, AdapterChoices
    <3>3. QED
      BY <1>1, <3>1, <3>2, ScreenAsks
  <2>3. CASE \E c \in calls : Window!CaptureSwitched(c)
    <3>1. PICK c \in calls :
            /\ c.ask = "switch_capture"
            /\ calls' = (calls \ {c}) \cup {Window!Question("capture_status", c.load, "again")}
      BY <2>3 DEF Window!CaptureSwitched, Window!Invoke
    <3>2. c.load \in 1 .. settingsLoadToken
      BY <3>1, AnswerType DEF Sends
    <3>3. QED
      BY <1>1, <3>1, <3>2, ScreenAsks DEF Starting
  <2>4. QED
    BY <2>1, <2>2, <2>3
<1>4. QED
  BY <1>2, <1>3 DEF WindowInv

\* The player changes the field, the reader refuses a save, or captures.
LEMMA LittleKeeps ==
  ASSUME WindowInv, Window!Pick \/ Window!Captures \/ \E c \in calls : Window!Refused(c)
  PROVE  WindowInv'
<1>1. UNCHANGED <<active, startup, held, pinned, firstRunNote, settingsLoadToken, form, loading,
                  summary, statusPollHandle, timers>>
  BY DEF Window!Pick, Window!Captures, Window!Refused, Window!stay, Window!readerVars,
         Window!settingsVars, Window!pollVars
<1>2. OneIsShown' /\ Window!OneInterval'
  BY <1>1 DEF WindowInv, OneIsShown, Window!OneInterval
<1>3. CASE Window!Pick
  <2>1. picked' \in options /\ edited' = TRUE /\ UNCHANGED <<calls, rows, options>>
    BY <1>3 DEF Window!Pick, Window!stay, Window!readerVars
  <2>2. CallsOK' /\ NewestLoadIsTrue' /\ StartupOK'
    BY <1>1, <2>1 DEF WindowInv, CallsOK, NewestLoadIsTrue, IsTrue, Undrawn, StartupOK
  <2>3. WindowFlags'
    BY <1>1, <2>1, Zenon DEF WindowInv, WindowFlags
  <2>4. WindowData'
    BY <1>1, <2>1 DEF WindowInv, WindowData
  <2>5. QED
    BY <1>2, <2>2, <2>3, <2>4 DEF WindowInv
<1>4. CASE Window!Captures
  <2>1. rows' = "filled" /\ UNCHANGED <<calls, options, picked, edited>>
    BY <1>4 DEF Window!Captures, Window!settingsVars
  <2>2. CallsOK' /\ NewestLoadIsTrue' /\ StartupOK'
    BY <1>1, <2>1 DEF WindowInv, CallsOK, NewestLoadIsTrue, IsTrue, Undrawn, StartupOK
  <2>3. WindowFlags'
    BY <1>1, <2>1, Zenon DEF WindowInv, WindowFlags
  <2>4. WindowData'
    BY <1>1, <2>1 DEF WindowInv, WindowData
  <2>5. QED
    BY <1>2, <2>2, <2>3, <2>4 DEF WindowInv
<1>5. ASSUME NEW c \in calls, Window!Refused(c) PROVE WindowInv'
  <2>1. c.ask = "save_settings" /\ Window!Ends(c) /\ UNCHANGED <<rows, options, picked, edited>>
    BY <1>5 DEF Window!Refused, Window!stay, Window!readerVars, Window!settingsVars
  <2>2. CallsOK' /\ NewestLoadIsTrue'
    BY <1>1, <2>1, EndKeeps
  <2>3. StartupOK'
    BY <1>1, <2>1, StartStays DEF WindowInv, Window!Ends, Starting
  <2>4. WindowData' /\ WindowFlags'
    BY <1>1, <2>1, FrameKeeps DEF WindowInv, WindowData, WindowFlags
  <2>5. QED
    BY <1>2, <2>2, <2>3, <2>4 DEF WindowInv
<1>6. QED
  BY <1>3, <1>4, <1>5

\* The reader writes what was sent, and until it is drawn again nothing need
\* match.
LEMMA SaveLandsKeeps == ASSUME WindowInv, Window!SaveLands PROVE WindowInv'
<1>1. UNCHANGED <<active, startup, firstRunNote, settingsLoadToken, form, loading, options, picked,
      edited,
                  summary, statusPollHandle, timers, rows, pinned>>
  BY DEF Window!SaveLands, Window!settingsVars, Window!pollVars
<1>2. PICK c \in calls : /\ c.ask = "save_settings"
           /\ held' = (IF pinned \/ c.got = "kept" THEN held ELSE c.got)
                         /\ calls' = (calls \ {c}) \cup {[c EXCEPT !.ask = "saved"]}
  BY DEF Window!SaveLands
<1> DEFINE saved == [c EXCEPT !.ask = "saved"]
<1>3. c \in CallType(settingsLoadToken) /\ c.got \in AdapterChoices \cup {"kept"} /\ c.load # 0
  BY <1>2, AnswerType DEF Sends
<1>4. /\ saved \in CallType(settingsLoadToken) /\ saved.ask = "saved"
      /\ saved.got = c.got /\ saved.load = c.load
  BY <1>3 DEF CallType, Asked
<1>5. calls' = (calls \ {c}) \cup {saved}
  BY <1>2
<1> HIDE DEF saved
<1>6. held' \in AdapterChoices
  BY <1>2, <1>3 DEF WindowInv, WindowData
<1>7. CallsOK'
  BY <1>1, <1>3, <1>4, <1>5 DEF WindowInv, CallsOK, Sends
<1>8. NewestLoadIsTrue'
  BY <1>4, <1>5 DEF NewestLoadIsTrue, Undrawn
<1>9. StartupOK'
  BY <1>1, <1>2, <1>4, <1>5, StartStays DEF WindowInv, Starting
<1>10. WindowData'
  BY <1>1, <1>6 DEF WindowInv, WindowData
<1>11. WindowFlags' /\ OneIsShown'
  BY <1>1, Zenon DEF WindowInv, WindowFlags, OneIsShown
<1>12. QED
  BY <1>1, <1>7, <1>8, <1>9, <1>10, <1>11 DEF WindowInv, Window!OneInterval

\* What was saved is drawn again.
LEMMA SavedKeeps == ASSUME WindowInv, NEW c \in calls, Window!Saved(c) PROVE WindowInv'
<1>1. /\ c.ask = "saved" /\ Window!loadSettingsView({c})
      /\ UNCHANGED <<active, startup, rows, held, pinned, firstRunNote, statusPollHandle, timers>>
  BY DEF Window!Saved, Window!stay, Window!readerVars, Window!pollVars
<1>2. /\ CallsOK' /\ NewestLoadIsTrue'
      /\ settingsLoadToken' \in 0 .. MaxLoads /\ settingsLoadToken' = settingsLoadToken + 1
      /\ form' = 0 /\ options' = {} /\ picked' = "none" /\ summary' = "none" /\ loading' = TRUE
           /\ edited' = FALSE
      /\ \A d : Starting(d) => (d \in calls' <=> d \in calls \ {c})
  BY <1>1, LoadKeeps
<1>3. StartupOK'
  BY <1>1, <1>2, StartStays DEF WindowInv, Starting
<1>4. WindowData'
  BY <1>1, <1>2, SelectionsAreChoices DEF WindowInv, WindowData
<1>5. WindowFlags' /\ OneIsShown'
  BY <1>1, <1>2, Zenon DEF WindowInv, WindowFlags, OneIsShown
<1>6. QED
  BY <1>1, <1>2, <1>3, <1>4, <1>5 DEF WindowInv, Window!OneInterval

\* The window's invariant is inductive.
LEMMA WindowInvStep ==
  ASSUME WindowInv, Window!Next \/ UNCHANGED windowVars PROVE WindowInv'
<1>1. CASE UNCHANGED windowVars
  <2>1. WindowFlags'
    BY <1>1, Zenon DEF WindowInv, WindowFlags, windowVars
  <2>2. QED
    BY <1>1, <2>1
       DEF WindowInv, WindowData, OneIsShown, StartupOK, CallsOK, NewestLoadIsTrue, IsTrue, Undrawn,
           Window!OneInterval, windowVars
<1>2. ASSUME NEW c \in calls, Window!Answer(c) PROVE WindowInv'
  BY <1>2, HealthKeeps, LandingKeeps, SettingsKeeps, AdaptersKeeps, StatusKeeps, SavedKeeps,
     LittleKeeps, AsksKeep DEF Window!Answer
<1>3. QED
  BY <1>1, <1>2, SaveLandsKeeps, LittleKeeps, ReaderKeeps, ClickKeeps, AsksKeep DEF Window!Next

-----------------------------------------------------------------------------
(* The two in MCCapture.                                                   *)

MachineStep == PumpMain \/ PumpWorker \/ Sniffer \/ Stream \/ WindowNext

LEMMA PumpInvAlways == MachineSpec => []PumpInv
<1>1. MachineInit => PumpInv
  BY PumpInvInit DEF MachineInit, Start
<1>2. PumpInv /\ [MachineStep]_captureVars => PumpInv'
  <2> SUFFICES ASSUME PumpInv, [MachineStep]_captureVars PROVE PumpInv'
    OBVIOUS
  <2>1. Pump!Main \/ Pump!Interrupt \/ Pump!Worker \/ UNCHANGED pumpVars
    BY DEF MachineStep, PumpMain, PumpWorker, Sniffer, Stream, WindowNext, captureVars
  <2>2. QED
    BY <2>1, PumpInvStep
<1>3. QED
  BY <1>1, <1>2, PTL DEF MachineSpec, MachineStep

LEMMA WindowInvAlways == MachineSpec => []WindowInv
<1>1. MachineInit => WindowInv
  BY WindowInvInit DEF MachineInit, Start
<1>2. WindowInv /\ [MachineStep]_captureVars => WindowInv'
  <2> SUFFICES ASSUME WindowInv, [MachineStep]_captureVars PROVE WindowInv'
    OBVIOUS
  <2>1. Window!Next \/ UNCHANGED windowVars
    BY DEF MachineStep, PumpMain, PumpWorker, Sniffer, Stream, WindowNext, captureVars
  <2>2. QED
    BY <2>1, WindowInvStep
<1>3. QED
  BY <1>1, <1>2, PTL DEF MachineSpec, MachineStep

\* Backpressure, an interrupt at any moment, a failing handler and a join that
\* gives up lose, repeat or reorder no segment that submit accepted, and a
\* quiet exit of main has journalled them all (capture/pump.py).
THEOREM PumpLosesNothing == MachineSpec => []NothingIsLost
BY PumpInvAlways, PumpInvIsEnough, PTL

\* However loads, saves and clicks overtake each other, the form shows what the
\* reader holds, and one interval at most polls (main.ts, loadSettingsView).
THEOREM FormShowsWhatIsHeld == MachineSpec => []FieldsMatchWhatIsHeld
BY WindowInvAlways, WindowInvIsEnough, PTL

-----------------------------------------------------------------------------
(* Induction over the natural numbers, from the well-founded order on them *)
(* alone: a set that holds zero and every successor of a member holds all. *)

LEMMA LeastMember == ASSUME NEW S \in SUBSET Nat, S # {} PROVE \E x \in S : \A y \in S : x <= y
<1> DEFINE R == OpToRel(<, Nat)
<1>1. IsWellFoundedOn(R, Nat)
  BY NatLessThanWellFounded
<1>2. \A x, y \in Nat : x < y => <<x, y>> \in R
  BY DEF OpToRel
<1> HIDE DEF R
<1>3. PICK x \in S : \A y \in S : ~ (<<y, x>> \in R)
  BY <1>1, WFMin
<1>4. ASSUME NEW y \in S PROVE x <= y
  <2>1. x \in Nat /\ y \in Nat
    OBVIOUS
  <2>2. ~ (y < x)
    BY <1>2, <1>3, <2>1
  <2>3. QED
    BY <2>1, <2>2
<1>5. QED
  BY <1>4

LEMMA InductionOverNat ==
  ASSUME NEW S, 0 \in S, \A n \in Nat : n \in S => n + 1 \in S PROVE Nat \subseteq S
<1> DEFINE missing == Nat \ S
<1>1. CASE missing # {}
  <2>1. PICK x \in missing : \A y \in missing : x <= y
    BY <1>1, LeastMember
  <2>2. x \in Nat /\ x # 0 /\ x \notin S
    BY <2>1
  <2>3. x - 1 \in Nat /\ ~ (x <= x - 1) /\ x - 1 + 1 = x
    BY <2>2
  <2>4. x - 1 \in S
    BY <2>1, <2>3
  <2>5. QED
    BY <2>2, <2>3, <2>4
<1>2. QED
  BY <1>1

-----------------------------------------------------------------------------
(* Draining is taking, as many times as chunks wait.                       *)

Iterates(f, s, b) == f = [n \in 0 .. b |-> IF n = 0 THEN s ELSE Taken(f[n - 1])]

LEMMA IterationExists == ASSUME NEW s, NEW b \in Nat PROVE \E f : Iterates(f, s, b)
<1> DEFINE S == {n \in Nat : \E f : Iterates(f, s, n)}
<1>1. 0 \in S
  <2> DEFINE f == [n \in 0 .. 0 |-> s]
  <2>1. f = [n \in 0 .. 0 |-> IF n = 0 THEN s ELSE Taken(f[n - 1])]
    BY \A n \in 0 .. 0 : n = 0
  <2>2. QED
    BY <2>1 DEF Iterates
<1>2. ASSUME NEW n \in Nat, n \in S PROVE n + 1 \in S
  <2>1. PICK f : Iterates(f, s, n)
    BY <1>2
  <2> DEFINE g == [m \in 0 .. n + 1 |-> IF m = 0 THEN s ELSE Taken(f[m - 1])]
  <2>2. \A m \in 0 .. n : g[m] = f[m]
    BY <2>1 DEF Iterates
  <2>3. \A m \in 0 .. n + 1 : m = 0 \/ m - 1 \in 0 .. n
    OBVIOUS
  <2>4. \A m \in 0 .. n + 1 :
          (IF m = 0 THEN s ELSE Taken(f[m - 1])) = (IF m = 0 THEN s ELSE Taken(g[m - 1]))
    BY <2>2, <2>3
  <2>5. g = [m \in 0 .. n + 1 |-> IF m = 0 THEN s ELSE Taken(g[m - 1])]
    BY <2>4
  <2> HIDE DEF g
  <2>6. Iterates(g, s, n + 1)
    BY <2>5 DEF Iterates
  <2>7. QED
    BY <2>6
<1> HIDE DEF S
<1>3. Nat \subseteq S
  BY <1>1, <1>2, InductionOverNat
<1>4. QED
  BY <1>3 DEF S

LEMMA DrainedIterates ==
  ASSUME NEW s, Cardinality(s.pending) \in Nat
  PROVE  \E f : Iterates(f, s, Cardinality(s.pending)) /\ Drained(s) = f[Cardinality(s.pending)]
BY IterationExists, Zenon DEF Drained, Iterates

\* What holds of s and is kept by taking holds when s is drained.
LEMMA DrainedKeeps ==
  ASSUME NEW s, NEW P, Cardinality(s.pending) \in Nat, <<0, s>> \in P,
         \A n \in Nat : \A x : <<n, x>> \in P => <<n + 1, Taken(x)>> \in P
  PROVE  <<Cardinality(s.pending), Drained(s)>> \in P
<1> DEFINE b == Cardinality(s.pending)
<1>1. PICK f : Iterates(f, s, b) /\ Drained(s) = f[b]
  BY DrainedIterates
<1> DEFINE S == {n \in Nat : n <= b => <<n, f[n]>> \in P}
<1>2. 0 \in S
  BY <1>1 DEF Iterates
<1>3. ASSUME NEW n \in Nat, n \in S PROVE n + 1 \in S
  <2>1. CASE n + 1 <= b
    <3>1. n + 1 \in 0 .. b /\ n <= b /\ n + 1 # 0 /\ n + 1 - 1 = n
      BY <2>1
    <3>2. f[n + 1] = Taken(f[n])
      BY <1>1, <3>1 DEF Iterates
    <3>3. QED
      BY <1>3, <3>1, <3>2
  <2>2. QED
    BY <2>1
<1> HIDE DEF S
<1>4. b \in S
  BY <1>2, <1>3, InductionOverNat
<1>5. QED
  BY <1>1, <1>4 DEF S

-----------------------------------------------------------------------------
(* What flows through one call of feed.                                    *)

Flow == [next: Nat, pending: SUBSET Chunk, fed: Seq(Nat)]

\* What waits: finitely many chunks, at most one at a place.
Kept(x) ==
  /\ IsFiniteSet(x.pending)
  /\ \A p \in x.pending : p.seq = InitialSequence + p.from
  /\ \A p, q \in x.pending : p.seq = q.seq => p = q

\* Chunks that do not run into each other.
Apart(chunks) == \A p, q \in chunks : p.seq < q.seq => p.seq + p.len <= q.seq

Whole(p) == <<p.from, p.len>> \in Segments

\* What waits is ahead, when the call began with b expected: a chunk that is
\* not whole would have to start there.
Waits(x, b) ==
  /\ \A p \in x.pending : x.next <= p.seq /\ (b < p.seq => Whole(p))
  /\ Apart(x.pending)

\* What was fed is in order and behind.
Behind(x) ==
  /\ \A i \in 2 .. Len(x.fed) : x.fed[i - 1] < x.fed[i]
  /\ \A i \in 1 .. Len(x.fed) : InitialSequence + x.fed[i] < x.next

Holes(s) == {i \in 2 .. Len(s) : s[i] # s[i - 1] + 1}

\* What is expected follows what was fed.
Joined(x) == x.fed # <<>> => InitialSequence + x.fed[Len(x.fed)] + 1 = x.next

HolesWithin(x, k) == Cardinality(Holes(x.fed)) + (IF Joined(x) THEN 0 ELSE 1) <= k

Ordered(x, b) == b <= x.next /\ Behind(x) /\ Waits(x, b)

\* Holes are counted however the stream is cut; what is in order is so for
\* pieces that do not begin within one another.
Flowing(x, b, k) ==
  x \in Flow /\ Kept(x) /\ HolesWithin(x, k) /\ (PiecesApart => Ordered(x, b))

Here(x) == {p \in x.pending : p.seq = x.next}

\* The holes of a sequence are finitely many.
LEMMA HolesAreFinite ==
  ASSUME NEW s \in Seq(Nat) PROVE IsFiniteSet(Holes(s)) /\ Cardinality(Holes(s)) \in Nat
<1>1. Len(s) \in Int /\ 2 \in Int
  OBVIOUS
<1>2. IsFiniteSet(2 .. Len(s))
  BY <1>1, FS_Interval
<1>3. Holes(s) \in SUBSET (2 .. Len(s))
  BY DEF Holes
<1>4. IsFiniteSet(Holes(s))
  BY <1>2, <1>3, FS_Subset
<1>5. QED
  BY <1>4, FS_CardinalityType

\* A chunk's bytes, behind what was fed.
LEMMA BytesBehind ==
  ASSUME NEW s \in Seq(Nat), NEW from \in Nat, NEW len \in Nat \ {0}
  PROVE  LET t == s \o [i \in 1 .. len |-> from + i - 1]
         IN  /\ t \in Seq(Nat) /\ Len(t) = Len(s) + len
             /\ \A i \in 1 .. Len(s) : t[i] = s[i]
             /\ \A i \in Len(s) + 1 .. Len(t) : t[i] = from + (i - Len(s)) - 1
<1> DEFINE bytes == [i \in 1 .. len |-> from + i - 1]
<1>1. /\ bytes \in Seq(Nat) /\ Len(bytes) = len
      /\ \A i \in 1 .. len : bytes[i] = from + i - 1
  OBVIOUS
<1> HIDE DEF bytes
<1> DEFINE t == s \o bytes
<1>2. /\ t \in Seq(Nat) /\ Len(t) = Len(s) + Len(bytes)
      /\ \A i \in 1 .. Len(s) + Len(bytes) : t[i] = IF i <= Len(s) THEN s[i] ELSE bytes[i - Len(s)]
  BY <1>1, ConcatProperties
<1> HIDE DEF t
<1>3. Len(s) \in Nat
  OBVIOUS
<1>4. ASSUME NEW i \in 1 .. Len(s) PROVE t[i] = s[i]
  BY <1>1, <1>2, <1>3
<1>5. ASSUME NEW i \in Len(s) + 1 .. Len(t) PROVE t[i] = from + (i - Len(s)) - 1
  <2>1. i \in 1 .. Len(s) + Len(bytes) /\ ~ (i <= Len(s)) /\ i - Len(s) \in 1 .. len
    BY <1>1, <1>2, <1>3
  <2>2. QED
    BY <1>1, <1>2, <2>1
<1>6. QED
  BY <1>1, <1>2, <1>4, <1>5 DEF t, bytes

Extends(t, s, from, len) ==
  /\ Len(t) = Len(s) + len
  /\ \A i \in 1 .. Len(s) : t[i] = s[i]
  /\ \A i \in Len(s) + 1 .. Len(t) : t[i] = from + (i - Len(s)) - 1

Climbs(s, to) ==
  (\A i \in 2 .. Len(s) : s[i - 1] < s[i]) /\ (\A i \in 1 .. Len(s) : s[i] < to)

OneSeam(t, s, from) ==
  \A i \in Holes(t) : i \in Holes(s) \/ (i = Len(s) + 1 /\ Len(s) > 0 /\ s[Len(s)] + 1 # from)

\* What comes behind stays in order, and leaves a hole at the seam at most.
LEMMA SeamKeeps ==
  ASSUME NEW s \in Seq(Nat), NEW from \in Nat, NEW len \in Nat \ {0}, NEW t \in Seq(Nat),
         Extends(t, s, from, len)
  PROVE  /\ Climbs(s, from) => Climbs(t, from + len)
         /\ t[Len(t)] + 1 = from + len /\ OneSeam(t, s, from)
<1> DEFINE n == Len(s)
<1>1. n \in Nat
  OBVIOUS
<1>2. \A i \in 1 .. n : s[i] \in Nat /\ t[i] = s[i]
  BY DEF Extends
<1>3. \A i \in n + 1 .. n + len : t[i] = from + (i - n) - 1
  BY DEF Extends
<1>4. Len(t) = n + len
  BY DEF Extends
<1> HIDE DEF n
<1>5. ASSUME NEW i \in 2 .. n + len
      PROVE  \/ i \in 2 .. n /\ t[i - 1] = s[i - 1] /\ t[i] = s[i]
             \/ i = n + 1 /\ n > 0 /\ t[i - 1] = s[n] /\ t[i] = from
             \/ t[i] = t[i - 1] + 1 /\ t[i - 1] < t[i]
  <2>1. CASE i \in 2 .. n
    <3>1. i \in 1 .. n /\ i - 1 \in 1 .. n
      BY <1>1, <2>1
    <3>2. QED
      BY <1>2, <2>1, <3>1
  <2>2. CASE i = n + 1
    <3>1. n \in 1 .. n /\ i \in n + 1 .. n + len /\ i - 1 = n /\ n > 0
      BY <1>1, <2>2
    <3>2. t[i - 1] = s[n]
      BY <1>2, <3>1
    <3>3. t[i] = from
      BY <1>1, <1>3, <2>2, <3>1
    <3>4. QED
      BY <2>2, <3>1, <3>2, <3>3
  <2>3. CASE i \in n + 2 .. n + len
    <3>1. i \in n + 1 .. n + len /\ i - 1 \in n + 1 .. n + len
      BY <1>1, <2>3
    <3>2. t[i] = from + (i - n) - 1 /\ t[i - 1] = from + ((i - 1) - n) - 1
      BY <1>3, <3>1
    <3>3. QED
      BY <1>1, <3>2
  <2>4. QED
    BY <1>1, <2>1, <2>2, <2>3
<1>6. ASSUME Climbs(s, from) PROVE Climbs(t, from + len)
  <2>1. (\A i \in 1 .. n : s[i] < from) /\ (\A i \in 2 .. n : s[i - 1] < s[i])
    BY <1>6 DEF Climbs, n
  <2>2. ASSUME NEW i \in 1 .. n + len PROVE t[i] < from + len
    <3>1. CASE i \in 1 .. n
      <4>1. PICK v \in Nat : v = t[i] /\ v < from
        BY <1>2, <2>1, <3>1
      <4>2. QED
        BY <4>1
    <3>2. CASE i \in n + 1 .. n + len
      BY <1>1, <1>3, <3>2
    <3>3. QED
      BY <1>1, <3>1, <3>2
  <2>3. ASSUME NEW i \in 2 .. n + len PROVE t[i - 1] < t[i]
    <3>1. CASE i = n + 1 /\ n > 0 /\ t[i - 1] = s[n] /\ t[i] = from
      <4>1. n \in 1 .. n
        BY <1>1, <3>1
      <4>2. QED
        BY <2>1, <3>1, <4>1
    <3>2. QED
      BY <1>5, <2>1, <3>1
  <2>4. QED
    BY <1>4, <2>2, <2>3 DEF Climbs
<1>7. t[n + len] + 1 = from + len
  <2>1. n + len \in n + 1 .. n + len
    BY <1>1
  <2>2. t[n + len] = from + ((n + len) - n) - 1
    BY <1>3, <2>1
  <2>3. QED
    BY <1>1, <2>2
<1>8. ASSUME NEW i \in Holes(t) PROVE i \in Holes(s) \/ (i = n + 1 /\ n > 0 /\ s[n] + 1 # from)
  <2>1. i \in 2 .. n + len /\ t[i] # t[i - 1] + 1
    BY <1>4 DEF Holes
  <2>2. i \in 2 .. n /\ s[i] # s[i - 1] + 1 => i \in Holes(s)
    BY DEF Holes, n
  <2>3. QED
    BY <1>5, <2>1, <2>2
<1>9. QED
  BY <1>4, <1>6, <1>7, <1>8 DEF n, OneSeam

\* Taking the chunk that is expected next, if it is there.
LEMMA TakenKeeps ==
  ASSUME NEW b \in Nat, NEW k \in Nat, NEW x, Flowing(x, b, k)
  PROVE  /\ Flowing(Taken(x), b, k)
         /\ Taken(x).pending \subseteq x.pending
         /\ Here(x) = {} => Taken(x) = x
         /\ Here(x) # {} => /\ Joined(Taken(x))
                           /\ Cardinality(Taken(x).pending) = Cardinality(x.pending) - 1
         /\ Joined(x) => Joined(Taken(x))
<1>1. CASE Here(x) = {}
  BY <1>1 DEF Taken, Here
<1>2. CASE Here(x) # {}
  <2>1. PICK chunk \in Here(x) :
          Taken(x) = [next |-> x.next + chunk.len, pending |-> x.pending \ Here(x),
                      fed |-> x.fed \o Bytes(chunk)]
    BY <1>2, Zenon DEF Taken, Here
  <2>2. /\ x.next \in Nat /\ x.fed \in Seq(Nat) /\ x.pending \subseteq Chunk
        /\ chunk \in x.pending /\ chunk.seq = x.next /\ chunk \in Chunk
    BY <2>1 DEF Here, Flowing, Flow
  <2>3. x.next = InitialSequence + chunk.from /\ InitialSequence \in Nat
    BY <2>2, StreamAssumption DEF Flowing, Kept, StreamAssumption
  <2>4. chunk.from \in Nat /\ chunk.len \in Nat \ {0}
    BY <2>2 DEF Chunk
  <2>5. Here(x) = {chunk}
    BY <2>1, <2>2 DEF Here, Flowing, Kept
  <2>6. PICK from \in Nat : from = chunk.from
    BY <2>4
  <2>7. PICK len \in Nat \ {0} : len = chunk.len
    BY <2>4
  <2>8. PICK s \in Seq(Nat) : s = x.fed
    BY <2>2
  <2> DEFINE y == Taken(x)
  <2>9. PICK t \in Seq(Nat) :
          t = s \o [i \in 1 .. len |-> from + i - 1] /\ Extends(t, s, from, len)
    BY BytesBehind DEF Extends
  <2>10. /\ y.next = x.next + len /\ y.pending = x.pending \ {chunk} /\ y.fed = t
         /\ y = [next |-> y.next, pending |-> y.pending, fed |-> y.fed]
    <3>1. Bytes(chunk) = [i \in 1 .. len |-> from + i - 1]
      BY <2>6, <2>7 DEF Bytes
    <3>2. QED
      BY <2>1, <2>5, <2>7, <2>8, <2>9, <3>1
  <2> HIDE DEF y
  <2>11. ASSUME PiecesApart PROVE Climbs(s, from)
    <3>1. \A i \in 1 .. Len(s) : s[i] \in Nat /\ InitialSequence + s[i] < InitialSequence + from
      BY <2>3, <2>6, <2>8, <2>11 DEF Flowing, Ordered, Behind
    <3>2. ASSUME NEW i \in 1 .. Len(s) PROVE s[i] < from
      <4>1. PICK v \in Nat : v = s[i] /\ InitialSequence + v < InitialSequence + from
        BY <3>1
      <4>2. QED
        BY <2>3, <4>1
    <3>3. \A i \in 2 .. Len(s) : s[i - 1] < s[i]
      BY <2>8, <2>11 DEF Flowing, Ordered, Behind
    <3>4. QED
      BY <3>2, <3>3 DEF Climbs
  <2>12. /\ Climbs(s, from) => Climbs(t, from + len)
         /\ t[Len(t)] + 1 = from + len /\ OneSeam(t, s, from)
    <3>1. from \in Nat
      BY <2>6
    <3>2. len \in Nat \ {0}
      BY <2>7
    <3>3. s \in Seq(Nat)
      BY <2>8
    <3>4. t \in Seq(Nat) /\ Extends(t, s, from, len)
      BY <2>9
    <3>5. QED
      BY <3>1, <3>2, <3>3, <3>4, SeamKeeps, Zenon
  <2>13. y.next = InitialSequence + (from + len) /\ y.next \in Nat /\ x.next <= y.next
    BY <2>2, <2>3, <2>6, <2>10
  <2>14. y \in Flow
    <3>1. y.pending \in SUBSET Chunk /\ y.fed \in Seq(Nat)
      BY <2>2, <2>9, <2>10
    <3>2. QED
      BY <2>10, <2>13, <3>1 DEF Flow
  <2>15. ASSUME PiecesApart PROVE Behind(y)
    <3>1. Climbs(t, from + len)
      BY <2>11, <2>12, <2>15
    <3>2. \A i \in 1 .. Len(t) : t[i] \in Nat
      BY <2>9
    <3>3. \A i \in 1 .. Len(t) : InitialSequence + t[i] < InitialSequence + (from + len)
      BY <2>3, <3>1, <3>2 DEF Climbs
    <3>4. QED
      BY <2>10, <2>13, <3>1, <3>3 DEF Behind, Climbs
  <2>16. Joined(y)
    <3>1. Len(t) \in 1 .. Len(t)
      BY <2>9 DEF Extends
    <3>2. t[Len(t)] \in Nat
      BY <2>9, <3>1
    <3>3. PICK v \in Nat : v = t[Len(t)]
      BY <3>2
    <3>4. v + 1 = from + len
      BY <2>12, <3>3
    <3>5. InitialSequence + v + 1 = InitialSequence + (from + len)
      BY <2>3, <3>4
    <3>6. QED
      BY <2>10, <2>13, <3>3, <3>5 DEF Joined
  <2>17. HolesWithin(y, k)
    <3>1. /\ IsFiniteSet(Holes(s)) /\ Cardinality(Holes(s)) \in Nat /\ Cardinality(Holes(t)) \in Nat
      BY <2>9, HolesAreFinite
    <3>2. CASE Joined(x)
      <4>1. ASSUME Len(s) > 0 PROVE s[Len(s)] + 1 = from
        <5>1. Len(s) \in 1 .. Len(s) /\ s # <<>>
          BY <4>1
        <5>2. s[Len(s)] \in Nat /\ InitialSequence + s[Len(s)] + 1 = InitialSequence + from
          BY <2>3, <2>6, <2>8, <3>2, <5>1 DEF Joined
        <5>3. QED
          BY <2>3, <5>2
      <4>2. Holes(t) \in SUBSET Holes(s)
        BY <2>12, <4>1 DEF OneSeam
      <4>3. Cardinality(Holes(t)) <= Cardinality(Holes(s))
        BY <3>1, <4>2, FS_Subset
      <4>4. QED
        BY <2>8, <2>10, <2>16, <3>1, <3>2, <4>3 DEF Flowing, HolesWithin
    <3>3. CASE ~ Joined(x)
      <4>1. Holes(t) \in SUBSET (Holes(s) \cup {Len(s) + 1})
        BY <2>12 DEF OneSeam
      <4>2. /\ IsFiniteSet(Holes(s) \cup {Len(s) + 1})
            /\ Cardinality(Holes(s) \cup {Len(s) + 1}) =
                 IF Len(s) + 1 \in Holes(s) THEN Cardinality(Holes(s)) ELSE Cardinality(Holes(s)) + 1
        BY <3>1, FS_AddElement
      <4>3. Cardinality(Holes(t)) <= Cardinality(Holes(s) \cup {Len(s) + 1})
        BY <4>1, <4>2, FS_Subset
      <4>4. Cardinality(Holes(t)) <= Cardinality(Holes(s)) + 1
        BY <3>1, <4>2, <4>3
      <4>5. QED
        BY <2>8, <2>10, <2>16, <3>1, <3>3, <4>4 DEF Flowing, HolesWithin
    <3>4. QED
      BY <3>2, <3>3
  <2>18. Kept(y)
    <3>1. IsFiniteSet(x.pending)
      BY DEF Flowing, Kept
    <3>2. IsFiniteSet(x.pending \ {chunk})
      BY <3>1, FS_RemoveElement
    <3>3. QED
      BY <2>10, <3>2 DEF Flowing, Kept
  <2>19. Cardinality(y.pending) = Cardinality(x.pending) - 1
    <3>1. IsFiniteSet(x.pending)
      BY DEF Flowing, Kept
    <3>2. Cardinality(x.pending \ {chunk}) =
            IF chunk \in x.pending THEN Cardinality(x.pending) - 1 ELSE Cardinality(x.pending)
      BY <3>1, FS_RemoveElement
    <3>3. QED
      BY <2>2, <2>10, <3>2
  <2>20. ASSUME PiecesApart PROVE Waits(y, b) /\ b <= y.next
    <3>1. b <= x.next /\ Waits(x, b)
      BY <2>20 DEF Flowing, Ordered
    <3>2. Apart(y.pending)
      BY <2>10, <3>1 DEF Waits, Apart
    <3>3. ASSUME NEW p \in y.pending PROVE y.next <= p.seq /\ (b < p.seq => Whole(p))
      <4>1. p \in x.pending /\ p # chunk /\ p.seq \in Nat
        BY <2>2, <2>10, <3>3 DEF Chunk
      <4>2. x.next < p.seq
        <5>1. p.seq # chunk.seq /\ x.next <= p.seq
          BY <2>2, <3>1, <4>1 DEF Flowing, Kept, Waits
        <5>2. QED
          BY <2>2, <4>1, <5>1
      <4>3. chunk.seq + chunk.len <= p.seq
        BY <2>2, <3>1, <4>1, <4>2 DEF Waits, Apart
      <4>4. y.next <= p.seq
        BY <2>2, <2>7, <2>10, <4>3
      <4>5. QED
        BY <3>1, <4>1, <4>4 DEF Waits
    <3>4. b <= y.next
      BY <2>2, <2>13, <3>1
    <3>5. QED
      BY <3>2, <3>3, <3>4 DEF Waits
  <2>21. Flowing(y, b, k)
    BY <2>14, <2>15, <2>17, <2>18, <2>20 DEF Flowing, Ordered
  <2>22. QED
    BY <1>2, <2>10, <2>16, <2>19, <2>21 DEF y
<1>3. QED
  BY <1>1, <1>2

\* What has come of x after n chunks were asked for.
Along(n, y, x, b, k) ==
  /\ Flowing(y, b, k) /\ y.pending \subseteq x.pending
  /\ Here(y) = {} \/ Cardinality(y.pending) + n <= Cardinality(x.pending)
  /\ n = 0 => y = x
  /\ n > 0 /\ Here(x) # {} => Joined(y) /\ Cardinality(y.pending) < Cardinality(x.pending)
  /\ Joined(x) => Joined(y)

LEMMA AlongKeeps ==
  ASSUME NEW b \in Nat, NEW k \in Nat, NEW x, Flowing(x, b, k),
         NEW n \in Nat, NEW y, Along(n, y, x, b, k)
  PROVE  Along(n + 1, Taken(y), x, b, k)
<1>1. Flowing(y, b, k) /\ y.pending \subseteq x.pending /\ (Joined(x) => Joined(y))
  BY DEF Along
<1>2. /\ Flowing(Taken(y), b, k) /\ Taken(y).pending \subseteq y.pending
      /\ Here(y) = {} => Taken(y) = y
      /\ Here(y) # {} => Joined(Taken(y))
           /\ Cardinality(Taken(y).pending) = Cardinality(y.pending) - 1
      /\ Joined(y) => Joined(Taken(y))
  BY <1>1, TakenKeeps
<1>3. IsFiniteSet(x.pending) /\ IsFiniteSet(y.pending)
  BY <1>1 DEF Flowing, Kept
<1>4. /\ Cardinality(x.pending) \in Nat /\ Cardinality(y.pending) \in Nat
      /\ Cardinality(y.pending) <= Cardinality(x.pending)
  BY <1>1, <1>3, FS_CardinalityType, FS_Subset
<1>5. CASE Here(y) = {}
  <2>1. n = 0 => Here(x) = {}
    BY <1>5 DEF Along
  <2>2. Here(x) # {} => Joined(y) /\ Cardinality(y.pending) < Cardinality(x.pending)
    BY <2>1 DEF Along
  <2>3. QED
    BY <1>1, <1>2, <1>5, <2>2 DEF Along
<1>6. CASE Here(y) # {}
  <2>1. Cardinality(y.pending) + n <= Cardinality(x.pending)
    BY <1>6 DEF Along
  <2>2. Cardinality(Taken(y).pending) + (n + 1) <= Cardinality(x.pending)
    BY <1>2, <1>4, <1>6, <2>1
  <2>3. Cardinality(Taken(y).pending) < Cardinality(x.pending)
    BY <1>2, <1>4, <1>6
  <2>4. n + 1 # 0
    OBVIOUS
  <2>5. QED
    BY <1>1, <1>2, <1>6, <2>2, <2>3, <2>4 DEF Along
<1>7. QED
  BY <1>5, <1>6

\* Draining a record that flows.
LEMMA DrainedFlows ==
  ASSUME NEW b \in Nat, NEW k \in Nat, NEW x, Flowing(x, b, k)
  PROVE  /\ Flowing(Drained(x), b, k) /\ Here(Drained(x)) = {}
         /\ Drained(x).pending \subseteq x.pending
         /\ Here(x) # {} => /\ Joined(Drained(x))
                           /\ Cardinality(Drained(x).pending) < Cardinality(x.pending)
         /\ Joined(x) => Joined(Drained(x))
<1> DEFINE c == Cardinality(x.pending)
           P == {z \in Nat \X Flow : Along(z[1], z[2], x, b, k)}
<1>1. IsFiniteSet(x.pending) /\ c \in Nat
  BY FS_CardinalityType DEF Flowing, Kept
<1>2. \A n, y : <<n, y>> \in P <=> n \in Nat /\ Along(n, y, x, b, k)
  BY DEF Along, Flowing
<1> HIDE DEF P
<1>3. <<0, x>> \in P
  <2>1. Along(0, x, x, b, k)
    BY <1>1 DEF Along
  <2>2. QED
    BY <1>2, <2>1
<1>4. \A n \in Nat : \A y : <<n, y>> \in P => <<n + 1, Taken(y)>> \in P
  BY <1>2, AlongKeeps
<1>5. <<c, Drained(x)>> \in P
  BY <1>1, <1>3, <1>4, DrainedKeeps
<1> DEFINE d == Drained(x)
<1> HIDE DEF d
<1>6. Along(c, d, x, b, k)
  BY <1>2, <1>5 DEF d
<1>7. Flowing(d, b, k) /\ d.pending \subseteq x.pending
  BY <1>6 DEF Along
<1>8. Here(d) = {}
  <2>1. CASE Cardinality(d.pending) + c <= c
    <3>1. IsFiniteSet(d.pending)
      BY <1>7 DEF Flowing, Kept
    <3>2. Cardinality(d.pending) = 0
      BY <1>1, <2>1, <3>1, FS_CardinalityType
    <3>3. d.pending = {}
      BY <3>1, <3>2, FS_EmptySet
    <3>4. QED
      BY <3>3 DEF Here
  <2>2. QED
    BY <1>6, <2>1 DEF Along
<1>9. ASSUME Here(x) # {} PROVE c > 0
  <2>1. x.pending # {}
    BY <1>9 DEF Here
  <2>2. c # 0
    BY <1>1, <2>1, FS_EmptySet
  <2>3. QED
    BY <1>1, <2>2
<1>10. QED
  BY <1>6, <1>7, <1>8, <1>9 DEF Along, d

-----------------------------------------------------------------------------
(* What a segment becomes before anything is drained.                      *)

LEMMA LowestIsLeast ==
  ASSUME NEW chunks \in SUBSET Chunk, chunks # {}
  PROVE  /\ \E p \in chunks : p.seq = Lowest(chunks)
         /\ \A p \in chunks : Lowest(chunks) <= p.seq
<1> DEFINE S == {p.seq : p \in chunks}
<1>1. S \in SUBSET Nat /\ S # {}
  BY DEF Chunk
<1>2. \E x \in S : \A y \in S : x <= y
  BY <1>1, LeastMember
<1>3. Lowest(chunks) = CHOOSE x \in S : \A y \in S : x <= y
  BY DEF Lowest, Min
<1>4. Lowest(chunks) \in S /\ \A y \in S : Lowest(chunks) <= y
  BY <1>2, <1>3
<1>5. QED
  BY <1>4

LEMMA NextPieceIsBeyond ==
  ASSUME PiecesApart, NEW o \in Nat, NEW l \in Nat \ {0}, <<o, l>> \in Segments,
         NEW o2 \in Nat, NEW l2 \in Nat \ {0}, <<o2, l2>> \in Segments, o < o2
  PROVE  o + l <= o2
BY <<o, l>>[1] = o, <<o, l>>[2] = l, <<o2, l2>>[1] = o2 DEF PiecesApart

\* The number of a piece that does not wrap.
LEMMA SequenceOf ==
  ASSUME NEW o \in Nat, NEW l \in Nat \ {0}, <<o, l>> \in Segments
  PROVE  Sequence(o) = InitialSequence + o
<1>1. InitialSequence + o + l <= Modulus
  BY NumbersAssumption, <<o, l>>[1] = o, <<o, l>>[2] = l
<1>2. InitialSequence \in Nat /\ Modulus \in Nat \ {0}
  BY StreamAssumption DEF StreamAssumption
<1>3. InitialSequence + o \in 0 .. Modulus - 1
  BY <1>1, <1>2
<1>4. \A m \in Nat \ {0} : \A a \in 0 .. m - 1 : a % m = a
  OBVIOUS
<1>5. QED
  BY <1>2, <1>3, <1>4 DEF Sequence

\* What is cut off is what lies before the expected byte, and a segment that
\* lies behind it stays whole.
LEMMA TrimmedChunk ==
  ASSUME NEW o \in Nat, NEW l \in Nat \ {0}, <<o, l>> \in Segments, NEW base \in Nat,
         Sequence(o) + l > base
  PROVE  LET c == Trimmed(o, l, base)
         IN  /\ c \in Chunk /\ c.seq = InitialSequence + c.from
             /\ c.seq + c.len = InitialSequence + o + l
             /\ base <= c.seq /\ InitialSequence + o <= c.seq
             /\ base < c.seq => c.from = o /\ c.len = l
<1>1. Sequence(o) = InitialSequence + o /\ InitialSequence \in Nat
  BY SequenceOf, StreamAssumption DEF StreamAssumption
<1> DEFINE cut == Max({0, base - Sequence(o)})
<1>2. \A a, b \in Int : Max({a, b}) = IF a >= b THEN a ELSE b
  BY DEF Max
<1>3. base - Sequence(o) \in Int /\ 0 \in Int
  BY <1>1
<1>4. cut = IF 0 >= base - Sequence(o) THEN 0 ELSE base - Sequence(o)
  BY <1>2, <1>3
<1>5. cut \in Nat /\ cut < l
  BY <1>1, <1>4
<1>6. Trimmed(o, l, base) = [seq |-> Sequence(o) + cut, from |-> o + cut, len |-> l - cut]
  BY DEF Trimmed
<1> HIDE DEF cut
<1>7. Sequence(o) + cut \in Nat /\ o + cut \in Nat /\ l - cut \in Nat \ {0}
  BY <1>1, <1>5
<1>8. base <= Sequence(o) + cut /\ (base < Sequence(o) + cut => cut = 0)
  BY <1>1, <1>4
<1>9. QED
  BY <1>1, <1>5, <1>6, <1>7, <1>8 DEF Chunk

\* The segment joins what waits.
LEMMA BufferedFlows ==
  ASSUME NEW o \in Nat, NEW l \in Nat \ {0}, <<o, l>> \in Segments, NEW base \in Nat,
         Sequence(o) + l > base, NEW k \in Nat,
         Flowing([next |-> base, pending |-> pending, fed |-> fed], base, k),
         \A p \in pending : p.seq # base
  PROVE  LET c == Trimmed(o, l, base)
         IN  /\ Flowing([next |-> base, pending |-> Buffered(c), fed |-> fed], base, k)
             /\ Cardinality(Buffered(c)) <= Cardinality(pending) + 1
<1> DEFINE c == Trimmed(o, l, base)
           x == [next |-> base, pending |-> pending, fed |-> fed]
           y == [next |-> base, pending |-> Buffered(c), fed |-> fed]
           same == {p \in pending : p.seq = c.seq}
<1>1. /\ c \in Chunk /\ c.seq = InitialSequence + c.from
      /\ c.seq + c.len = InitialSequence + o + l
      /\ base <= c.seq /\ InitialSequence + o <= c.seq
      /\ base < c.seq => c.from = o /\ c.len = l
  BY TrimmedChunk
<1>2. Flowing(x, base, k)
  OBVIOUS
<1>3. y.next = base /\ y.pending = Buffered(c) /\ y.fed = fed
  OBVIOUS
<1>4. x.next = base /\ x.pending = pending /\ x.fed = fed
  OBVIOUS
<1>5. Buffered(c) = pending \/ Buffered(c) = (pending \ same) \cup {c}
  BY DEF Buffered
<1> HIDE DEF x, y, c
<1>6. CASE Buffered(c) = pending
  <2>1. y = x
    BY <1>6 DEF x, y
  <2>2. Cardinality(pending) \in Nat
    BY <1>2, <1>4, FS_CardinalityType DEF Flowing, Kept
  <2>3. QED
    BY <1>2, <1>6, <2>1, <2>2 DEF y, c
<1>7. CASE Buffered(c) = (pending \ same) \cup {c}
  <2>1. IsFiniteSet(pending) /\ pending \subseteq Chunk /\ InitialSequence \in Nat
    BY <1>2, <1>4, StreamAssumption DEF Flowing, Kept, Flow, StreamAssumption
  <2>2. /\ IsFiniteSet(pending \ same) /\ Cardinality(pending \ same) <= Cardinality(pending)
        /\ Cardinality(pending) \in Nat /\ Cardinality(pending \ same) \in Nat
    BY <2>1, FS_Subset, FS_CardinalityType
  <2>3. IsFiniteSet(Buffered(c)) /\ Cardinality(Buffered(c)) <= Cardinality(pending) + 1
    <3>1. /\ IsFiniteSet((pending \ same) \cup {c})
          /\ Cardinality((pending \ same) \cup {c}) =
               IF c \in pending \ same THEN Cardinality(pending \ same)
               ELSE Cardinality(pending \ same) + 1
      BY <2>2, FS_AddElement
    <3>2. QED
      BY <1>7, <2>2, <3>1
  <2>4. ASSUME PiecesApart, NEW p \in pending, p.seq # c.seq
        PROVE  (p.seq < c.seq => p.seq + p.len <= c.seq)
               /\ (c.seq < p.seq => c.seq + c.len <= p.seq)
    <3>1. /\ p.from \in Nat /\ p.len \in Nat \ {0} /\ <<p.from, p.len>> \in Segments
          /\ p.seq = InitialSequence + p.from /\ base < p.seq
      <4>1. p.seq \in Nat /\ p.from \in Nat /\ p.len \in Nat \ {0}
        BY <2>1 DEF Chunk
      <4>2. p.seq = InitialSequence + p.from /\ base <= p.seq /\ (base < p.seq => Whole(p))
        BY <1>2, <1>4, <2>4 DEF Flowing, Kept, Ordered, Waits
      <4>3. base < p.seq
        BY <4>1, <4>2
      <4>4. QED
        BY <4>1, <4>2, <4>3 DEF Whole
    <3>2. PICK from \in Nat, len \in Nat \ {0} : from = p.from /\ len = p.len
      BY <3>1
    <3>3. PICK cfrom \in Nat, clen \in Nat \ {0} : cfrom = c.from /\ clen = c.len
      BY <1>1 DEF Chunk
    <3>4. ASSUME p.seq < c.seq PROVE p.seq + p.len <= c.seq
      <4>1. cfrom = o /\ clen = l /\ from < o
        BY <1>1, <2>1, <3>1, <3>2, <3>3, <3>4
      <4>2. from + len <= o
        BY <2>4, <3>1, <3>2, <4>1, NextPieceIsBeyond
      <4>3. QED
        BY <1>1, <2>1, <3>1, <3>2, <3>3, <4>1, <4>2
    <3>5. ASSUME c.seq < p.seq PROVE c.seq + c.len <= p.seq
      <4>1. o < from
        BY <1>1, <2>1, <3>1, <3>2, <3>3, <3>5
      <4>2. o + l <= from
        BY <2>4, <3>1, <3>2, <4>1, NextPieceIsBeyond
      <4>3. QED
        BY <1>1, <2>1, <3>1, <3>2, <4>2
    <3>6. QED
      BY <3>4, <3>5
  <2>5. Kept(y)
    <3>1. \A p \in pending \ same : p.seq # c.seq
      OBVIOUS
    <3>2. \A p \in pending : p.seq = InitialSequence + p.from
      BY <1>2, <1>4 DEF Flowing, Kept
    <3>3. \A p, q \in pending : p.seq = q.seq => p = q
      BY <1>2, <1>4 DEF Flowing, Kept
    <3>4. QED
      BY <1>1, <1>3, <1>7, <2>3, <3>1, <3>2, <3>3 DEF Kept
  <2>6. ASSUME PiecesApart PROVE Waits(y, base)
    <3>1. Waits(x, base)
      BY <1>2, <2>6 DEF Flowing, Ordered
    <3>2. \A p \in pending \ same : p.seq # c.seq
      OBVIOUS
    <3>3. ~ (c.seq < c.seq)
      BY <1>1 DEF Chunk
    <3>4. Apart(Buffered(c))
      BY <1>4, <1>7, <2>4, <2>6, <3>1, <3>2, <3>3 DEF Waits, Apart
    <3>5. ASSUME NEW p \in Buffered(c) PROVE base <= p.seq /\ (base < p.seq => Whole(p))
      <4>1. CASE p \in pending
        BY <1>4, <3>1, <4>1 DEF Waits
      <4>2. CASE p = c
        BY <1>1, <4>2 DEF Whole
      <4>3. QED
        BY <1>7, <4>1, <4>2
    <3>6. QED
      BY <1>3, <3>4, <3>5 DEF Waits
  <2>7. y \in Flow
    <3>1. Buffered(c) \in SUBSET Chunk
      BY <1>1, <1>7, <2>1
    <3>2. fed \in Seq(Nat)
      BY <1>2, <1>4 DEF Flowing, Flow
    <3>3. QED
      BY <3>1, <3>2 DEF Flow, y
  <2>8. HolesWithin(y, k) /\ (PiecesApart => Behind(y) /\ base <= y.next)
    BY <1>2, <1>3, <1>4 DEF Flowing, Ordered, Behind, HolesWithin, Joined
  <2>9. Flowing(y, base, k)
    BY <2>5, <2>6, <2>7, <2>8 DEF Flowing, Ordered
  <2>10. QED
    BY <2>3, <2>9 DEF y, c
<1>8. QED
  BY <1>5, <1>6, <1>7

-----------------------------------------------------------------------------
(* Giving up a gap.                                                        *)

LEMMA JumpedFlows ==
  ASSUME NEW b \in Nat, NEW k \in Nat, NEW x, Flowing(x, b, k), Here(x) = {}, x.pending # {}
  PROVE  /\ Flowing(Jumped(x), b, k + 1) /\ Here(Jumped(x)) = {}
         /\ Cardinality(Jumped(x).pending) < Cardinality(x.pending)
<1> DEFINE y == [x EXCEPT !.next = Lowest(x.pending)]
<1>1. x \in Flow /\ Kept(x) /\ HolesWithin(x, k) /\ (PiecesApart => Ordered(x, b))
  BY DEF Flowing
<1>2. /\ x.next \in Nat /\ x.pending \in SUBSET Chunk /\ x.fed \in Seq(Nat)
      /\ InitialSequence \in Nat
  BY <1>1, StreamAssumption DEF Flow, StreamAssumption
<1>3. PICK low \in x.pending :
        low.seq = Lowest(x.pending) /\ \A p \in x.pending : low.seq <= p.seq
  BY <1>2, LowestIsLeast
<1>4. y.next = low.seq /\ y.pending = x.pending /\ y.fed = x.fed /\ low.seq \in Nat /\ y \in Flow
  BY <1>1, <1>2, <1>3 DEF Flow, Chunk
<1>5. Jumped(x) = Drained(y)
  BY DEF Jumped
<1> HIDE DEF y
<1>6. Kept(y)
  BY <1>1, <1>4 DEF Kept
<1>7. ASSUME PiecesApart PROVE x.next <= low.seq /\ Waits(y, b)
  BY <1>1, <1>3, <1>4, <1>7 DEF Ordered, Waits
<1>8. ASSUME PiecesApart PROVE Ordered(y, b)
  <2>1. b <= x.next /\ Behind(x) /\ x.next <= low.seq
    BY <1>1, <1>7, <1>8 DEF Ordered
  <2>2. ASSUME NEW i \in 1 .. Len(y.fed) PROVE InitialSequence + y.fed[i] < y.next
    <3>1. PICK v \in Nat : v = y.fed[i] /\ InitialSequence + v < x.next
      BY <1>2, <1>4, <2>1 DEF Behind
    <3>2. QED
      BY <1>2, <1>4, <2>1, <3>1
  <2>3. Behind(y)
    BY <1>4, <2>1, <2>2 DEF Behind
  <2>4. b <= y.next
    BY <1>2, <1>4, <2>1
  <2>5. QED
    BY <1>7, <1>8, <2>3, <2>4 DEF Ordered
<1>9. HolesWithin(y, k + 1)
  <2>1. Cardinality(Holes(x.fed)) \in Nat
    BY <1>2, HolesAreFinite
  <2>2. Cardinality(Holes(x.fed)) <= k
    BY <1>1, <2>1 DEF HolesWithin
  <2>3. QED
    BY <1>4, <2>1, <2>2 DEF HolesWithin
<1>10. Flowing(y, b, k + 1) /\ k + 1 \in Nat
  BY <1>4, <1>6, <1>8, <1>9 DEF Flowing
<1>11. Here(y) # {}
  BY <1>3, <1>4 DEF Here
<1>12. QED
  BY <1>4, <1>5, <1>10, <1>11, DrainedFlows

-----------------------------------------------------------------------------
(* The inductive invariant.                                                *)

\* Before the first segment there is nothing; afterwards what is kept flows,
\* with nothing at the place that is expected.
StreamInv ==
  /\ TypeOK
  /\ IF next = Unknown THEN pending = {} /\ fed = <<>>
     ELSE LET x == [next |-> next, pending |-> pending, fed |-> fed]
          IN  Flowing(x, next, skips) /\ Here(x) = {}

LEMMA StreamInit == Init => StreamInv
<1> SUFFICES ASSUME Init PROVE StreamInv
  OBVIOUS
<1>1. Cardinality({}) = 0 /\ MaxPending \in Nat \ {0}
  BY FS_EmptySet, StreamAssumption DEF StreamAssumption
<1>2. <<>> \in Seq(Nat)
  OBVIOUS
<1>3. QED
  BY <1>1, <1>2 DEF Init, StreamInv, TypeOK

\* A record with nothing in it flows.
LEMMA EmptyFlows ==
  ASSUME NEW base \in Nat, NEW k \in Nat
  PROVE  Flowing([next |-> base, pending |-> {}, fed |-> <<>>], base, k)
<1>1. IsFiniteSet({}) /\ Cardinality({}) = 0
  BY FS_EmptySet
<1>2. Holes(<<>>) = {}
  BY DEF Holes
<1>3. <<>> \in Seq(Nat) /\ Len(<<>>) = 0
  OBVIOUS
<1> DEFINE x == [next |-> base, pending |-> {}, fed |-> <<>>]
<1>4. x \in Flow /\ x.next = base /\ x.pending = {} /\ x.fed = <<>>
  BY <1>3 DEF Flow
<1> HIDE DEF x
<1>5. Behind(x)
  BY <1>3, <1>4 DEF Behind
<1>6. Kept(x) /\ Waits(x, base)
  BY <1>1, <1>4 DEF Kept, Waits, Apart
<1>7. HolesWithin(x, k)
  <2>1. Joined(x)
    BY <1>4 DEF Joined
  <2>2. Cardinality(Holes(x.fed)) = 0
    BY <1>1, <1>2, <1>4
  <2>3. QED
    BY <2>1, <2>2 DEF HolesWithin
<1>8. Flowing(x, base, k)
  BY <1>4, <1>5, <1>6, <1>7 DEF Flowing, Ordered
<1>9. QED
  BY <1>8 DEF x

LEMMA FeedKeeps ==
  ASSUME StreamInv, NEW s \in Segments, Feed(s[1], s[2]) PROVE StreamInv'
<1> DEFINE o == s[1]
           l == s[2]
<1>1. o \in Nat /\ l \in Nat \ {0} /\ <<o, l>> \in Segments
  BY StreamAssumption DEF StreamAssumption
<1>2. TypeOK /\ MaxPending \in Nat /\ skips \in Nat /\ InitialSequence \in Nat
  BY StreamAssumption DEF StreamInv, TypeOK, StreamAssumption
<1> HIDE DEF o, l
<1>3. PICK base \in Nat : base = IF next = Unknown THEN Sequence(o) ELSE next
  BY <1>1, <1>2, SequenceOf DEF TypeOK
<1> DEFINE c == Trimmed(o, l, base)
           x == [next |-> base, pending |-> Buffered(c), fed |-> fed]
           first == Drained(x)
           last == IF Stuck(first) THEN Jumped(first) ELSE first
<1>4. /\ Sequence(o) + l > base
      /\ next' = last.next /\ pending' = last.pending /\ fed' = last.fed
      /\ skips' = IF Stuck(first) THEN skips + 1 ELSE skips
      /\ gap' = CASE last.pending = {} -> "none"
                  [] last.pending # {} /\ (gap = "none" \/ Stuck(first)) -> "fresh"
                  [] OTHER -> gap
  BY <1>3 DEF Feed, o, l
<1>5. /\ Flowing([next |-> base, pending |-> pending, fed |-> fed], base, skips)
      /\ \A p \in pending : p.seq # base
  <2>1. CASE next = Unknown
    BY <1>2, <2>1, EmptyFlows DEF StreamInv
  <2>2. CASE next # Unknown
    BY <1>3, <2>2 DEF StreamInv, Here
  <2>3. QED
    BY <2>1, <2>2
<1>6. Flowing(x, base, skips) /\ Cardinality(Buffered(c)) <= Cardinality(pending) + 1
  BY <1>1, <1>2, <1>4, <1>5, BufferedFlows
<1> HIDE DEF c
<1>7. x.pending = Buffered(c)
  OBVIOUS
<1> HIDE DEF x
<1>8. Flowing(first, base, skips) /\ Here(first) = {} /\ first.pending \subseteq x.pending
  BY <1>2, <1>6, DrainedFlows
<1> HIDE DEF first
<1>9. /\ Cardinality(first.pending) <= MaxPending + 1 /\ Cardinality(first.pending) \in Nat
  <2>1. IsFiniteSet(first.pending) /\ IsFiniteSet(x.pending)
    BY <1>6, <1>8 DEF Flowing, Kept
  <2>2. IsFiniteSet(pending)
    BY <1>5 DEF Flowing, Kept
  <2>3. /\ Cardinality(first.pending) <= Cardinality(x.pending)
        /\ Cardinality(first.pending) \in Nat /\ Cardinality(x.pending) \in Nat
        /\ Cardinality(pending) \in Nat
    BY <1>8, <2>1, <2>2, FS_Subset, FS_CardinalityType
  <2>4. Cardinality(pending) <= MaxPending
    BY <1>2 DEF TypeOK
  <2>5. QED
    BY <1>2, <1>6, <1>7, <2>3, <2>4
<1>10. /\ Flowing(last, base, skips') /\ Here(last) = {} /\ Cardinality(last.pending) <= MaxPending
       /\ skips' \in Nat
  <2>1. CASE Stuck(first)
    <3>1. first.pending # {}
      BY <2>1 DEF Stuck
    <3>2. /\ Flowing(Jumped(first), base, skips + 1) /\ Here(Jumped(first)) = {}
          /\ Cardinality(Jumped(first).pending) < Cardinality(first.pending)
      BY <1>2, <1>8, <3>1, JumpedFlows
    <3>3. Cardinality(Jumped(first).pending) \in Nat
      BY <3>2, FS_CardinalityType DEF Flowing, Kept
    <3>4. Cardinality(Jumped(first).pending) <= MaxPending
      BY <1>2, <1>9, <3>2, <3>3
    <3>5. QED
      BY <1>2, <1>4, <2>1, <3>2, <3>4
  <2>2. CASE ~ Stuck(first)
    <3>1. first.pending = {} \/ Cardinality(first.pending) <= MaxPending
      BY <1>2, <1>9, <2>2 DEF Stuck
    <3>2. Cardinality(first.pending) <= MaxPending
      BY <1>2, <3>1, FS_EmptySet
    <3>3. QED
      BY <1>2, <1>4, <1>8, <2>2, <3>2
  <2>3. QED
    BY <2>1, <2>2
<1> HIDE DEF last
<1>11. last = [next |-> next', pending |-> pending', fed |-> fed'] /\ last \in Flow
  BY <1>4, <1>10 DEF Flowing, Flow
<1>12. next' \in Nat /\ next' # Unknown /\ pending' \subseteq Chunk /\ fed' \in Seq(Nat)
  BY <1>4, <1>11 DEF Flow, Unknown
<1>13. Flowing(last, next', skips')
  <2>1. next' = last.next
    BY <1>4
  <2>2. ASSUME PiecesApart PROVE Ordered(last, next')
    <3>1. Ordered(last, base)
      BY <1>10, <2>2 DEF Flowing
    <3>2. base <= next'
      BY <2>1, <3>1 DEF Ordered
    <3>3. ASSUME NEW p \in last.pending, next' < p.seq PROVE Whole(p)
      <4>1. p.seq \in Nat
        BY <1>4, <1>12 DEF Chunk
      <4>2. base < p.seq
        BY <1>12, <3>2, <3>3, <4>1
      <4>3. QED
        BY <3>1, <4>2 DEF Ordered, Waits
    <3>4. Waits(last, next')
      BY <3>1, <3>3 DEF Ordered, Waits
    <3>5. next' <= last.next
      BY <1>12, <2>1
    <3>6. QED
      BY <3>1, <3>4, <3>5 DEF Ordered
  <2>3. QED
    BY <1>10, <2>2 DEF Flowing
<1>14. TypeOK'
  <2>1. gap' \in {"none", "fresh", "old"} /\ (gap' = "none" <=> pending' = {})
    BY <1>2, <1>4 DEF TypeOK
  <2>2. Cardinality(pending') <= MaxPending
    BY <1>4, <1>10
  <2>3. QED
    BY <1>10, <1>12, <2>1, <2>2 DEF TypeOK
<1>15. QED
  BY <1>10, <1>11, <1>12, <1>13, <1>14 DEF StreamInv, Unknown

LEMMA StreamStep == StreamInv /\ [Next]_vars => StreamInv'
<1> SUFFICES ASSUME StreamInv, [Next]_vars PROVE StreamInv'
  OBVIOUS
<1>1. CASE GapAges
  BY <1>1 DEF GapAges, StreamInv, TypeOK, Flowing, Here, Unknown
<1>2. ASSUME NEW s \in Segments, Feed(s[1], s[2]) PROVE StreamInv'
  BY <1>2, FeedKeeps
<1>3. CASE UNCHANGED vars
  BY <1>3 DEF vars, StreamInv, TypeOK, Unknown
<1>4. QED
  BY <1>1, <1>2, <1>3 DEF Next

LEMMA StreamInvIsEnough ==
  ASSUME StreamInv PROVE HolesAreCounted /\ (PiecesApart => StreamIsSound)
<1>1. CASE next = Unknown
  <2>1. Holes(fed) = {} /\ Len(fed) = 0 /\ pending = {} /\ skips \in Nat
    BY <1>1 DEF StreamInv, Holes, TypeOK
  <2>2. QED
    BY <2>1, FS_EmptySet DEF StreamIsSound, InOrder, HolesAreCounted, WaitingIsAhead, Holes
<1>2. CASE next # Unknown
  <2> DEFINE x == [next |-> next, pending |-> pending, fed |-> fed]
  <2>1. Flowing(x, next, skips) /\ Here(x) = {} /\ x.fed = fed /\ x.next = next
        /\ x.pending = pending
    BY <1>2 DEF StreamInv
  <2> HIDE DEF x
  <2>2. HolesAreCounted
    <3>1. Cardinality(Holes(fed)) \in Nat /\ skips \in Nat
      BY HolesAreFinite DEF StreamInv, TypeOK
    <3>2. Cardinality(Holes(fed)) <= skips
      BY <2>1, <3>1 DEF Flowing, HolesWithin
    <3>3. QED
      BY <3>2 DEF HolesAreCounted, Holes
  <2>3. ASSUME PiecesApart PROVE InOrder /\ WaitingIsAhead
    <3>1. Behind(x) /\ Waits(x, next)
      BY <2>1, <2>3 DEF Flowing, Ordered
    <3>2. InOrder
      BY <2>1, <3>1 DEF Behind, InOrder
    <3>3. ASSUME NEW p \in pending PROVE p.seq > next
      <4>1. next <= p.seq /\ p.seq # next
        BY <2>1, <3>1 DEF Waits, Here
      <4>2. next \in Nat /\ p.seq \in Nat
        BY <1>2 DEF StreamInv, TypeOK, Chunk
      <4>3. QED
        BY <4>1, <4>2
    <3>4. QED
      BY <3>2, <3>3 DEF WaitingIsAhead
  <2>4. QED
    BY <2>2, <2>3 DEF StreamIsSound
<1>3. QED
  BY <1>1, <1>2

LEMMA StreamInvAlways == MachineSpec => []StreamInv
<1>1. MachineInit => StreamInv
  BY StreamInit DEF MachineInit, Start
<1>2. ASSUME StreamInv, [PumpMain \/ PumpWorker \/ Sniffer \/ Stream \/ WindowNext]_captureVars
      PROVE  StreamInv'
  <2>1. [Next]_vars
    BY <1>2 DEF PumpMain, PumpWorker, Sniffer, Stream, WindowNext, captureVars
  <2>2. QED
    BY <1>2, <2>1, StreamStep
<1>3. QED
  BY <1>1, <1>2, PTL DEF MachineSpec

\* Of a stream that is sent in pieces none of which begins within another, and
\* whatever of it is lost, sent again or overtaken, and whenever a gap is given
\* up, the decoder gets bytes in order and none twice, and what waits lies ahead
\* (TCPDirectionReassembler).
THEOREM DecoderGetsTheStream ==
  ASSUME PiecesApart PROVE MachineSpec => []StreamIsSound
<1>1. StreamInv => StreamIsSound
  BY StreamInvIsEnough
<1>2. QED
  BY <1>1, StreamInvAlways, PTL

\* However the stream is cut, also when it is sent again in other pieces, every
\* hole in what the decoder gets is a counted gap (TCPDirectionReassembler's
\* gap_skips).
THEOREM GapsAreCounted == MachineSpec => []HolesAreCounted
<1>1. StreamInv => HolesAreCounted
  BY StreamInvIsEnough
<1>2. QED
  BY <1>1, StreamInvAlways, PTL

\* Buffers, queues, calls and forms keep to their types and their bounds
\* (MAX_PENDING_SEGMENTS, the pump's queue, the window's timers).
THEOREM MachineKeepsItsTypes == MachineSpec => []TypesOK
<1>1. StreamInv /\ PumpInv /\ WindowInv => TypesOK
  BY WindowInvIsEnough, Zenon DEF StreamInv, PumpInv, TypesOK
<1>2. QED
  BY <1>1, StreamInvAlways, PumpInvAlways, WindowInvAlways, PTL
===============================================================================
