------------------------------ MODULE MCCapture ------------------------------
(***************************************************************************)
(* What runs on the player's machine, for TLC: the pump of the capture     *)
(* process between its threads (SegmentPump), one direction of a           *)
(* connection (Reassembler), and the window of the desktop app             *)
(* (DesktopWindow).  They share no state, so each behaviour of the run is  *)
(* a behaviour of one of them.                                             *)
(***************************************************************************)
EXTENDS Reassembler

CONSTANTS Capacity, MaxSegments, Views, Adapters, MaxCalls, MaxLoads

ASSUME PumpAssumption == Capacity \in Nat \ {0} /\ MaxSegments \in Nat
ASSUME WindowAssumption ==
  /\ {"search", "settings"} \subseteq Views /\ Adapters \cap {"none", "failed", "kept", "first", "again"} = {}
  /\ MaxCalls \in Nat \ {0} /\ MaxLoads \in Nat \ {0}

VARIABLES
  queue, main, worker, hand, submitted, handled, failure, journalOpen, timedOut, raised,
  active, calls, rows, held, pinned, startup, firstRunNote, settingsLoadToken, form, loading,
  options, picked, edited, summary, statusPollHandle, timers,
  part

Pump == INSTANCE SegmentPump
Window == INSTANCE DesktopWindow

\* The stream in pieces of one and two bytes; the first of a pair may come
\* alone before the pair is sent again.
MCAligned ==
  {<<0, 1>>, <<1, 2>>, <<1, 1>>, <<3, 1>>, <<4, 2>>, <<4, 1>>, <<6, 1>>, <<7, 1>>, <<8, 2>>}

\* The numbers do not wrap.
ASSUME NumbersAssumption == \A s \in Segments : InitialSequence + s[1] + s[2] <= Modulus

\* What is sent again is cut where it was cut before: no piece begins within
\* another.
PiecesApart == \A s, t \in Segments : s[1] < t[1] => s[1] + s[2] <= t[1]

pumpVars == <<queue, main, worker, hand, submitted, handled, failure, journalOpen, timedOut, raised>>
windowVars == <<active, calls, rows, held, pinned, startup, firstRunNote, settingsLoadToken, form,
                loading, options, picked, edited, summary, statusPollHandle, timers>>
captureVars == <<vars, pumpVars, windowVars, part>>

Start(parts) ==
  /\ part \in parts
  /\ Init /\ Pump!Init /\ Window!Init
  /\ part = "window" \/ (rows = "empty" /\ held = "none" /\ ~ pinned)

CaptureInit == Start({"pump", "stream"})
MachineInit == Start({"pump", "stream", "window"})

PumpMain == part = "pump" /\ Pump!Main /\ UNCHANGED <<vars, windowVars, part>>
PumpWorker == part = "pump" /\ Pump!Worker /\ UNCHANGED <<vars, windowVars, part>>
Sniffer == part = "pump" /\ Pump!Interrupt /\ UNCHANGED <<vars, windowVars, part>>
Stream == part = "stream" /\ Next /\ UNCHANGED <<pumpVars, windowVars, part>>
WindowNext == part = "window" /\ Window!Next /\ UNCHANGED <<vars, pumpVars, part>>
WindowTick == part = "window" /\ Window!Tick /\ UNCHANGED <<vars, pumpVars, part>>
WindowAnswer(ask, load) ==
  /\ part = "window" /\ \E c \in calls : c.ask = ask /\ c.load = load /\ Window!Answer(c)
  /\ UNCHANGED <<vars, pumpVars, part>>

CaptureSpec ==
  /\ CaptureInit
  /\ [][PumpMain \/ PumpWorker \/ Sniffer \/ Stream]_captureVars
  /\ WF_captureVars(PumpMain) /\ WF_captureVars(PumpWorker)

MachineSpec ==
  /\ MachineInit
  /\ [][PumpMain \/ PumpWorker \/ Sniffer \/ Stream \/ WindowNext]_captureVars
  /\ WF_captureVars(PumpMain) /\ WF_captureVars(PumpWorker) /\ WF_captureVars(WindowTick)
  /\ \A ask \in Window!Asks, load \in 1 .. MaxLoads : WF_captureVars(WindowAnswer(ask, load))

\* Types of the three.
TypesOK == TypeOK /\ Pump!TypeOK /\ Window!TypeOK

\* What the decoder gets is the stream in order, gaps that are given up are
\* counted, and what waits lies ahead (Reassembler).
StreamIsSound == InOrder /\ HolesAreCounted /\ WaitingIsAhead

\* What SegmentPump and DesktopWindow state of themselves.
NothingIsLost == Pump!NothingDropped /\ Pump!QuietExitIsComplete
BlockedIsTemporary == Pump!BlockedIsTemporary
FailureSurfacesWithRoom == Pump!FailureSurfacesWithRoom
FailureSurfaces == Pump!FailureSurfaces
FieldsMatchWhatIsHeld == Window!FieldsMatchWhatIsHeld /\ Window!OneInterval
WindowKeepsUp == Window!LoadingEnds /\ Window!RowsClimb
==============================================================================
