---------------------------- MODULE DesktopWindow ----------------------------
(***************************************************************************)
(* The window of the desktop app: screens of which one is shown            *)
(* (views.ts), and its settings screen, which draws what the reader, the   *)
(* process behind the window, answers.  Every question is an `invoke`      *)
(* whose answer comes later, while the player goes on clicking; answers    *)
(* may overtake each other, and an answer continues the function that      *)
(* asked, whatever is shown by then.                                       *)
(*                                                                         *)
(* The journal is empty or filled, and an answer may be from any moment    *)
(* since its question.  Of the settings one field is kept, the capture     *)
(* adapter, which the environment may pin and which the machine need not   *)
(* list.  The other screens hold nothing that this one reads: they are the *)
(* views it is left for.                                                   *)
(***************************************************************************)
EXTENDS Naturals, FiniteSets

CONSTANTS
  Views,       \* the views, "search" and "settings" among them
  Adapters,    \* network adapters of the machine
  MaxCalls,    \* bound: questions out when the player adds one
  MaxLoads     \* bound: times the settings screen is loaded

VARIABLES
  active,      \* the view that is shown
  calls,       \* questions out
  rows,        \* whether the journal has captures
  held, pinned,             \* the adapter the reader's settings hold; by the environment
  startup,     \* what waitForReader waits for
  firstRunNote,             \* the note waits to be shown
  settingsLoadToken,
  form,        \* the load whose form the settings screen has, 0 if none
  loading,     \* "Loading settings" is shown instead
  options,     \* what the form's adapter can be picked from, {} when it is disabled
  picked, edited,           \* the form's adapter, and whether the player changed it
  summary,     \* the counters below the form
  statusPollHandle, timers  \* intervals, by the load whose elements they refresh

settingsVars == <<settingsLoadToken, form, loading, options, picked, edited, summary>>
pollVars == <<statusPollHandle, timers>>
readerVars == <<rows, held, pinned>>
vars == <<active, calls, readerVars, startup, firstRunNote, settingsVars, pollVars>>

-----------------------------------------------------------------------------

\* A question of one of the functions below: the load it is asked for, 0 for
\* none, what the function got before, and what the reader had then of what the
\* answer will tell.
Question(ask, load, got) ==
  [ask |-> ask, load |-> load, got |-> got,
   had |-> <<IF ask \in {"health", "capture_status"} THEN rows ELSE "empty",
             IF ask \in {"landing", "get_settings"} THEN held ELSE "none">>]

\* `answered` is the question whose answer the function goes on from, if any.
Invoke(answered, ask, load, got) ==
  /\ answered = {} => Cardinality(calls) < MaxCalls
  /\ calls' = (calls \ answered) \cup {Question(ask, load, got)}

Ends(c) == calls' = calls \ {c}

\* What an answer finds in the journal and in the settings.
Counted(c) == {c.had[1], rows}
Read(c) == {c.had[2], held}

Init ==
  /\ active = "search" /\ calls = {} /\ rows \in {"empty", "filled"}
  /\ held \in Adapters \cup {"none"} /\ pinned \in BOOLEAN /\ (pinned => held # "none")
  /\ startup = "status" /\ firstRunNote = FALSE
  /\ settingsLoadToken = 0 /\ form = 0 /\ loading = FALSE
  /\ options = {} /\ picked = "none" /\ edited = FALSE /\ summary = "none"
  /\ statusPollHandle = 0 /\ timers = {}

-----------------------------------------------------------------------------
(* Showing a view.                                                         *)

stopStatusPolling == timers' = timers \ {statusPollHandle} /\ statusPollHandle' = 0

loadSettingsView(answered) ==
  /\ settingsLoadToken < MaxLoads /\ settingsLoadToken' = settingsLoadToken + 1
  /\ form' = 0 /\ loading' = TRUE /\ summary' = "none"
  /\ options' = {} /\ picked' = "none" /\ edited' = FALSE
  /\ Invoke(answered, "get_settings", settingsLoadToken', "none")

\* views.show: leaving runs onExit, entering runs onEnter.
Show(answered, view) ==
  /\ view # active /\ active' = view
  /\ IF active = "settings" THEN stopStatusPolling ELSE UNCHANGED pollVars
  /\ \/ view # "settings" /\ calls' = calls \ answered /\ UNCHANGED settingsVars
     \/ view = "settings" /\ loadSettingsView(answered)

Click ==
  /\ \E view \in Views : Show({}, view)
  /\ UNCHANGED <<readerVars, startup, firstRunNote>>

-----------------------------------------------------------------------------
(* Starting.                                                               *)

\* waitForReader asks again until the reader is ready or has failed.
ReaderReady ==
  /\ startup = "status" /\ startup' = "health"
  /\ calls' = calls \cup {Question("health", 0, "none")}
  /\ UNCHANGED <<active, readerVars, firstRunNote, settingsVars, pollVars>>

ReaderFailed ==
  /\ startup = "status" /\ startup' = "done"
  /\ UNCHANGED <<active, calls, readerVars, firstRunNote, settingsVars, pollVars>>

\* maybeLandOnSettings: without a journal the settings are looked at as well.
HealthAnswered(c) ==
  /\ c.ask = "health"
  /\ \/ startup' = "done" /\ Ends(c)
     \/ "empty" \in Counted(c) /\ startup' = "settings" /\ Invoke({c}, "landing", 0, "none")
  /\ UNCHANGED <<active, readerVars, firstRunNote, settingsVars, pollVars>>

\* A fresh install is sent to the settings, with a note to say why.
LandingAnswered(c) ==
  /\ c.ask = "landing" /\ startup' = "done"
  /\ \/ Ends(c) /\ UNCHANGED <<active, firstRunNote, settingsVars, pollVars>>
     \/ /\ "none" \in Read(c) /\ firstRunNote' = TRUE
        /\ IF active # "settings" THEN Show({c}, "settings")
           ELSE Ends(c) /\ UNCHANGED <<active, settingsVars, pollVars>>
  /\ UNCHANGED readerVars

-----------------------------------------------------------------------------
(* The settings screen.                                                    *)

stay == <<active, startup, readerVars>>

SettingsAnswered(c) ==
  /\ c.ask = "get_settings"
  /\ \E got \in Read(c) \cup {"failed"} : Invoke({c}, "get_adapters", c.load, got)
  /\ UNCHANGED <<stay, firstRunNote, settingsVars, pollVars>>

\* Mutant: a load that the player has left meanwhile draws nothing.
IsNewestAndShown(load) == load = settingsLoadToken /\ active = "settings"

\* "let that newer call own the screen".
IsNewest(load) == load = settingsLoadToken

\* "No adapter chosen" and the adapters listed; no option at all when they
\* could not be listed, there is no dumpcap, or it reports none.
Selections == {{}} \cup {{"none"} \cup listed : listed \in SUBSET Adapters}

\* A select shows the adapter it is given if it is one of its options, and
\* nothing otherwise.
Shown(adapter, among) == IF adapter \in among THEN adapter ELSE "none"

\* The adapters, or the reason why there are none; the counters are asked for
\* before the polling starts.
AdaptersAnswered(c) ==
  /\ c.ask = "get_adapters" /\ UNCHANGED settingsLoadToken
  /\ \/ /\ ~ IsNewest(c.load) /\ Ends(c)
        /\ UNCHANGED <<form, loading, options, picked, edited, summary, firstRunNote>>
     \/ /\ IsNewest(c.load) /\ c.got = "failed" /\ form' = 0 /\ loading' = FALSE /\ Ends(c)
        /\ options' = {} /\ picked' = "none" /\ edited' = FALSE /\ summary' = "none"
        /\ UNCHANGED firstRunNote
     \/ /\ IsNewest(c.load) /\ c.got # "failed" /\ form' = c.load /\ loading' = FALSE
        /\ options' \in Selections /\ picked' = Shown(c.got, options') /\ edited' = FALSE
        /\ summary' = "none" /\ firstRunNote' = FALSE
        /\ Invoke({c}, "capture_status", c.load, "first")
  /\ UNCHANGED <<stay, pollVars>>

StartPolling(load) ==
  /\ timers' = (timers \ {statusPollHandle}) \cup {load}
  /\ statusPollHandle' = load

\* refreshCaptureStatus, into the elements of the form that asked.
StatusAnswered(c) ==
  /\ c.ask = "capture_status" /\ Ends(c)
  /\ \E n \in Counted(c) \cup {"failed"} : summary' = IF form = c.load THEN n ELSE summary
  /\ IF c.got = "first" THEN StartPolling(c.load) ELSE UNCHANGED pollVars
  /\ UNCHANGED <<stay, firstRunNote, settingsLoadToken, form, loading, options, picked, edited>>

\* An interval asks again.
Tick ==
  /\ \E load \in timers : calls' = calls \cup {Question("capture_status", load, "again")}
  /\ UNCHANGED <<stay, firstRunNote, settingsVars, pollVars>>

FormIsShown == active = "settings" /\ form # 0

Pick ==
  /\ FormIsShown /\ ~ pinned /\ picked' \in options \ {picked} /\ edited' = TRUE
  /\ UNCHANGED <<stay, calls, firstRunNote, settingsLoadToken, form, loading, options, summary,
       pollVars>>

\* A field that is disabled is not sent, so that the reader keeps what it has;
\* an empty one is sent, and makes the reader hold none.
Sent == IF pinned \/ options = {} THEN "kept" ELSE picked

\* Save, Start and Stop.
Press ==
  /\ FormIsShown
  /\ Invoke({}, "save_settings", form, Sent) \/ Invoke({}, "switch_capture", form, "none")
  /\ UNCHANGED <<stay, firstRunNote, settingsVars, pollVars>>

\* The reader writes what was sent, but what the environment has pinned.
SaveLands ==
  /\ \E c \in calls :
       /\ c.ask = "save_settings" /\ held' = (IF pinned \/ c.got = "kept" THEN held ELSE c.got)
       /\ calls' = (calls \ {c}) \cup {[c EXCEPT !.ask = "saved"]}
  /\ UNCHANGED <<active, startup, firstRunNote, settingsVars, pollVars, rows, pinned>>

\* Mutant: the form is left as it was typed.
SavedInPlace(c) ==
  /\ c.ask = "saved" /\ Ends(c) /\ edited' = FALSE
  /\ UNCHANGED <<stay, firstRunNote, settingsLoadToken, form, loading, options, picked, summary,
       pollVars>>

\* What is saved is drawn again from what the reader holds.
Saved(c) ==
  /\ c.ask = "saved" /\ loadSettingsView({c}) /\ UNCHANGED <<stay, firstRunNote, pollVars>>

Refused(c) ==
  /\ c.ask = "save_settings" /\ Ends(c) /\ UNCHANGED <<stay, firstRunNote, settingsVars, pollVars>>

CaptureSwitched(c) ==
  /\ c.ask = "switch_capture" /\ Invoke({c}, "capture_status", c.load, "again")
  /\ UNCHANGED <<stay, firstRunNote, settingsVars, pollVars>>

Captures ==
  /\ rows = "empty" /\ rows' = "filled"
  /\ UNCHANGED <<active, calls, held, pinned, startup, firstRunNote, settingsVars, pollVars>>

-----------------------------------------------------------------------------

Answer(c) ==
  \/ HealthAnswered(c) \/ LandingAnswered(c) \/ SettingsAnswered(c) \/ AdaptersAnswered(c)
  \/ StatusAnswered(c) \/ Saved(c) \/ Refused(c) \/ CaptureSwitched(c)

Next ==
  \/ \E c \in calls : Answer(c)
  \/ SaveLands \/ Captures \/ ReaderReady \/ ReaderFailed
  \/ Click \/ Pick \/ Press \/ Tick

Spec == Init /\ [][Next]_vars

\* What a load asks for is answered, and intervals fire.
Asks == {"get_settings", "get_adapters", "capture_status"}
FairSpec ==
  /\ Spec /\ WF_vars(Tick)
  /\ \A ask \in Asks, load \in 1 .. MaxLoads :
       WF_vars(\E c \in calls : c.ask = ask /\ c.load = load /\ Answer(c))

-----------------------------------------------------------------------------

TypeOK ==
  /\ active \in Views /\ rows \in {"empty", "filled"}
  /\ held \in Adapters \cup {"none"} /\ pinned \in BOOLEAN
  /\ startup \in {"status", "health", "settings", "done"} /\ firstRunNote \in BOOLEAN
  /\ startup = "health" <=> \E c \in calls : c.ask = "health"
  /\ settingsLoadToken \in 0 .. MaxLoads /\ \A c \in calls : c.load \in 0 .. settingsLoadToken
  /\ form \in {0, settingsLoadToken} /\ loading \in BOOLEAN /\ ~ (loading /\ form # 0)
  /\ options \in Selections /\ picked \in options \cup {"none"} /\ edited \in BOOLEAN
  /\ summary \in {"none", "failed", "empty", "filled"}
  /\ statusPollHandle \in 0 .. settingsLoadToken /\ timers \subseteq 1 .. settingsLoadToken

\* "the fields shown always match what the sidecar actually holds (including
\* what the environment overrode)" (main.ts, loadSettingsView), as far as the
\* field can: it shows the adapter that is held, or none if that one is not
\* listed, and never another, whatever loads and saves overtook each other:
\* unless the player is changing the field, or a save the reader has carried
\* out is not drawn yet.
FieldsMatchWhatIsHeld ==
  (form # 0 /\ ~ edited /\ \A c \in calls : c.ask # "saved") => picked = Shown(held, options)

\* Only one interval runs, and it is the one that leaving the screen stops: a
\* form that was replaced is not polled for ever (main.ts, loadSettingsView).
OneInterval == timers \subseteq {statusPollHandle}

\* "Loading settings" ends, however often the player leaves and comes back and
\* whichever load answers last (main.ts, loadSettingsView).
LoadingEnds == loading ~> ~ loading

\* "Poll while this view is open so files/rows climb visibly": a capture shows
\* in the counters of a form that stays on the screen and is the newest load.
RowsClimb ==
  (rows = "filled" /\ FormIsShown /\ form = statusPollHandle)
    ~> (summary \in {"filled", "failed"} \/ ~ FormIsShown \/ form # statusPollHandle)

-----------------------------------------------------------------------------
(* Claims of the code's comments that the code does not keep.              *)

\* The same claim to the letter: an adapter that is held is shown.
FieldShowsTheAdapterHeld ==
  (form # 0 /\ ~ edited /\ \A c \in calls : c.ask # "saved") => picked = held

\* "Poll while this view is open so files/rows climb visibly": a form that is
\* shown, and whose own load has ended, is polled.
ShownFormIsPolled ==
  (FormIsShown /\ \A c \in calls : ~ (c.load = form /\ c.got = "first")) => form \in timers

\* "it is impossible to switch away from settings without stopping the poll,
\* regardless of which other view is shown next".
LeavingStopsThePoll == timers # {} => active = "settings"
=============================================================================
