------------------------------ MODULE QueryCache ------------------------------
(***************************************************************************)
(* How a change reaches the screens of the dashboard that show it.  The    *)
(* browser keeps the answer of every query (TanStack Query) and asks again *)
(* when told to: the mutation that made the change names the keys it       *)
(* affects, and a row of data_change_notifications, received over a        *)
(* websocket, names a topic that stands for keys (lib/realtime.ts).        *)
(*                                                                         *)
(* A behaviour is about one change and one query that reads what it        *)
(* writes, in one browser; the change is made in this browser or           *)
(* elsewhere.  What is asked and answered is old or new: from before the   *)
(* change landed or after.  The cache itself is a library; its actions     *)
(* are what the code relies on it for.                                     *)
(***************************************************************************)
EXTENDS Sequences, Naturals

CONSTANTS
  Screens,        \* queries: [key, reads, life]
  Changes,        \* what writes the tables: [name, by, writes, tells]
  TopicOf,        \* the topic a table's notify trigger publishes, for tables that have one
  TopicQueryKeys  \* the keys a topic stands for, for topics that stand for any

VARIABLES
  change, screen, mine,   \* what the behaviour is about; mine: made in this browser
  save,                   \* the mutation, when it is
  written,                \* the database has the change
  due, heard,             \* topics of its data_change_notifications: on their way, arrived
  mounted,                \* a component showing the query is on the page
  data, fetch,            \* the cached answer, and the request that is out
  stale,                  \* invalidated
  errored,                \* the last request failed
  overtaken               \* told of the change while a request from before it was out

subject == <<change, screen, mine>>
cache == <<mounted, data, fetch, stale, errored, overtaken>>
telling == <<save, written, due, heard>>
vars == <<subject, telling, cache>>

-----------------------------------------------------------------------------

\* Invalidation is by prefix: <<"player">> names every open player.
Under(key, prefix) == Len(prefix) <= Len(key) /\ SubSeq(key, 1, Len(prefix)) = prefix

Reached(keys) == \E k \in keys : Under(screen.key, k)

Topics == {TopicOf[t] : t \in change.writes \cap DOMAIN TopicOf}

queryKeysForTopic(topic) == IF topic \in DOMAIN TopicQueryKeys THEN TopicQueryKeys[topic] ELSE {}

Init ==
  /\ change \in Changes /\ screen \in Screens /\ mine \in BOOLEAN
  /\ change.writes \cap screen.reads # {}
  /\ mine => change.by = "reader"
  /\ save = "idle" /\ written = FALSE /\ due = {} /\ heard = {}
  /\ mounted = FALSE /\ data = "none" /\ fetch = "none"
  /\ stale = FALSE /\ errored = FALSE /\ overtaken = FALSE

-----------------------------------------------------------------------------
(* The cache.                                                              *)

\* The keys become stale; a query on the page asks again, a request that is
\* out being dropped unless it is the first one for the query; a query off
\* the page is only marked, and a request it has out goes on.
Invalidate(keys) ==
  IF Reached(keys) /\ (mounted \/ data # "none" \/ fetch # "none" \/ errored)
  THEN /\ stale' = TRUE
       /\ fetch' = IF mounted /\ (fetch = "none" \/ data # "none") THEN "asked" ELSE fetch
       /\ overtaken' = (overtaken \/ (written /\ fetch' = "old"))
  ELSE UNCHANGED <<stale, fetch, overtaken>>

InvalidateOnly(keys) == Invalidate(keys) /\ UNCHANGED <<mounted, data, errored>>

\* The query asks unprompted for want of an answer it may show.
MustAsk == data = "none" \/ stale

\* An answer older than its staleTime is asked for again too; time is not
\* counted, so any answer may be, unless its query says that it never is.
MayAsk == MustAsk \/ screen.life # "kept"

\* The reader opens a screen: what the cache has is shown at once.
Mount ==
  /\ ~ mounted /\ mounted' = TRUE
  /\ \/ fetch = "none" /\ MayAsk /\ fetch' = "asked"
     \/ (fetch # "none" \/ ~ MustAsk) /\ UNCHANGED fetch
  /\ UNCHANGED <<subject, telling, data, stale, errored, overtaken>>

Unmount == mounted /\ mounted' = FALSE /\ UNCHANGED <<subject, telling, data, fetch, stale, errored, overtaken>>

\* The database answers from what it holds at that moment.
Reads ==
  /\ fetch = "asked" /\ fetch' = IF written THEN "new" ELSE "old"
  /\ UNCHANGED <<subject, telling, mounted, data, stale, errored, overtaken>>

Answers ==
  /\ fetch \in {"old", "new"} /\ data' = fetch /\ fetch' = "none"
  /\ stale' = FALSE /\ errored' = FALSE
  /\ overtaken' = (overtaken /\ fetch = "old")
  /\ UNCHANGED <<subject, telling, mounted>>

\* After its retry; what was cached and whether it was marked stay.
FetchFails ==
  /\ fetch # "none" /\ fetch' = "none" /\ errored' = TRUE
  /\ UNCHANGED <<subject, telling, mounted, data, stale, overtaken>>

\* The network comes back, or the query has a refetchInterval.
AsksAgain ==
  /\ mounted /\ fetch = "none" /\ MayAsk /\ fetch' = "asked"
  /\ UNCHANGED <<subject, telling, mounted, data, stale, errored, overtaken>>

\* Mutant: a screen that stays open is collected as well.
CollectShown ==
  /\ fetch = "none" /\ (data # "none" \/ errored)
  /\ data' = "none" /\ stale' = FALSE /\ errored' = FALSE /\ overtaken' = FALSE
  /\ UNCHANGED <<subject, telling, mounted, fetch>>

\* gcTime after the last screen that showed it was left.
Collect ==
  /\ ~ mounted /\ fetch = "none" /\ (data # "none" \/ errored)
  /\ data' = "none" /\ stale' = FALSE /\ errored' = FALSE /\ overtaken' = FALSE
  /\ UNCHANGED <<subject, telling, mounted, fetch>>

-----------------------------------------------------------------------------
(* The change, and those who are told of it.                               *)

\* The triggers, in the transaction that writes: a row for every topic.
Publishes == due' = Topics /\ UNCHANGED heard

Mutate ==
  /\ mine /\ save = "idle" /\ save' = "sent"
  /\ UNCHANGED <<subject, written, due, heard, cache>>

Lands ==
  /\ save = "sent" /\ save' = "landed" /\ written' = TRUE /\ Publishes
  /\ UNCHANGED <<subject, cache>>

\* Mutant: the keys are named when the request goes out.
SucceedsEarly ==
  \/ /\ save = "sent" /\ save' = "done" /\ InvalidateOnly(change.tells)
     /\ written' = TRUE /\ Publishes /\ UNCHANGED subject
  \/ save = "landed" /\ save' = "done" /\ UNCHANGED <<subject, written, due, heard, cache>>

\* onSuccess.
Succeeds ==
  /\ save = "landed" /\ save' = "done" /\ InvalidateOnly(change.tells)
  /\ UNCHANGED <<subject, written, due, heard>>

\* onError: refused, or written with the answer lost; no key is named.
SaveFails ==
  /\ save \in {"sent", "landed"} /\ save' = "failed"
  /\ UNCHANGED <<subject, written, due, heard, cache>>

ElsewhereChanges ==
  /\ ~ mine /\ ~ written /\ written' = TRUE /\ Publishes
  /\ UNCHANGED <<subject, save, cache>>

\* Mutant: what is on the page is marked and not asked for.
HearsMarksOnly ==
  \E topic \in due :
    /\ due' = due \ {topic} /\ heard' = heard \cup {topic}
    /\ stale' = (stale \/ Reached(queryKeysForTopic(topic)))
    /\ UNCHANGED <<subject, save, written, mounted, data, fetch, errored, overtaken>>

\* The subscriber in App.tsx: one row, one topic.
Hears ==
  \E topic \in due :
    /\ due' = due \ {topic} /\ heard' = heard \cup {topic}
    /\ InvalidateOnly(queryKeysForTopic(topic))
    /\ UNCHANGED <<subject, save, written>>

\* Inserted while the websocket is reconnecting.
NoticeLost ==
  \E topic \in due :
    due' = due \ {topic} /\ UNCHANGED <<subject, save, written, heard, cache>>

\* The refresh button; signing in or out; another alliance chosen.
RefreshAll == InvalidateOnly({<<>>}) /\ UNCHANGED <<subject, telling>>

-----------------------------------------------------------------------------

Next ==
  \/ Mount \/ Unmount \/ Reads \/ Answers \/ FetchFails \/ AsksAgain \/ Collect
  \/ Mutate \/ Lands \/ Succeeds \/ SaveFails \/ ElsewhereChanges
  \/ Hears \/ NoticeLost \/ RefreshAll

Spec == Init /\ [][Next]_vars

\* The database answers and its answers arrive; nobody presses refresh faster
\* than answers come for ever (a dropped request is asked again, hence SF).
FairSpec == Spec /\ WF_vars(Reads) /\ SF_vars(Answers)

-----------------------------------------------------------------------------

\* Types, and: a query on the page without an answer to show, or with one it
\* was told not to trust, has a request out or says that its last one failed.
TypeOK ==
  /\ change \in Changes /\ screen \in Screens /\ mine \in BOOLEAN
  /\ save \in {"idle", "sent", "landed", "done", "failed"} /\ written \in BOOLEAN
  /\ due \subseteq Topics /\ heard \subseteq Topics /\ due \cap heard = {}
  /\ mounted \in BOOLEAN /\ data \in {"none", "old", "new"}
  /\ fetch \in {"none", "asked", "old", "new"}
  /\ stale \in BOOLEAN /\ errored \in BOOLEAN /\ overtaken \in BOOLEAN
  /\ (mounted /\ MustAsk /\ fetch = "none") => errored

\* This browser has been told of the change under a key the query is filed by.
Told ==
  \/ save = "done" /\ Reached(change.tells)
  \/ \E topic \in heard : Reached(queryKeysForTopic(topic))

\* Nothing is out and nothing went wrong on the way.
Settled == mounted /\ fetch = "none" /\ ~ errored /\ ~ overtaken

\* A screen on the page whose browser was told of a change under its key does
\* not settle on an answer from before the change, however screens were opened
\* and left, requests dropped and answers collected meanwhile (App.tsx,
\* RefreshButton.tsx and the onSuccess of every mutation).
ToldScreensAreCurrent == (Told /\ Settled) => data = "new"

\* Being told ends in the new answer on the page (App.tsx: "a new capture
\* invalidates the keys it affects immediately"), unless the reader leaves,
\* the request fails or was overtaken.
TellingEndsInNews == Told ~> data = "new" \/ ~ mounted \/ errored \/ overtaken
=============================================================================
