--------------------------- MODULE QueryCacheProofs ---------------------------
(***************************************************************************)
(* Whatever the queries, the changes and the keys they name: a screen on   *)
(* the page whose browser was told of a change settles on the new answer.  *)
(***************************************************************************)
EXTENDS MCCache, TLAPS

\* Who may have written when: nothing is published or told before the change
\* landed, and a save of this browser's own lands once.
Sequence ==
  /\ ~ written => (due = {} /\ heard = {})
  /\ save \in {"landed", "done"} => written
  /\ ~ mine => save = "idle"
  /\ (mine /\ save \in {"idle", "sent"}) => ~ written

\* What telling leaves behind until the new answer is there: no request from
\* before the change is believed in, and an old answer is marked.
Marked ==
  (Told /\ ~ overtaken) => (fetch # "old" /\ (data = "old" => stale))

CacheInv == TypeOK /\ Sequence /\ Marked

-----------------------------------------------------------------------------

\* What a behaviour is about never changes.
LEMMA SubjectStays == [Next]_vars => UNCHANGED subject
  BY DEF Next, vars, subject, Mount, Unmount, Reads, Answers, FetchFails, AsksAgain, Collect,
         Mutate, Lands, Succeeds, SaveFails, ElsewhereChanges, Hears, NoticeLost, RefreshAll

LEMMA ReachedStays ==
  ASSUME UNCHANGED subject, NEW keys
  PROVE  Reached(keys)' <=> Reached(keys)
  BY DEF Reached, subject

\* Nobody is told of the change but by its save or by a notice.
LEMMA ToldStays ==
  ASSUME UNCHANGED subject, save' = save, heard' = heard
  PROVE  Told' <=> Told
  BY DEF Told, Reached, subject

\* The queries on the page that must ask have asked (the last part of TypeOK).
LEMMA InvalidateAsks ==
  ASSUME TypeOK, NEW keys, InvalidateOnly(keys)
  PROVE  /\ fetch' \in {"none", "asked", "old", "new"} /\ stale' \in BOOLEAN
         /\ overtaken' \in BOOLEAN
         /\ (mounted' /\ MustAsk' /\ fetch' = "none") => errored'
  BY DEF TypeOK, InvalidateOnly, Invalidate, MustAsk

\* A key that reaches the query leaves nothing old that could be taken for new.
LEMMA InvalidateMarks ==
  ASSUME TypeOK, NEW keys, InvalidateOnly(keys), Reached(keys), written
  PROVE  ~ overtaken' => (fetch' # "old" /\ (data' = "old" => stale'))
  BY DEF TypeOK, InvalidateOnly, Invalidate

\* Any other key takes no mark away and brings no old request.
LEMMA InvalidateKeeps ==
  ASSUME TypeOK, NEW keys, InvalidateOnly(keys)
  PROVE  /\ overtaken => overtaken'
         /\ stale => stale'
         /\ fetch' = "old" => fetch = "old"
         /\ data' = data
  BY DEF TypeOK, InvalidateOnly, Invalidate

-----------------------------------------------------------------------------

LEMMA CacheInit == Init => CacheInv
  BY DEF Init, CacheInv, TypeOK, Sequence, Marked, MustAsk

LEMMA CacheStep == CacheInv /\ [Next]_vars => CacheInv'
<1> SUFFICES ASSUME CacheInv, [Next]_vars PROVE CacheInv'
  OBVIOUS
<1>0. UNCHANGED subject
  BY SubjectStays
<1>t. Topics' = Topics
  BY <1>0 DEF Topics, subject
<1>u. (save' = save /\ heard' = heard) => (Told' <=> Told)
  BY <1>0, ToldStays
<1>k. save' # "done" /\ heard' = heard => (Told' => Told)
  BY <1>0 DEF Told, Reached, subject
<1>1. CASE Mount
  <2>1. TypeOK'
    BY <1>1, <1>0, <1>t DEF Mount, CacheInv, TypeOK, MustAsk, MayAsk, subject, telling
  <2>2. Sequence'
    BY <1>1, <1>0 DEF Mount, CacheInv, Sequence, subject, telling
  <2>3. Marked'
    BY <1>1, <1>u DEF Mount, CacheInv, TypeOK, Sequence, Marked, telling
  <2> QED
    BY <2>1, <2>2, <2>3 DEF CacheInv
<1>2. CASE Unmount
  <2>1. TypeOK'
    BY <1>2, <1>0, <1>t DEF Unmount, CacheInv, TypeOK, MustAsk, subject, telling
  <2>2. Sequence'
    BY <1>2, <1>0 DEF Unmount, CacheInv, Sequence, subject, telling
  <2>3. Marked'
    BY <1>2, <1>u DEF Unmount, CacheInv, TypeOK, Sequence, Marked, telling
  <2> QED
    BY <2>1, <2>2, <2>3 DEF CacheInv
<1>3. CASE Reads
  <2>1. TypeOK'
    BY <1>3, <1>0, <1>t DEF Reads, CacheInv, TypeOK, MustAsk, subject, telling
  <2>2. Sequence'
    BY <1>3, <1>0 DEF Reads, CacheInv, Sequence, subject, telling
  <2>3. Marked'
    BY <1>3, <1>u DEF Reads, CacheInv, TypeOK, Sequence, Marked, telling, Told
  <2> QED
    BY <2>1, <2>2, <2>3 DEF CacheInv
<1>4. CASE Answers
  <2>1. TypeOK'
    BY <1>4, <1>0, <1>t DEF Answers, CacheInv, TypeOK, MustAsk, subject, telling
  <2>2. Sequence'
    BY <1>4, <1>0 DEF Answers, CacheInv, Sequence, subject, telling
  <2>3. Marked'
    BY <1>4, <1>u DEF Answers, CacheInv, TypeOK, Sequence, Marked, telling
  <2> QED
    BY <2>1, <2>2, <2>3 DEF CacheInv
<1>5. CASE FetchFails
  <2>1. TypeOK'
    BY <1>5, <1>0, <1>t DEF FetchFails, CacheInv, TypeOK, MustAsk, subject, telling
  <2>2. Sequence'
    BY <1>5, <1>0 DEF FetchFails, CacheInv, Sequence, subject, telling
  <2>3. Marked'
    BY <1>5, <1>u DEF FetchFails, CacheInv, TypeOK, Sequence, Marked, telling
  <2> QED
    BY <2>1, <2>2, <2>3 DEF CacheInv
<1>6. CASE AsksAgain
  <2>1. TypeOK'
    BY <1>6, <1>0, <1>t DEF AsksAgain, CacheInv, TypeOK, MustAsk, MayAsk, subject, telling
  <2>2. Sequence'
    BY <1>6, <1>0 DEF AsksAgain, CacheInv, Sequence, subject, telling
  <2>3. Marked'
    BY <1>6, <1>u DEF AsksAgain, CacheInv, TypeOK, Sequence, Marked, telling
  <2> QED
    BY <2>1, <2>2, <2>3 DEF CacheInv
<1>7. CASE Collect
  <2>1. TypeOK'
    BY <1>7, <1>0, <1>t DEF Collect, CacheInv, TypeOK, MustAsk, subject, telling
  <2>2. Sequence'
    BY <1>7, <1>0 DEF Collect, CacheInv, Sequence, subject, telling
  <2>3. Marked'
    BY <1>7, <1>u DEF Collect, CacheInv, TypeOK, Sequence, Marked, telling
  <2> QED
    BY <2>1, <2>2, <2>3 DEF CacheInv
<1>8. CASE Mutate
  BY <1>8, <1>0, <1>t, <1>k
     DEF Mutate, CacheInv, TypeOK, Sequence, Marked, MustAsk, subject, cache
<1>9. CASE Lands
  BY <1>9, <1>0, <1>t, <1>k
     DEF Lands, Publishes, CacheInv, TypeOK, Sequence, Marked, MustAsk, subject, cache
<1>10. CASE Succeeds
  <2> USE <1>10, <1>0, <1>t DEF CacheInv
  <2>1. TypeOK'
    BY InvalidateAsks DEF Succeeds, TypeOK, InvalidateOnly, subject
  <2>2. Sequence'
    BY DEF Succeeds, Sequence, subject
  <2>3. CASE Reached(change.tells)
    <3>1. ~ overtaken' => (fetch' # "old" /\ (data' = "old" => stale'))
      BY <2>3, InvalidateMarks DEF Succeeds, Sequence
    <3> QED
      BY <2>1, <2>2, <3>1 DEF Marked
  <2>4. CASE ~ Reached(change.tells)
    <3>1. Told' => Told
      BY <2>4, ReachedStays DEF Succeeds, Told, subject
    <3> QED
      BY <2>1, <2>2, <3>1, InvalidateKeeps DEF Succeeds, Marked
  <2> QED
    BY <2>3, <2>4
<1>11. CASE SaveFails
  BY <1>11, <1>0, <1>t, <1>k
     DEF SaveFails, CacheInv, TypeOK, Sequence, Marked, MustAsk, subject, cache
<1>12. CASE ElsewhereChanges
  BY <1>12, <1>0, <1>t, <1>u
     DEF ElsewhereChanges, Publishes, CacheInv, TypeOK, Sequence, Marked, MustAsk, subject, cache
<1>13. CASE Hears
  <2> USE <1>0, <1>t DEF CacheInv
  <2> PICK topic \in due :
        /\ due' = due \ {topic} /\ heard' = heard \cup {topic}
        /\ InvalidateOnly(queryKeysForTopic(topic))
        /\ UNCHANGED <<subject, save, written>>
    BY <1>13 DEF Hears
  <2>1. TypeOK'
    BY InvalidateAsks DEF TypeOK, InvalidateOnly, subject
  <2>2. Sequence'
    BY DEF Sequence, subject
  <2>3. CASE Reached(queryKeysForTopic(topic))
    <3>1. ~ overtaken' => (fetch' # "old" /\ (data' = "old" => stale'))
      BY <2>3, InvalidateMarks DEF Sequence
    <3> QED
      BY <2>1, <2>2, <3>1 DEF Marked
  <2>4. CASE ~ Reached(queryKeysForTopic(topic))
    <3>1. Told' => Told
      BY <2>4, ReachedStays DEF Told, subject
    <3> QED
      BY <2>1, <2>2, <3>1, InvalidateKeeps DEF Marked
  <2> QED
    BY <2>3, <2>4
<1>14. CASE NoticeLost
  BY <1>14, <1>0, <1>t, <1>u
     DEF NoticeLost, CacheInv, TypeOK, Sequence, Marked, MustAsk, subject, cache
<1>15. CASE RefreshAll
  <2> USE <1>15, <1>0, <1>t DEF CacheInv
  <2>1. TypeOK'
    BY InvalidateAsks DEF RefreshAll, TypeOK, InvalidateOnly, subject, telling
  <2>2. Sequence'
    BY DEF RefreshAll, Sequence, subject, telling
  <2>3. Told' => Told
    BY ReachedStays DEF RefreshAll, Told, subject, telling
  <2> QED
    BY <2>1, <2>2, <2>3, InvalidateKeeps DEF RefreshAll, Marked
<1>16. CASE UNCHANGED vars
  BY <1>16, <1>0, <1>t, <1>u
     DEF vars, CacheInv, TypeOK, Sequence, Marked, MustAsk, subject, telling, cache
<1> QED
  BY <1>1, <1>2, <1>3, <1>4, <1>5, <1>6, <1>7, <1>8, <1>9, <1>10, <1>11, <1>12, <1>13,
     <1>14, <1>15, <1>16 DEF Next

\* The strengthened invariant of the cache holds in every reachable state.
THEOREM CacheSound == Spec => []CacheInv
  BY CacheInit, CacheStep, PTL DEF Spec

\* Every reachable state of the cache is well typed, and a query on the page
\* without an answer it may show has a request out or says that it failed.
THEOREM CacheTypeCorrect == Spec => []TypeOK
<1>1. CacheInv => TypeOK
  BY DEF CacheInv
<1> QED
  BY <1>1, CacheSound, PTL

\* A screen on the page whose browser was told of a change under its key never
\* settles on an answer from before it, for any queries, changes, topics and
\* keys (App.tsx and the onSuccess of every mutation).
THEOREM ToldIsShown == Spec => []ToldScreensAreCurrent
<1>1. CacheInv => ToldScreensAreCurrent
  BY DEF CacheInv, TypeOK, Marked, ToldScreensAreCurrent, Settled, MustAsk
<1> QED
  BY <1>1, CacheSound, PTL

\* What a behaviour is about, from its beginning on.
SubjectInv == /\ change \in Changes /\ screen \in Screens /\ change.writes \cap screen.reads # {}
              /\ mine => change.by = "reader"

\* Where the lists of queries, of changes and of topics agree, a change that
\* was saved here or is heard of from elsewhere brings every screen that reads
\* what it wrote up to date, but for those listed as overlooked: for any lists.
THEOREM NamedScreensAreReached == EveryScreenIsNamed => (Spec => []ChangesReachTheirScreens)
<1> SUFFICES ASSUME EveryScreenIsNamed  PROVE Spec => []ChangesReachTheirScreens
  OBVIOUS
<1>1. Init => SubjectInv
  BY DEF Init, SubjectInv
<1>2. SubjectInv /\ [Next]_vars => SubjectInv'
  BY SubjectStays DEF SubjectInv, subject
<1>3. CacheInv /\ ToldScreensAreCurrent /\ SubjectInv => ChangesReachTheirScreens
  <2> SUFFICES ASSUME CacheInv, ToldScreensAreCurrent, SubjectInv
               PROVE  ChangesReachTheirScreens
    OBVIOUS
  <2>1. ASSUME save = "done", Settled, <<change.name, screen.key>> \notin SaveOverlooks
        PROVE  data = "new"
    <3>1. mine
      BY <2>1 DEF CacheInv, Sequence
    <3>2. \E k \in change.tells : Under(screen.key, k)
      BY <2>1, <3>1 DEF SubjectInv, EveryScreenIsNamed
    <3> QED
      BY <2>1, <3>2 DEF Told, Reached, ToldScreensAreCurrent
  <2>2. ASSUME Settled, NEW table \in change.writes \cap screen.reads \cap DOMAIN TopicOf,
               TopicOf[table] \in heard, <<TopicOf[table], screen.key>> \notin TopicOverlooks
        PROVE  data = "new"
    <3>1. \E k \in queryKeysForTopic(TopicOf[table]) : Under(screen.key, k)
      BY <2>2 DEF SubjectInv, EveryScreenIsNamed
    <3> QED
      BY <2>2, <3>1 DEF Told, Reached, ToldScreensAreCurrent
  <2> QED
    BY <2>1, <2>2 DEF ChangesReachTheirScreens, SavesReach, NoticesReach
<1> QED
  BY <1>1, <1>2, <1>3, CacheSound, ToldIsShown, PTL DEF Spec
=============================================================================
