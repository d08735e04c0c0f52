# A specification of the Dark War platform

The platform watches a game client's own traffic on a PC, turns it into facts, delivers
them to Supabase, and shows them to the members of an alliance, who also plan, vote, write
and administer there. What can go wrong without anybody noticing happens between the
parts: packets, threads, SQLite processes and HTTP requests that fail halfway; answers that
arrive after the screen has moved on; lists of keys, links and permissions that are kept by
hand in several places. This directory models those parts in TLA+, checks them with TLC and
proves the central promises with TLAPS. `C/` below is `services/collector/src/dw_collector/`,
`D/` is `apps/dashboard/src/`.

## The system

| Part | State | Operations | Talks to | Hard about it | Correct when |
|---|---|---|---|---|---|
| Reassembler `C/protocol/pcapng.py` | expected byte, waiting chunks, age of the gap | `feed` | capture session | loss, repetition, reordering, a gap given up | bytes in order, at most once; holes counted |
| Capture session, sniffer `C/capture/` | streams, counters | `feed`, `_record` | reassembler, journal | runs on the pump's thread | every complete frame journalled |
| Capture pump `C/capture/pump.py` | bounded queue, worker, stored failure | `submit`, `_drain`, `close` | sniffer thread, journal | full queue, dead worker, shutdown order | nothing dropped, failures surface |
| Capture ingestion `C/ingest.py`, `C/cli.py` | files already read | `ingest-dir`, `replay`, `backfill` | journal | crash between records and mark | replays harmless |
| Edge journal `C/storage/journal.py` | observations, rows, outbox, shapes | `record`, `mark_*`, `defer`, `retry_outbox`, `prune` | every process on the PC | several processes, transactions apart | nothing accepted is lost; facts keep their source |
| Sync worker `C/sync/` | a batch in memory | `drain_once` | journal, Supabase | partial upserts, lost answers, outages, two workers | sent means delivered; at least once; parents first |
| Job worker `C/jobs/` | a batch; `refresh_jobs` in the cloud | `candidates`, `claim`, `run_claimed` | Supabase, UI worker | races, lost answers, crash, kill switch | one runner; finished stays finished |
| Desktop window `apps/desktop/src/` | shown view, settings form, interval | navigate, load, save, poll | sidecar (`invoke`) | overlapping loads, late answers | fields match what is held; loading ends |
| Cloud tables `supabase/migrations/` | rows and references | insert, upload, delete, leave, purge | everybody | cascades, triggers, missing parents | no delete refused or reaching too far |
| Query cache `D/lib/realtime.ts`, `D/App.tsx` and every `useQuery`, `useMutation` | answers per key | fetch, invalidate, notice | Supabase, websocket | old answers, lost notices, keys kept by hand | a screen that was told is current |
| Forms `D/features/**` | draft, request out | type, send, refill | query cache | late answers, double presses, other officers | last word stands, typing stays, nothing twice |
| Hive editor `D/features/hive/` | drawing, people on it, window of the map, gesture | some thirty tools and gestures | hive board | tools in any order, boards read again under a drawing | bases apart, one place each, one edit per press |
| Hive board (0165, 0177) | slots of a formation | save the shape, save the people | editor, other officers | two calls, failures between, second officer | ids name one ground, nobody misplaced |
| Navigation `D/lib/route.ts`, `shellNav.ts`, `adminAccess.ts`, `App.tsx` | address, role, permissions, hidden tabs | follow, type, answers | session, permissions | lists written apart, answers in any order | a link opens what it names |
| Sign-in `D/features/auth/`, `returnTo.ts` | token, session query, page to return to | sign in, out, redeem, reload | Supabase auth | late session, two accounts | the wanted page is reached, once |
| UI worker, gift-code sender, notifications, iPhone fleet, sidecar, bots | – | – | – | – | see *Not modelled* |

Packets go sniffer → pump → session → reassembler → journal; rows go journal → sync
worker → Supabase; an inserted row is announced over a websocket and the dashboard asks
again; what readers and officers change goes back through PostgREST and cascades and
triggers of the database; refresh jobs go dashboard → Supabase → job worker → game, whose
answers come back as packets. The journal is the meeting point on the PC, the tables the
one in the cloud, and the query cache the one in the browser.

`PROJECT.json` lists the hazards of this code with the line where each bites and the
properties aimed at it.

## The modules

| Module | Models | Composed in |
|---|---|---|
| `EdgeJournal` | the journal, one action per committed transaction | `OutboxSync` |
| `OutboxSync` | the journal with any number of sync workers and an unreliable cloud | `MCOutboxSync` |
| `AtLeastOnceDelivery` | what the two promise together, without processes or tables | refined by `OutboxSync` |
| `SegmentPump`, `Reassembler`, `DesktopWindow` | the hand-over between threads; one direction of a connection; the window | `MCCapture` |
| `JobQueue` | the refresh-job queue and its workers | – |
| `HiveTiles`, `HiveEditor` | geometry of a formation; the drawing and the people on it | `HiveSave`, `MCDraw` |
| `HiveSave` | the board, the two calls of a save, a second officer | `MCHive` |
| `TileGrid` | the map's window and what one pointer means on it | `MCScreens` (with `MCDraw`) |
| `QueryCache` | one change, one query that reads what it writes, one browser | `MCCache` |
| `AllianceScreens`, `DashboardScreens`, `DashboardChanges` | every query with its key and the tables it reads; every change with the tables it writes and the keys it names | `MCCache` |
| `EditForm`, `DashboardForms` | a form by its habits; every form and switch | `MCForms` |
| `CloudSchema`, `CloudRows` | every table with its references; inserting, uploading, deleting, leaving, ageing | run directly |
| `Routes`, `Navigation`, `SigningIn` | addresses; what is drawn, offered and marked; the way in | `MCNavigation` |
| `OutboxSyncProofs`, `JobQueueProofs`, `CaptureProofs`, `FormsProofs`, `QueryCacheProofs`, `NavigationProofs` | theorems about the module of that name, or about its MC module where that composes it | – |
| `HiveProofs` | theorems about `HiveEditor`, `HiveSave` and `MCScreens` | – |
| `CloudProofs` | theorems about `CloudRows` | – |

Components that share no state are put into one run with a variable that says which of
them a behaviour is about (`part`, `side`): every behaviour of such a run is a behaviour of
one component, and stuttering of the others cannot hide a deadlock, which is not checked.

### EdgeJournal and OutboxSync

A row is its idempotency key; `rows[k]` is the observation that `normalized_rows` files it
under and `outbox[k]` its outbox entry with the autoincrement `id`. `RowsOf[v][o]` is what
parser version `v` makes of observation `o`, so two observations can yield one key and a
release can find new rows in old observations. `journalled` is a history variable: every
key the journal ever accepted. The wall clock is a small counter, and a backoff only says
that it has not elapsed (`due`).

Each `with self.conn` block is one action. `prune` is six: SQLite commits its temporary
tables and each of its deletes separately, and other processes write in between;
`PruneRaw` fails as the foreign key makes it fail, `PruneCrash` drops the temporary tables.
`Record` is disabled where the code would raise (`Conflict`). A drain is split at every
place another process can act: reading the batch, registering, the upsert of each table,
the journal write that settles it. A rejected or unreachable upsert may leave any part of
its rows in the cloud. Settling goes by entry id, as the code does.

Simplifications: rows of one transaction have no order among themselves; servers,
alliances and players that an upsert creates on the way belong to that upsert (`CloudRows`
looks at that order); two prunes do not run at once; `mark_failed` is one step, while the
code reads the attempts of its first row before its transaction begins (`journal.py:372`), so
that a retry in between would be undone for that row.

### SegmentPump, Reassembler, DesktopWindow

`submit` is two steps, the look at `failure` and the put, because the worker can fail in
between. `Join` may find the worker still running: the thirty seconds are over. After
`CloseJournal` a worker that is still alive can only raise. A second Ctrl+C, a second
`close`, a killed process and the `blocked` counter are left out.

In `Reassembler` a byte is its offset, so a byte delivered twice or late shows in `fed`.
`Feed` is the whole of `feed`. Draining is a recursive function bounded by the number of
chunks. The age of a gap is none, fresh or older than the time-out.

In `DesktopWindow` a question to the sidecar is a record in `calls`, and its answer
continues the function that asked, whatever is shown by then; answers overtake each other
and may be from any moment since the question. The settings are one field, the adapter,
which the environment may pin. `options` is what its select offers: nothing, disabled, when
the adapters could not be listed, and otherwise "none" and those that were, which need not
include the one that is held; `Shown` is then what the select shows. A disabled field is not
sent (`Sent`), an empty one is. The journal is empty or filled.

### JobQueue

Every PATCH has three outcomes: applied and answered, applied with the answer lost, not
applied; the last two end the poll, because `main` catches the `HTTPError` around
`poll_once`. A worker claims with the attempt counts it read with its candidates, as the
code does. A routine is one step with an outcome.

### The hive

A tile is a rectangle of map squares; formations hold tiles as offsets from an anchor
(0169). `HiveEditor` has one action per tool, gesture and button of `FormationEditor.tsx`:
pick, sweep, block, ring, move a selection, nudge, delete, paint, drop a member, choose,
pin, fill, template, discard, and the board read again underneath. Colour stands for
everything a tile has besides ground, kind and slot. A fill by a ranking is an order that
may be any; tiles are filled from the inside out (`FillsBefore`), without the numbering by
the planner that would come first (`ordinal`, `hiveFormation.ts:606`). `HiveSave` adds the
board and the two calls of `save` (`save_layout`, then the assignment of 0177), each of
which may fail, or land and lose its answer, and another officer's saves at any point
between. `TileGrid` follows a press from `pointerdown` to the click the browser sends after
it, with pans, zooms, drags of the anchor and of members, and a picture that changes
meanwhile.

### The query cache

A behaviour is about one change and one query that reads what it writes. Answers are old
or new, from before the change landed or after. TanStack Query's part is what the code
relies on it for: an invalidated query that has an answer is asked again and its running
request is replaced; one without an answer lets the running request end (`overtaken`); an
answer that nobody shows is collected.

The screens and changes are data, read off the code: for every `useQuery` the constant part
of its key and the tables its function reads, through views and functions of the database;
for every `useMutation` the tables it writes, cascades and triggers included, and the keys
its `onSuccess` names; for every table the topic its notify trigger publishes; for every
topic the keys of `TOPIC_QUERY_KEYS`. Conventions: `app_settings` is split by setting;
comments, reads and channels are split by board, favourites into stars and scraps; names in
the registers `players` and `alliances` are not traced; of a key the parameters are those of
the change. A role is kept in `app_users` and `alliance_memberships`, of which only the first
notifies; a change about an alliance that is not the primary one writes the second alone
(`Elsewhere`, after 0193 and 0195).

### Forms

Forms differ in a few habits, written as records (`EditForm`'s header lists them): where
the draft comes from, what is sent, what bars a second press, what sending and success do
to the draft. `DashboardForms` gives each of the 78 forms and switches its record. An edit
is a number, so a value tells which edit it came from. Requests fail before or after they
were written and overtake each other; another officer saves; the page reads again. An
officer either waits for what is out or does not (`patient`).

### The cloud

`CloudSchema` has one definition per table: column, table referred to, whether it may be
null, and what deleting does, from the generated types and the last migration that states
it. `CloudRows` follows one table and everything its row refers to, one row each: inserts,
uploads in `_TABLE_ORDER` with tables that fail, every delete of the program (`Deletable`:
those of the pages, guides and notices with all that hangs off them included, and those of
functions and triggers), `leave_alliance` and `remove_member`, a deleted login, and
`retention_purge`. References are checked at the end of a statement, cascades and clears
carried out, and the triggers that pin an author put a cleared reference back. A reference
is set when the row is inserted; a reference of a table to itself is never set, since only
one row is followed.

### Navigation and sign-in

An address is the sequence of its parts. `Drawn` is what `App.tsx` and the pages draw at an
address: a screen with a tab, or a notice; `buildNav`, `Strips` and the settings give the
links, each with the screen its label names (`opens`) and whether it is marked as open.
Role, permissions, hidden tabs, our alliance and the arrangement of the events strip are
variables of their own that answer separately and change afterwards.

`SigningIn` models the sign-in page at its address and at the wall. Page and session are
drawn again, and run their effects, within the step that changes them (`Settle`). The
session query can be unanswered or stale after an account change; it is asked again when
anybody signs in or out (`App.tsx:91`), unless the header's button has dropped it with
`queryClient.clear()`. `wanted` and `told` are history variables of what the reader was
refused and what the page took them for.

## What TLC checks

| Run | Instance | Shows |
|---|---|---|
| `OutboxSync` | 2 workers, 2 observations, 2 keys, 2 parser versions, batch 2, dead letter at the 1st rejection, 2 recordings, clock 0..1 | `SentIsInCloud`, `NothingLost`, `RowHasSource`, `PruneKeepsUndelivered`; implements `AtLeastOnceDelivery` |
| `Outage` | plus a request shape, batch 1, 2 attempts, a cloud that never rejects, fairness | every pending row is delivered |
| `JobQueue` | 2 workers, 2 jobs, batch 2, 2 attempts, fairness | one runner, no rerun, finished is final, a queued job ends or is orphaned |
| `Capture` | queue of 3 and 6 segments; 10 bytes in 9 pieces of two lengths, none beginning within another, 2 chunks kept; 2 loads of the settings and 2 questions at a time | nothing dropped, a quiet exit is complete; order, holes counted; the form shows what is held if it is listed, loading ends, counters climb |
| `PumpFailureClaim` | same | a full queue hides the failure for ever (violation) |
| `Hive` | 2 squares by 2, 2 members, 2 edits, 1 save of another officer, 5 slot ids | the board keeps its keys; an id never names other ground; a save moves nobody the officer did not move |
| `Screens` | 3 squares by 3, bases of 2 by 2, 5 gestures; the pointer with 3 pictures and 2 zooms | bases apart, one place each, moving loses nobody, drawn on the map; one press is at most one edit |
| `Cache` | all 144 queries against all 100 reader's changes, four of them also for an alliance that is not the primary one, and the uploaded tables, fairness | a told screen is current; every change tells every screen but the listed ones; telling ends in news |
| `Forms` | all 78 forms, 3 edits, 2 requests | last word, typing, no double rows, others' saves, except for the listed forms |
| `Cloud` | every table of the cloud | references hold, deletes go through and take only their own, uploads meet their parents |
| `LoginClaim` | same | a deleted login is still named (violation) |
| `Navigation` | 5 roles, all capabilities or none at first, one change after that, 24 addresses besides the links; 2 accounts, 2 pages | links lead where they say, marks are true, the grid takes nothing away; the way in |

**Why the bounds are enough.** *Outbox and jobs*: two workers make every race over a row,
and a third adds nothing a pair does not do to it; one key both observations yield and one
only the newer parser finds give the shared row, the backfill and the table order; two
values of the clock separate old from new. *Capture*: a queue of three holds a segment, a
second one and the sentinel; two chunks kept let both reasons for a skip occur; two loads
are needed for one to overtake another. *Hive*: two ids in use and three fresh ones allow
two saves by one officer and one by another; the drawing's map is the smallest on which two
bases can be in each other's way, and five gestures put every pair of tools around a board
that arrives. *Cache*: one change and one query, since neither a query's freshness nor a
change's keys depend on another's. *Forms*: two requests overtake each other, the third
edit is typed while they are out. *Cloud*: one row per table follows a reference wherever
it leads; what needs two rows of one table is a self reference, and those are left out.
*Navigation*: routing, gates and marks depend on the state and not on history, so one
change from every combination of the first answers reaches the states that matter; two
accounts and two pages let an old session or an old page be mistaken for the new one.

The runs are without deadlock check: a collector with nothing left to record, or an officer
with no edits left within the bounds, has nothing to do.

**Fairness.** *Outage*: a worker drains whenever it can (`dw-sync` loops and is restarted by
the task scheduler); backoffs elapse; the network comes back, so a worker that keeps
registering and posting is answered again and again (strong, as the outage may recur);
crashes and operator retries come to an end. *JobQueue*: workers poll at each tick and are
restarted, a claim comes through now and then, backoffs elapse, a pause is lifted. *Capture*:
both threads are scheduled and packets keep coming; the interval ticks and `invoke` answers;
Ctrl+C is not assumed. *Cache*: a screen that is shown and must ask does ask; a request that
is dropped is asked again, so answering is strongly fair. *Navigation*: the session query
answers; nothing is assumed of readers, admins or the end of a session. No run assumes
fairness of failures, crashes, prunes or people.

**The listed exceptions.** `MCCache` and `MCForms` hold the exceptions as sets, so that the
property says of every other pair that it holds, and a new page or form that falls short is
a violation. They were found by the run and looked up in the code one by one.

* `SaveOverlooks`: a mutation's `onSuccess` does not name a query that reads what it writes:
  a role or a membership that changes leaves `my-alliances` and the activity scores old; a
  post that is saved or removed leaves its neighbours and the scraps; and so on. Such an
  answer is replaced when it is a minute old and its screen is opened again.
* `TopicOverlooks`: the same for notices. Besides, `lib/realtime.ts:95-101` lists
  `app_settings` as a topic, and no trigger publishes it; the keys `my-claim`,
  `overview-formulas-admin` and `announcements-admin` are named and have no query. A table
  without a notify trigger is outside the property: a role set in an alliance that is not the
  primary one is a row of `alliance_memberships`, and no other browser hears of it, although
  `app_users` has its trigger for that very case (0093:33).
* `RevertsItself`, `RevertsInHaste`: an answer from before one's own last save is saved again
  with the next, always or only when one does not wait. `ForgetsTyping`, `ForgetsHaste`: an
  answer or a success replaces what is being typed. `AddsAgain`: an insert without a key.
  `SavesUntouched`: a whole value is saved over what others saved since; in
  `ShopValuePage.tsx:79` the inline value saves an empty note over an officer's note.
* `Undrawn`, `Unwatched`, `BareHub` in `Navigation`: see the next section.
* In `CloudRows`: authors of notices and guides, and logins that are still referred to by
  `hive_formations`, `hive_formation_slots`, `hive_formation_templates`,
  `hive_map_features` or `alliance_settings`, none of which has an action on deletion.

**Conditions worth knowing.** `NothingIsLost` speaks of an exit whose join did not time out;
when it did, `main` closes the journal under the worker and the tail is lost, as the model
shows. `StreamIsSound` holds for a sender that cuts its retransmissions at the boundaries of
the first transmission (`PiecesApart`); a joined retransmission makes the next gap skip go
backwards and a byte arrives twice. That holes are counted holds for any cut. Sequence
numbers carry their modulus, and the instances stay below the 2^32 wrap, which the code does
not handle. `PruneKeepsUndelivered` is about rows undelivered when the prune read the
outbox. `WayInIsFound` (`WantedIsReached`) is about an address spelled as it is stored and a
session query that is asked again.

## What the code and its comments disagree on

Two are runs that TLC refutes, with the source lines in `PROJECT.json`:

1. *"a journal that stopped accepting writes must not look like a quiet game"*
   (`C/capture/pump.py:53`): with the queue full, `submit` or `close` waits for ever for a
   dead worker (`PumpFailureClaim`).
2. *"All nine become `set null`"* (`0094_leaving.sql:15`): the trigger that pins the author
   of a notice or guide puts back what the database clears (`LoginClaim`).

Others are stated in the modules under "Claims" and refuted by TLC when added to a
configuration, or are plain in a trace:

* `JobsStayQueued`: a claim whose answer is lost stays claimed, and nothing puts it back.
* `PausedIsNotDeadLettered`: the kill switch is read once per poll and not per job.
* `ReplayIsNoOp`: after prune has removed a row but not its delivered outbox entry,
  recording the observation again raises; `PruneRefusesUndelivered`: a row that became
  undelivered after the prune read the outbox loses its normalized row.
* `LostMembersReported`: a save whose second call fails reports nobody, although the members
  of the tiles that moved have lost theirs.
* `PressIsAClick`: a left press that never strayed picks the tile under it. After a gesture
  whose release brings no click, such as a pan that ends outside the map, the flag that was
  to eat that click eats the next one.
* `FieldShowsTheAdapterHeld`: the fields "always match what the sidecar actually holds"
  (`main.ts:607`). The adapter's select stays blank when the adapters cannot be listed or the
  one that is held is not among them. A disabled select is left out of the next save; the
  other is sent as an empty text, and the sidecar forgets the adapter.
* *"Directional in-order reassembly"* (`pcapng.py:317`): with pieces that are not
  `PiecesApart`, `InOrder` is refuted: a waiting chunk that begins within what a joined
  retransmission has delivered is stranded, and the next gap skip goes back to it.
* `ShownFormIsPolled`, `LeavingStopsThePoll`: a settings form whose first count answers after
  the player left starts an interval that the leaving was to have stopped, and a form shown
  again has none until it is loaded anew.
* Hidden tabs: `alliance`, `notices` and `guides` disappear from the sidebar and are drawn
  all the same (`App.tsx` draws them before it looks); the rules start as "all shown"; a
  screen's strip stays above the notice that it is hidden.
* *Settings › Operations › Upload queue* is listed, but its panel is drawn by the group
  *Shared*: the section opens blank.
* `#/events` always draws the Black Gold page, while the strip marks the first tab of the
  arrangement; "never hide the last tab" counts a tab that only an admin sees.
* Signing in: a page to come back to is not consumed by a sign-in at the wall through a
  provider or by a redeemed code, so a later sign-in goes there (`returnTo.ts:48`); the page
  compares the typed address with the stored one, and another spelling never matches; the
  header's sign-out leaves the sign-in page showing the old account.

## What is proved

The proofs hold for every value of the constants and assume only the named assumptions on
them, which TLC evaluates in the runs.

*Delivery* (`OutboxSyncProofs`). `SentIsInCloud` and `NothingLost` are not inductive: they
say nothing about what a worker carries between its upsert and its journal write.
`DeliveryInv` adds `SentItemsLanded` (what a worker is about to mark sent has landed),
`BatchesJournalled` and `QueuedJournalled` (what is in a batch or in the outbox was accepted
by the journal once). The proof goes action by action; the journal's operators are summed
up in lemmas about the entries they may rewrite. `TypeCorrect`, `DeliverySafe`,
`SentTellsTheTruth`, `NoLoss`; `Refinement`: every step is a step of `AtLeastOnceDelivery`
or a stutter, with the undelivered keys as custody; `FactsHaveSources`, with the foreign key
as the step that matters; `PruneSafe`, from `PruneInv`: until its first deletion, the keys a
prune found undelivered are in the outbox, their observations are held, and what is doomed
is disjoint from what is held.

*Jobs* (`JobQueueProofs`). `OwnerInv` says that a worker between claim and report owns its
row, that a completed job is succeeded or about to be reported, and that no row of a
completed job is claimable. No two workers own one row, because a row names one collector.
`Ownership`, `OneRunnerAtMost`, `NoRerun` and `FinishedStays` follow.

`RowsKeepTheirTypes` is the type part of the same induction.

*The drawing* (`HiveProofs`). `DrawnApart`: `NoSharedGround` for every map, base size,
brush and board. `NoSharedGround` itself is inductive once tiles are known to be tiles; the
work is in the geometry (overlap is symmetric, moving two tiles alike changes nothing, the
squares of a block or a ring lie apart) and in one lemma per gesture. `PlacesStayUnique`: a
slot leads to one tile and a member to one slot, from `PlacesInv`, which adds that the board
last read keeps its rows' ids, members and ground apart (`BoardsAssumption`: the board has
finitely many rows, `assign_hive_formation_slots` refuses a member named twice). Most
gestures keep the slots of the tiles they draw again (`SlotsFollow`); the hard one is `Fill`,
where two bases get two members because the order of filling is a strict total order of the
board's rows (`FillOrder`) and two rows have different numbers of rows before them
(`TurnsApart`, by cardinalities of finite sets). `HandStaysOnMap` and `MovingKeepsAll` are
action properties from the same invariant.

*Two officers* (`HiveProofs`). `BoardStaysSound`: the board keeps its keys and an id never
names other ground than an officer saw it on; `SavesSeatAsDrawn`: a save puts nobody where
they were not put. Neither is inductive: both depend on what the calls in flight carry.
`SaveInv` adds to `PlacesInv` and the board's own soundness that a layout in flight is a
shape, that the plan of a shape save seats a tile as it was drawn wherever the board has its
id now (`PlacePlanHolds`), and that the ids of a people save lie where the officer saw them
(`PeoplePlanHolds`). What carries it across another officer's calls is `GroundKept`: every
row after a call has the id and the ground of a row before it, or an id from `FreshIds`,
which no screen and no plan in flight knows. `LayoutLands` and `SeatsLand` prove that, and
the table's keys, of the two calls once, for whoever makes them.

*The screens* (`HiveProofs`). `PointerStaysSound`: a press is one edit at most, a slide is
none, and the window shows its centre, for every map, ladder of zooms and picture, from
`GridInv` (while a button is down nothing has been called; between the release and its click
whatever was called swallows the click). `GridAssumption` says that the widest window fits
the map and that the anchor is on it. The other three are those of the drawing, carried over
to the run's own specification.

*Capture* (`CaptureProofs`, about `MachineSpec`). `PumpLosesNothing`: no segment is lost or
repeated between the two threads, for any queue and any number of segments; `PumpInv` says
which number stands at each place of the queue, and that the sentinel is the last in it
until the worker takes it. `FormShowsWhatIsHeld`: the settings form shows the adapter the
sidecar holds, or none if that one is not listed, with any number of loads and questions
overtaking each other; `WindowInv` adds what the newest load has in hand
(`NewestLoadIsTrue`). `DecoderGetsTheStream`: bytes reach the decoder in order and once, for
any set of pieces that are `PiecesApart`, as *Conditions worth knowing* says; that is a
hypothesis of the theorem, not of the model. `GapsAreCounted`: holes are counted for any
cut. Both stay below the wrap (`NumbersAssumption`). A segment is drained by a recursive
function over the chunks kept; what it does is proved by induction over the natural numbers,
which is derived from their order (`LeastMember`, `InductionOverNat`).
`MachineKeepsItsTypes` is the type part of all three.

*Forms* (`FormsProofs`). `LastWordsStand`, `TypingStays`, `RowsAreAddedOnce` and
`SavesKeepToTheirOwn`, for any number of edits and of requests. A form keeps a promise because
of its habits: `FormInv` is about habits (requests carry the last words, a draft holds what
was typed, what is at hand was completed after everything that is out), and the names of the
forms occur only where the habits of all of them are looked up, so a form that is added is
covered once its record is. `TheForms` says that the records are those of `DashboardForms`.

*The cloud* (`CloudProofs`). What the schema is like is looked up once, table by table
(`SchemaFits`): where references lead, which may be null, what may drag what, who holds on to
whom. The rest goes by that alone. A cascade leads from a lower `Level` to a higher one, of
which there are four, so the layers a delete grows by stop growing and what it takes is the
least set closed under the cascades (`TakenIs`). From there `DeletesTakeTheirOwn` asks only
that a row and its parts are closed, `NoDeleteIsRefused` that nothing anybody holds on to is
among them, and `ReferencesAlwaysHold` that what is left refers to nothing that went unless
the column is cleared (`RemainingReferences`). `ParentsGoFirst` needs more of the past:
`CloudInv` says that the entries of an arena wait together with their snapshot, or it is
there, or it has aged out; and the first of a queue really is the least by `TABLE_ORDER`
(`FirstIsLeast`).

*The cache* (`QueryCacheProofs`). `ToldIsShown`: `ToldScreensAreCurrent` for any queries,
changes and keys. The invariant `CacheInv` adds what telling leaves behind until the new
answer is there: no request from before the change is believed in, and an old answer is
marked (`Marked`), with the order of writing, publishing and hearing (`Sequence`).
`CacheSound` is its induction, `CacheTypeCorrect` the type part. `NamedScreensAreReached`
carries it over to saves and notices: wherever the lists of queries, changes and topics agree
(`EveryScreenIsNamed`), every screen that shows what a change wrote is brought up to date. The
lists are looked at nowhere else, so a query that is added is covered once its record is; that
the dashboard's own lists agree, but for the listed exceptions, is what TLC compares.

*Signing in* (`NavigationProofs`). `AnswersMoveOnce`, for any accounts and pages: an answer
of the session query moves nobody who has something to do where they are, and it moves
nobody twice. Whom an answer moves depends on what the page still expects, and `WayInv` says
so: a page that waits for an answer has no account yet (`Waits`), one that has taken the
reader for a viewer does not expect to leave any more (`SettledOn`), and the page is open
exactly where it is shown (`Shown`). Every step but those that draw nothing goes through
`Settle`, so `SettleKeeps` is proved once and each action only says with which page and
session it draws. `WayInTypes` is the type part.

*Links and marks* (`NavigationProofs`). `LinksAlwaysLead`, `MarksAlwaysTrue` and the entries'
half of `NothingIsEverTaken`, for any alliances, players, servers, permissions and
arrangements of the events strip, at every address. The invariant is small: `NavInv` is the
types, and that an arranged strip holds tabs of the list (`TabsInv`); what is drawn and
offered depends on the state alone. The argument follows the code's own layers. Addresses:
they are told apart by their first part and their length (`Bases`), so `routeFromHash` reads
every address made for a screen, a tab, a view or a section as what it was made for
(`RoutesOfTabs`, `TabsAreRead`, `AllianceRoute`, `SettingsRoutes`). Gates: an entry is listed
under the conditions its screen asks for, list by list (`WatchLeads` to `AllianceStripLeads`);
`SectionsOfPanels` goes through the sections and finds the one that no group draws. Marks: each
entry is marked at the addresses of its own screens, and those sets are disjoint
(`OneIsMarked`). Nothing is taken away: no capability is held before the answer
(`NothingBefore`), and every list only grows with it (`EntriesGrow`, `AdminStripsStay`,
`AllianceStripStays`). `NavigationAssumption` says that roles hold capabilities of the list
and that an arrangement names tabs of it.

The inductive invariants were checked by TLC, on the instances of the runs, before they were
proved.

Only model-checked: every liveness property (fairness and ENABLED are out of the prover's
reach), one each in `Outage`, `JobQueue`, `Cache` and `Navigation` and two in `Capture`; and
that the dashboard's lists of queries and changes are as `EveryScreenIsNamed` says, a comparison
name by name. Every other property of the passing runs is a theorem.

## Not modelled, and why

* *Normalizers, game-data extraction, payload shapes, codecs*: data to data, covered by
  fixtures; `RowsOf` is all the journal relies on.
* *Gift-code sender* (in the database since 0252, with a table of requests in the air and
  late answers): two of its hazards concern times, two minutes against three, that a model
  without clocks would have to invent. The collector's own `dw-gift` is retired.
* *Notification worker*: one queue whose only hazard is a crash between post and mark; it
  posts again, as its comments say.
* *iPhone fleet, supervisor, sidecar, operator's console*: starting and watching processes
  of the operating system; their effect on shared state is the journal's transactions.
* *UI worker's routines*: verification against screenshots of an emulator; its outcome is
  the outcome of a run in `JobQueue`.
* *Pages and calculators of the dashboard*: rendering, sorting and arithmetic over one
  answer, pure functions with tests of their own.
* *Bots*: they read views and answer.
* *Row-level security, roles and ranking functions*: policies and SQL over settled data; the
  navigation relies on their answers only.
