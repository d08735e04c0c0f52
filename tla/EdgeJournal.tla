----------------------------- MODULE EdgeJournal -----------------------------
(***************************************************************************)
(* The SQLite edge journal of the collector (storage/journal.py): raw      *)
(* observations, the normalized rows parsed from them and the sync outbox, *)
(* shared by the processes that record, drain, retry and prune it.         *)
(*                                                                         *)
(* Every action is one committed transaction (one autocommitted statement  *)
(* for the temporary tables of prune), so processes interleave between     *)
(* actions and a crash can only fall between two of them.  Payloads are    *)
(* abstracted to their idempotency keys, the wall clock to a bounded       *)
(* logical clock, and a backoff to the fact that it has not yet elapsed.   *)
(***************************************************************************)
EXTENDS Integers, FiniteSets

CONSTANTS
  Obs,           \* observation ids
  RowKey,        \* idempotency keys of normalized rows
  ReqObs,        \* observation ids of masked client requests
  ReqKey,        \* idempotency keys of request shapes
  NoObs,         \* "no normalized row holds this key"
  Parsers,       \* number of parser versions deployed over time
  RowsOf,        \* RowsOf[v][o]: keys of the rows parser version v makes of o
  ShapeOf,       \* ShapeOf[r]: key of the shape of request r
  TableOf,       \* TableOf[k]: place of k's target table in the sync order
  Expedited,     \* keys whose rows are sent ahead of a backlog
  CapturedAt,    \* wire time of an observation or a request
  MaxAttempts,   \* rejections after which a row is dead lettered
  BatchSize,     \* rows one drain takes at most
  MaxId,         \* bound: record transactions that queue something
  MaxNow         \* bound: logical clock

Key == RowKey \cup ReqKey

ASSUME ConstantsAssumption ==
  /\ NoObs \notin Obs
  /\ Parsers \in Nat \ {0}
  /\ RowsOf \in [1..Parsers -> [Obs -> SUBSET RowKey]]
  /\ ShapeOf \in [ReqObs -> ReqKey]
  /\ TableOf \in [Key -> Nat]
  /\ Expedited \subseteq Key
  /\ CapturedAt \in [Obs \cup ReqObs -> Nat]
  /\ MaxAttempts \in Nat \ {0}
  /\ BatchSize \in Nat \ {0}
  /\ MaxId \in Nat
  /\ MaxNow \in Nat

VARIABLES
  raw,           \* observations in raw_observations
  rows,          \* rows[k]: the observation whose normalized row holds k
  outbox,        \* outbox[k]: the sync_outbox entry of k, if its status is not "none"
  requests,      \* request_observations
  shapesSeen,    \* request_shapes_seen
  lastId,        \* the outbox autoincrement, one step per transaction
  now,           \* wall clock
  parser,        \* parser version in use
  prune,         \* the running prune: its step and its temporary tables
  journalled     \* history: every key the journal ever accepted

journalVars == <<raw, rows, outbox, requests, shapesSeen, lastId, now, parser,
                 prune, journalled>>

Statuses == {"none", "pending", "sent", "dead_letter"}

Entry == [status: Statuses, attempts: Nat, due: BOOLEAN, born: Nat, id: Nat]

NoEntry == [status |-> "none", attempts |-> 0, due |-> FALSE, born |-> 0, id |-> 0]

\* A freshly queued entry: due at once, no attempt spent.
NewEntry == [status |-> "pending", attempts |-> 0, due |-> TRUE, born |-> now,
             id |-> lastId + 1]

Queued(k) == outbox[k].status # "none"

Undelivered(k) == outbox[k].status \in {"pending", "dead_letter"}

PruneSteps == {"idle", "held", "classified", "rows_gone", "raw_gone", "outbox_gone"}

NoPrune == [step |-> "idle", cutoff |-> 0, held |-> {}, doomed |-> {},
            undelivered |-> {}]

JournalInit ==
  /\ raw = {}
  /\ rows = [k \in RowKey |-> NoObs]
  /\ outbox = [k \in Key |-> NoEntry]
  /\ requests = {}
  /\ shapesSeen = {}
  /\ lastId = 0
  /\ now = 0
  /\ parser = 1
  /\ prune = NoPrune
  /\ journalled = {}

-----------------------------------------------------------------------------
(* Writing.                                                                *)

\* The rows of keys that normalized_rows does not hold yet.
Fresh(keys) == {k \in keys : rows[k] = NoObs}

\* A fresh row whose key is still in the outbox: the plain insert into
\* sync_outbox raises, the transaction is rolled back and the caller dies.
Conflict(keys) == \E k \in Fresh(keys) : Queued(k)

\* Adds the keys to the outbox in one transaction.
Enqueue(keys) ==
  /\ outbox' = [k \in Key |-> IF k \in keys THEN NewEntry ELSE outbox[k]]
  /\ lastId' = IF keys = {} THEN lastId ELSE lastId + 1
  /\ journalled' = journalled \cup keys

\* Raw observation, normalized rows and outbox entries, all or nothing.
Record(o, keys) ==
  /\ lastId < MaxId
  /\ ~Conflict(keys)
  /\ raw' = raw \cup {o}
  /\ rows' = [k \in RowKey |-> IF k \in Fresh(keys) THEN o ELSE rows[k]]
  /\ Enqueue(Fresh(keys))
  /\ UNCHANGED <<requests, shapesSeen, now, parser, prune>>

\* A producer records an observation: live, or again from a capture file.
Collect(o) ==
  /\ CapturedAt[o] <= now
  /\ Record(o, RowsOf[parser][o])

\* Today's parser over a journalled observation, kept to one table.
Backfill(o, table) ==
  /\ o \in raw
  /\ Record(o, {k \in RowsOf[parser][o] : TableOf[k] = table})

\* A masked request, with its shape queued the first time it is seen.
RecordRequest(r) ==
  LET shape == {ShapeOf[r]} \ shapesSeen
  IN  /\ lastId < MaxId
      /\ CapturedAt[r] <= now
      /\ r \notin requests
      /\ requests' = requests \cup {r}
      /\ shapesSeen' = shapesSeen \cup shape
      /\ Enqueue({k \in shape : ~Queued(k)})
      /\ UNCHANGED <<raw, rows, now, parser, prune>>

-----------------------------------------------------------------------------
(* The outbox as a queue.  An item is a key and the id of the entry read.  *)

Ready == {k \in Key : outbox[k].status = "pending" /\ outbox[k].due}

\* j leaves the queue before k: expedited first, then in insertion order.
Precedes(j, k) ==
  \/ j \in Expedited /\ k \notin Expedited
  \/ /\ j \in Expedited <=> k \in Expedited
     /\ outbox[j].id < outbox[k].id

\* The batches pending_outbox can return.  Rows of one transaction are
\* ordered by a row number this model leaves open.
Batches ==
  {B \in SUBSET Ready :
     /\ B # {}
     /\ Cardinality(B) <= BatchSize
     /\ B = Ready \/ Cardinality(B) = BatchSize
     /\ \A k \in B, j \in Ready \ B : ~Precedes(j, k)}

Items(keys) == {<<k, outbox[k].id>> : k \in keys}

Keys(items) == {i[1] : i \in items}

Names(items, k) == Queued(k) /\ <<k, outbox[k].id>> \in items

\* Rewrites the entries the items name; the ids of deleted entries match none.
UpdateEntries(items, New(_)) ==
  outbox' = [k \in Key |-> IF Names(items, k) THEN New(outbox[k]) ELSE outbox[k]]

Sent(e) == [e EXCEPT !.status = "sent"]

\* Mutation: a status the table's CHECK constraint does not know.
FailedMisspelt(e) ==
  IF e.attempts + 1 >= MaxAttempts
  THEN [e EXCEPT !.attempts = @ + 1, !.status = "failed"]
  ELSE [e EXCEPT !.attempts = @ + 1, !.due = FALSE]

\* One attempt spent: dead lettered at the limit, else retried after a backoff.
Failed(e) ==
  IF e.attempts + 1 >= MaxAttempts
  THEN [e EXCEPT !.attempts = @ + 1, !.status = "dead_letter"]
  ELSE [e EXCEPT !.attempts = @ + 1, !.due = FALSE]

Deferred(e) == [e EXCEPT !.due = FALSE]

OutboxOnly == UNCHANGED <<raw, rows, requests, shapesSeen, lastId, now, parser,
                          prune, journalled>>

MarkSent(items) == UpdateEntries(items, Sent) /\ OutboxOnly

\* The attempts are those of the rows when they are written: journal.py reads the first row's
\* before its transaction begins, and a retry between the two keeps what was read.
MarkFailed(items) == UpdateEntries(items, Failed) /\ OutboxOnly

\* Mutation: an outage counted as a failure of the rows.
DeferAsFailure(items) == UpdateEntries(items, Failed) /\ OutboxOnly

Defer(items) == UpdateEntries(items, Deferred) /\ OutboxOnly

\* next_attempt_at passes.
BackoffElapses(k) ==
  /\ Queued(k) /\ ~outbox[k].due
  /\ outbox' = [outbox EXCEPT ![k].due = TRUE]
  /\ OutboxOnly

\* The operator asks for the pending rows again, and for dead letters or
\* delivered rows when the flags say so.
RetryOutbox(deadLetters, alreadySent) ==
  LET asked == {"pending"} \cup (IF deadLetters THEN {"dead_letter"} ELSE {})
                           \cup (IF alreadySent THEN {"sent"} ELSE {})
  IN  /\ outbox' = [k \in Key |->
                      IF outbox[k].status \in asked
                      THEN [outbox[k] EXCEPT !.status = "pending",
                                             !.attempts = 0, !.due = TRUE]
                      ELSE outbox[k]]
      /\ OutboxOnly

-----------------------------------------------------------------------------
(* prune(confirm=True): two temporary tables, then one transaction per     *)
(* table.  Counting only (confirm=False) drops them and changes nothing.   *)

PruneOnly == UNCHANGED <<requests, shapesSeen, lastId, now, parser, journalled>>

\* Mutation: dead letters no longer hold their observation back.
PruneHoldPendingOnly(cutoff) ==
  /\ prune.step = "idle"
  /\ prune' = [NoPrune EXCEPT
                 !.step = "held", !.cutoff = cutoff,
                 !.held = {rows[k] : k \in {j \in RowKey : outbox[j].status = "pending"}}
                            \ {NoObs},
                 !.undelivered = {k \in RowKey : Undelivered(k)}]
  /\ PruneOnly /\ UNCHANGED <<raw, rows, outbox>>

\* _prune_held: observations with a row that never reached the cloud.
PruneHold(cutoff) ==
  /\ prune.step = "idle"
  /\ prune' = [NoPrune EXCEPT
                 !.step = "held", !.cutoff = cutoff,
                 !.held = {rows[k] : k \in {j \in RowKey : Undelivered(j)}} \ {NoObs},
                 !.undelivered = {k \in RowKey : Undelivered(k)}]
  /\ PruneOnly /\ UNCHANGED <<raw, rows, outbox>>

\* _prune_old: the observations captured before the cutoff and not held.
PruneClassify ==
  /\ prune.step = "held"
  /\ prune' = [prune EXCEPT !.step = "classified",
                 !.doomed = {o \in raw : CapturedAt[o] < prune.cutoff} \ prune.held]
  /\ PruneOnly /\ UNCHANGED <<raw, rows, outbox>>

PruneRows ==
  /\ prune.step = "classified"
  /\ rows' = [k \in RowKey |-> IF rows[k] \in prune.doomed THEN NoObs ELSE rows[k]]
  /\ prune' = [prune EXCEPT !.step = "rows_gone", !.held = {}, !.undelivered = {}]
  /\ PruneOnly /\ UNCHANGED <<raw, outbox>>

\* A row recorded meanwhile under a doomed observation: the foreign key
\* refuses the statement and the prune ends there.
Referenced == \E k \in RowKey : rows[k] \in prune.doomed

\* Mutation: the foreign key is not enforced.
PruneRawUnchecked ==
  /\ prune.step = "rows_gone"
  /\ raw' = raw \ prune.doomed
  /\ prune' = [prune EXCEPT !.step = "raw_gone", !.doomed = {}]
  /\ PruneOnly /\ UNCHANGED <<rows, outbox>>


PruneRaw ==
  /\ prune.step = "rows_gone"
  /\ IF Referenced
     THEN raw' = raw /\ prune' = NoPrune
     ELSE /\ raw' = raw \ prune.doomed
          /\ prune' = [prune EXCEPT !.step = "raw_gone", !.doomed = {}]
  /\ PruneOnly /\ UNCHANGED <<rows, outbox>>

\* Mutation: old entries go whether delivered or not.
PruneOutboxByAge ==
  /\ prune.step = "raw_gone"
  /\ outbox' = [k \in Key |->
                  IF outbox[k].born < prune.cutoff THEN NoEntry ELSE outbox[k]]
  /\ prune' = [prune EXCEPT !.step = "outbox_gone"]
  /\ PruneOnly /\ UNCHANGED <<raw, rows>>

\* Delivered entries go by the time they were written, not captured.
PruneOutbox ==
  /\ prune.step = "raw_gone"
  /\ outbox' = [k \in Key |->
                  IF outbox[k].status = "sent" /\ outbox[k].born < prune.cutoff
                  THEN NoEntry ELSE outbox[k]]
  /\ prune' = [prune EXCEPT !.step = "outbox_gone"]
  /\ PruneOnly /\ UNCHANGED <<raw, rows>>

PruneRequests ==
  /\ prune.step = "outbox_gone"
  /\ requests' = {r \in requests : CapturedAt[r] >= prune.cutoff}
  /\ prune' = NoPrune
  /\ UNCHANGED <<raw, rows, outbox, shapesSeen, lastId, now, parser, journalled>>

\* The temporary tables die with the connection; what was committed stays.
PruneCrash ==
  /\ prune.step # "idle"
  /\ prune' = NoPrune
  /\ PruneOnly /\ UNCHANGED <<raw, rows, outbox>>

-----------------------------------------------------------------------------
(* The world around the journal.                                           *)

Tick ==
  /\ now < MaxNow
  /\ now' = now + 1
  /\ UNCHANGED <<raw, rows, outbox, requests, shapesSeen, lastId, parser, prune,
                 journalled>>

\* A release teaches a parser to make more of what is journalled already.
UpgradeParser ==
  /\ parser < Parsers
  /\ parser' = parser + 1
  /\ UNCHANGED <<raw, rows, outbox, requests, shapesSeen, lastId, now, prune,
                 journalled>>

Writing ==
  \/ \E o \in Obs : Collect(o)
  \/ \E o \in Obs, t \in {TableOf[k] : k \in RowKey} : Backfill(o, t)
  \/ \E r \in ReqObs : RecordRequest(r)

Retrying == \E deadLetters, alreadySent \in BOOLEAN :
              RetryOutbox(deadLetters, alreadySent)

Pruning ==
  \/ \E cutoff \in 1..now : PruneHold(cutoff)
  \/ PruneClassify
  \/ PruneRows
  \/ PruneRaw
  \/ PruneOutbox
  \/ PruneRequests
  \/ PruneCrash
=============================================================================
