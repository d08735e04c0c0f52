--------------------------- MODULE OutboxSyncProofs ---------------------------
(***************************************************************************)
(* Proofs about OutboxSync, for any observations, parsers, keys, workers   *)
(* and bounds.                                                             *)
(***************************************************************************)
EXTENDS OutboxSync, TLAPS

-----------------------------------------------------------------------------
(* Type correctness.                                                       *)

\* Recording keeps the types of the journal.
LEMMA RecordType ==
  ASSUME JournalTypeOK, NEW o \in Obs, NEW keys \in SUBSET RowKey, Record(o, keys)
  PROVE  JournalTypeOK'
<1>1. Fresh(keys) \subseteq Key /\ Fresh(keys) \subseteq RowKey
  BY DEF Fresh, Key
<1>2. NewEntry \in Entry
  BY DEF JournalTypeOK, NewEntry, Entry, Statuses
<1>3. outbox' \in [Key -> Entry]
  BY <1>1, <1>2 DEF Record, Enqueue, JournalTypeOK
<1>4. lastId' \in Nat /\ journalled' \in SUBSET Key
  BY <1>1 DEF Record, Enqueue, JournalTypeOK
<1>5. raw' \in SUBSET Obs /\ rows' \in [RowKey -> Obs \cup {NoObs}]
  BY <1>1 DEF Record, JournalTypeOK
<1>6. QED
  BY <1>3, <1>4, <1>5 DEF Record, JournalTypeOK

\* The rows a parser makes of an observation are row keys.
LEMMA RowsOfType ==
  ASSUME JournalTypeOK, NEW o \in Obs
  PROVE  RowsOf[parser][o] \in SUBSET RowKey
BY ConstantsAssumption DEF JournalTypeOK

\* A step of a writer keeps the types.
LEMMA WritingType == ASSUME JournalTypeOK, Writing PROVE JournalTypeOK'
<1>1. ASSUME NEW o \in Obs, Collect(o) PROVE JournalTypeOK'
  BY <1>1, RowsOfType, RecordType DEF Collect
<1>2. ASSUME NEW o \in Obs, NEW t, Backfill(o, t) PROVE JournalTypeOK'
  <2>1. {k \in RowsOf[parser][o] : TableOf[k] = t} \in SUBSET RowKey
    BY RowsOfType
  <2>2. QED
    BY <1>2, <2>1, RecordType DEF Backfill
<1>3. ASSUME NEW r \in ReqObs, RecordRequest(r) PROVE JournalTypeOK'
  <2>1. ShapeOf[r] \in ReqKey /\ ShapeOf[r] \in Key
    BY ConstantsAssumption DEF Key
  <2>2. NewEntry \in Entry
    BY DEF JournalTypeOK, NewEntry, Entry, Statuses
  <2>3. outbox' \in [Key -> Entry] /\ lastId' \in Nat /\ journalled' \in SUBSET Key
    BY <1>3, <2>1, <2>2 DEF RecordRequest, Enqueue, JournalTypeOK
  <2>4. QED
    BY <1>3, <2>1, <2>3 DEF RecordRequest, JournalTypeOK
<1>4. QED
  BY <1>1, <1>2, <1>3 DEF Writing

\* The three ways of settling an entry yield an entry.
LEMMA SettledEntryType ==
  ASSUME NEW e \in Entry
  PROVE  Sent(e) \in Entry /\ Failed(e) \in Entry /\ Deferred(e) \in Entry
<1>1. Sent(e) \in Entry
  BY DEF Entry, Statuses, Sent
<1>2. Deferred(e) \in Entry
  BY DEF Entry, Statuses, Deferred
<1>3. Failed(e) \in Entry
  <2>1. e.attempts \in Nat
    BY DEF Entry
  <2>2. e.attempts + 1 \in Nat
    BY <2>1
  <2>3. [e EXCEPT !.attempts = @ + 1, !.status = "dead_letter"] \in Entry
    BY <2>2 DEF Entry, Statuses
  <2>4. [e EXCEPT !.attempts = @ + 1, !.due = FALSE] \in Entry
    BY <2>2 DEF Entry, Statuses
  <2>5. QED
    BY <2>3, <2>4, Zenon DEF Failed
<1>4. QED
  BY <1>1, <1>2, <1>3

\* Rewriting entries keeps the types.
LEMMA MarkType ==
  ASSUME JournalTypeOK, NEW items,
         MarkSent(items) \/ MarkFailed(items) \/ Defer(items)
  PROVE  JournalTypeOK'
<1>1. \A k \in Key : outbox[k] \in Entry
  BY DEF JournalTypeOK
<1>2. outbox' \in [Key -> Entry]
  <2>1. CASE MarkSent(items)
    BY <1>1, SettledEntryType, <2>1 DEF MarkSent, UpdateEntries, JournalTypeOK
  <2>2. CASE MarkFailed(items)
    BY <1>1, SettledEntryType, <2>2 DEF MarkFailed, UpdateEntries, JournalTypeOK
  <2>3. CASE Defer(items)
    BY <1>1, SettledEntryType, <2>3 DEF Defer, UpdateEntries, JournalTypeOK
  <2>4. QED
    BY <2>1, <2>2, <2>3
<1>3. OutboxOnly
  BY DEF MarkSent, MarkFailed, Defer
<1>4. QED
  BY <1>2, <1>3 DEF OutboxOnly, JournalTypeOK

\* A retry by the operator keeps the types.
LEMMA RetryType ==
  ASSUME JournalTypeOK, NEW deadLetters \in BOOLEAN, NEW alreadySent \in BOOLEAN,
         RetryOutbox(deadLetters, alreadySent)
  PROVE  JournalTypeOK'
<1>1. \A e \in Entry :
        [e EXCEPT !.status = "pending", !.attempts = 0, !.due = TRUE] \in Entry
  BY DEF Entry, Statuses
<1>2. outbox' \in [Key -> Entry]
  BY <1>1 DEF RetryOutbox, JournalTypeOK
<1>3. QED
  BY <1>2 DEF RetryOutbox, OutboxOnly, JournalTypeOK

\* The passing of a backoff keeps the types.
LEMMA BackoffType ==
  ASSUME JournalTypeOK, NEW k \in Key, BackoffElapses(k)
  PROVE  JournalTypeOK'
<1>1. outbox[k] \in Entry
  BY DEF JournalTypeOK
<1>2. [outbox[k] EXCEPT !.due = TRUE] \in Entry
  BY <1>1 DEF Entry
<1>3. outbox' \in [Key -> Entry]
  BY <1>2 DEF BackoffElapses, JournalTypeOK
<1>4. QED
  BY <1>3 DEF BackoffElapses, OutboxOnly, JournalTypeOK

PruneType == [step: PruneSteps, cutoff: Nat, held: SUBSET Obs, doomed: SUBSET Obs,
              undelivered: SUBSET RowKey]

\* A step of a prune keeps the types.
LEMMA PruningType == ASSUME JournalTypeOK, Pruning PROVE JournalTypeOK'
<1>1. NoPrune \in PruneType
  BY DEF NoPrune, PruneType, PruneSteps
<1>2. prune \in PruneType
  BY DEF JournalTypeOK, PruneType
<1>3. CASE \E cutoff \in 1..now : PruneHold(cutoff)
  <2>1. PICK cutoff \in 1..now : PruneHold(cutoff)
    BY <1>3
  <2>2. cutoff \in Nat
    BY <2>1 DEF JournalTypeOK
  <2>3. {rows[k] : k \in {j \in RowKey : Undelivered(j)}} \ {NoObs} \in SUBSET Obs
    BY DEF JournalTypeOK
  <2>4. {k \in RowKey : Undelivered(k)} \in SUBSET RowKey
    OBVIOUS
  <2>5. prune' \in PruneType
    BY <2>1, <2>2, <2>3, <2>4 DEF PruneHold, NoPrune, PruneType, PruneSteps
  <2>6. QED
    BY <2>1, <2>5 DEF PruneHold, PruneOnly, JournalTypeOK, PruneType
<1>4. CASE PruneClassify
  <2>1. prune' \in PruneType
    BY <1>2, <1>4 DEF PruneClassify, PruneType, PruneSteps, JournalTypeOK
  <2>2. QED
    BY <1>4, <2>1 DEF PruneClassify, PruneOnly, JournalTypeOK, PruneType
<1>5. CASE PruneRows
  <2>1. prune' \in PruneType
    BY <1>2, <1>5 DEF PruneRows, PruneType, PruneSteps
  <2>2. rows' \in [RowKey -> Obs \cup {NoObs}]
    BY <1>5 DEF PruneRows, JournalTypeOK
  <2>3. QED
    BY <1>5, <2>1, <2>2 DEF PruneRows, PruneOnly, JournalTypeOK, PruneType
<1>6. CASE PruneRaw
  <2>1. prune' \in PruneType
    BY <1>1, <1>2, <1>6 DEF PruneRaw, PruneType, PruneSteps
  <2>2. raw' \in SUBSET Obs
    BY <1>6 DEF PruneRaw, JournalTypeOK
  <2>3. QED
    BY <1>6, <2>1, <2>2 DEF PruneRaw, PruneOnly, JournalTypeOK, PruneType
<1>7. CASE PruneOutbox
  <2>1. prune' \in PruneType
    BY <1>2, <1>7 DEF PruneOutbox, PruneType, PruneSteps
  <2>2. NoEntry \in Entry
    BY DEF NoEntry, Entry, Statuses
  <2>3. outbox' \in [Key -> Entry]
    BY <1>7, <2>2 DEF PruneOutbox, JournalTypeOK
  <2>4. QED
    BY <1>7, <2>1, <2>3 DEF PruneOutbox, PruneOnly, JournalTypeOK, PruneType
<1>8. CASE PruneRequests
  BY <1>1, <1>8 DEF PruneRequests, JournalTypeOK, PruneType
<1>9. CASE PruneCrash
  BY <1>1, <1>9 DEF PruneCrash, PruneOnly, JournalTypeOK, PruneType
<1>10. QED
  BY <1>3, <1>4, <1>5, <1>6, <1>7, <1>8, <1>9 DEF Pruning

\* Every step of the journal's own processes keeps the types.
LEMMA JournallingType == ASSUME JournalTypeOK, Journalling PROVE JournalTypeOK'
<1>1. CASE Tick
  BY <1>1 DEF Tick, JournalTypeOK
<1>2. CASE UpgradeParser
  BY <1>2, ConstantsAssumption DEF UpgradeParser, JournalTypeOK
<1>3. CASE Retrying
  BY <1>3, RetryType DEF Retrying
<1>4. CASE \E k \in Key : BackoffElapses(k)
  BY <1>4, BackoffType
<1>5. QED
  BY <1>1, <1>2, <1>3, <1>4, WritingType, PruningType DEF Journalling

-----------------------------------------------------------------------------
(* The workers.                                                            *)

SyncTypeOK == sync \in [Worker -> [pc: Pcs, batch: SUBSET Item, hit: SUBSET Item]]

\* What a step of a drain does to the journal: nothing, or one settlement.
LEMMA DrainJournal ==
  ASSUME NEW w \in Worker, Drain(w)
  PROVE  \/ UNCHANGED journalVars
         \/ /\ Settle(w)
            /\ \/ sync[w].pc = "sent" /\ MarkSent(sync[w].hit)
               \/ sync[w].pc = "failed" /\ MarkFailed(sync[w].hit)
               \/ sync[w].pc = "deferred" /\ Defer(sync[w].hit)
<1>1. CASE Settle(w)
  BY <1>1 DEF Settle
<1>2. CASE ~Settle(w)
  BY <1>2 DEF Drain, ReadBatch, Register, PostAccepted, PostRejected, PostUnreachable
<1>3. QED
  BY <1>1, <1>2

\* The batch read is a set of items.
LEMMA ItemsType ==
  ASSUME JournalTypeOK, NEW B \in Batches
  PROVE  Items(B) \in SUBSET Item
<1>1. B \subseteq Key
  BY DEF Batches, Ready
<1>2. \A k \in B : outbox[k].id \in Nat
  BY <1>1 DEF JournalTypeOK, Entry
<1>3. QED
  BY <1>1, <1>2 DEF Items, Item

\* A step of a drain keeps the worker states well typed.
LEMMA DrainType ==
  ASSUME JournalTypeOK, SyncTypeOK, NEW w \in Worker, Drain(w)
  PROVE  SyncTypeOK'
<1> DEFINE S == [pc: Pcs, batch: SUBSET Item, hit: SUBSET Item]
<1>1. sync[w] \in S
  BY DEF SyncTypeOK
<1>2. CurrentTable(w) \in SUBSET Item
  BY <1>1 DEF CurrentTable
<1>3. ASSUME NEW pc \in Pcs, NEW hit \in SUBSET Item, Goto(w, pc, hit)
      PROVE  SyncTypeOK'
  BY <1>1, <1>3 DEF Goto, SyncTypeOK
<1>4. CASE ReadBatch(w)
  <2>1. PICK B \in Batches :
          sync' = [sync EXCEPT ![w] = [pc |-> "register", batch |-> Items(B), hit |-> {}]]
    BY <1>4 DEF ReadBatch
  <2>2. [pc |-> "register", batch |-> Items(B), hit |-> {}] \in S
    BY ItemsType DEF Pcs
  <2>3. QED
    BY <2>1, <2>2 DEF SyncTypeOK
<1>5. CASE \E answer \in Answers : Register(w, answer)
  <2>1. PICK answer \in Answers : Register(w, answer)
    BY <1>5
  <2>2. sync[w].batch \in SUBSET Item
    BY <1>1
  <2>3. \/ Goto(w, "post", {})
        \/ Goto(w, "failed", sync[w].batch)
        \/ Goto(w, "deferred", sync[w].batch)
    BY <2>1, AnswersAssumption DEF Register
  <2>4. QED
    BY <1>3, <2>2, <2>3 DEF Pcs
<1>6. CASE PostAccepted(w)
  BY <1>2, <1>3, <1>6 DEF PostAccepted, Pcs
<1>7. CASE PostRejected(w)
  BY <1>2, <1>3, <1>7 DEF PostRejected, Pcs
<1>8. CASE PostUnreachable(w)
  BY <1>1, <1>3, <1>8 DEF PostUnreachable, Pcs
<1>9. CASE Settle(w)
  <2>1. Idle \in S
    BY DEF Idle, Pcs
  <2>2. [pc |-> "post", batch |-> sync[w].batch \ sync[w].hit, hit |-> {}] \in S
    BY <1>1 DEF Pcs
  <2>3. QED
    BY <1>9, <2>1, <2>2 DEF Settle, NextTable, SyncTypeOK
<1>10. QED
  BY <1>4, <1>5, <1>6, <1>7, <1>8, <1>9 DEF Drain

\* A step of a drain lands rows of its batch only.
LEMMA DrainCloud ==
  ASSUME SyncTypeOK, NEW w \in Worker, Drain(w)
  PROVE  cloud \subseteq cloud' /\ cloud' \subseteq cloud \cup Keys(sync[w].batch)
<1>1. Keys(CurrentTable(w)) \subseteq Keys(sync[w].batch)
  BY DEF CurrentTable, Keys
<1>2. CASE PostAccepted(w)
  BY <1>1, <1>2 DEF PostAccepted
<1>3. CASE PostRejected(w)
  BY <1>1, <1>3 DEF PostRejected
<1>4. CASE PostUnreachable(w)
  BY <1>1, <1>4 DEF PostUnreachable
<1>5. CASE ~(PostAccepted(w) \/ PostRejected(w) \/ PostUnreachable(w))
  BY <1>5 DEF Drain, ReadBatch, Register, Settle, NextTable
<1>6. QED
  BY <1>2, <1>3, <1>4, <1>5

\* Items name keys.
LEMMA KeysOfItems == ASSUME NEW items \in SUBSET Item PROVE Keys(items) \in SUBSET Key
BY DEF Keys, Item

\* The initial journal is well typed.
LEMMA InitType == ASSUME Init PROVE TypeOK
<1>1. NoEntry \in Entry
  BY DEF NoEntry, Entry, Statuses
<1>2. NoPrune \in PruneType
  BY DEF NoPrune, PruneType, PruneSteps
<1>3. JournalTypeOK
  BY <1>1, <1>2, ConstantsAssumption DEF Init, JournalInit, JournalTypeOK, PruneType
<1>4. QED
  BY <1>3 DEF Init, TypeOK, Idle, Pcs

\* One step keeps the types.
LEMMA NextType == ASSUME TypeOK, [Next]_vars PROVE TypeOK'
<1> USE DEF TypeOK
<1>1. ASSUME NEW w \in Worker, Drain(w) PROVE TypeOK'
  <2>1. JournalTypeOK'
    BY <1>1, DrainJournal, MarkType DEF journalVars, JournalTypeOK
  <2>2. SyncTypeOK'
    BY <1>1, DrainType DEF SyncTypeOK
  <2>3. cloud' \in SUBSET Key
    BY <1>1, DrainCloud, KeysOfItems DEF SyncTypeOK
  <2>4. QED
    BY <2>1, <2>2, <2>3 DEF SyncTypeOK
<1>2. ASSUME NEW w \in Worker, Crash(w) PROVE TypeOK'
  <2>1. Idle \in [pc: Pcs, batch: SUBSET Item, hit: SUBSET Item]
    BY DEF Idle, Pcs
  <2>2. QED
    BY <1>2, <2>1 DEF Crash, journalVars, JournalTypeOK
<1>3. CASE Journalling
  BY <1>3, JournallingType DEF Journalling
<1>4. CASE UNCHANGED vars
  BY <1>4 DEF vars, journalVars, JournalTypeOK
<1>5. QED
  BY <1>1, <1>2, <1>3, <1>4 DEF Next

\* TypeOK holds in every reachable state: no step puts a status, an item or a
\* reference where its column or process cannot hold it.
THEOREM TypeCorrect == Spec => []TypeOK
<1>1. Init => TypeOK
  BY InitType
<1>2. TypeOK /\ [Next]_vars => TypeOK'
  BY NextType
<1>3. QED
  BY <1>1, <1>2, PTL DEF Spec

-----------------------------------------------------------------------------
(* What a step can do to the outbox.  The statuses are all the delivery    *)
(* argument needs, so the actions are grouped by how they change them.     *)

SameStatus(k) == outbox'[k].status = outbox[k].status

\* Keys are accepted into the outbox, together.
Accepts(S) ==
  /\ journalled' = journalled \cup S
  /\ \A k \in S : outbox'[k].status = "pending"
  /\ \A k \in Key \ S : SameStatus(k)

\* Entries become the journal's to answer for again, or wait as they were.
Requeues ==
  /\ journalled' = journalled
  /\ \A k \in Key : \/ SameStatus(k)
                    \/ Queued(k) /\ outbox'[k].status \in {"pending", "dead_letter"}

\* Entries of a set are marked sent.
Settles(S) ==
  /\ journalled' = journalled
  /\ \A k \in Key : SameStatus(k) \/ (k \in S /\ Queued(k) /\ outbox'[k].status = "sent")

\* Delivered entries are deleted.
Forgets ==
  /\ journalled' = journalled
  /\ \A k \in Key : SameStatus(k) \/ (outbox[k].status = "sent" /\ outbox'[k].status = "none")

\* An insert into the outbox accepts its keys.
LEMMA EnqueueAccepts ==
  ASSUME JournalTypeOK, NEW S \in SUBSET Key, Enqueue(S)
  PROVE  Accepts(S)
<1>1. \A k \in S : outbox'[k] = NewEntry
  BY DEF Enqueue
<1>2. \A k \in Key \ S : outbox'[k] = outbox[k]
  BY DEF Enqueue
<1>3. NewEntry.status = "pending"
  BY DEF NewEntry
<1>4. QED
  BY <1>1, <1>2, <1>3 DEF Accepts, SameStatus, Enqueue

\* Writers accept keys and nothing else.
LEMMA WritingEffect ==
  ASSUME JournalTypeOK, Writing
  PROVE  \E S \in SUBSET Key : Accepts(S)
<1>1. ASSUME NEW o \in Obs, NEW keys \in SUBSET RowKey, Record(o, keys)
      PROVE  \E S \in SUBSET Key : Accepts(S)
  <2>1. Fresh(keys) \in SUBSET Key
    BY DEF Fresh, Key
  <2>2. Enqueue(Fresh(keys))
    BY <1>1 DEF Record
  <2>3. QED
    BY <2>1, <2>2, EnqueueAccepts
<1>2. ASSUME NEW o \in Obs, NEW t, Backfill(o, t)
      PROVE  \E S \in SUBSET Key : Accepts(S)
  <2>1. {k \in RowsOf[parser][o] : TableOf[k] = t} \in SUBSET RowKey
    BY RowsOfType
  <2>2. QED
    BY <1>1, <1>2, <2>1 DEF Backfill
<1>3. ASSUME NEW o \in Obs, Collect(o)
      PROVE  \E S \in SUBSET Key : Accepts(S)
  BY <1>1, <1>3, RowsOfType DEF Collect
<1>4. ASSUME NEW r \in ReqObs, RecordRequest(r)
      PROVE  \E S \in SUBSET Key : Accepts(S)
  <2> DEFINE S == {k \in {ShapeOf[r]} \ shapesSeen : ~Queued(k)}
  <2>1. S \in SUBSET Key
    BY ConstantsAssumption DEF Key
  <2>2. Enqueue(S)
    BY <1>4 DEF RecordRequest
  <2>3. QED
    BY <2>1, <2>2, EnqueueAccepts
<1>5. QED
  BY <1>2, <1>3, <1>4 DEF Writing

\* The journal's own processes accept, requeue or forget.
LEMMA JournallingEffect ==
  ASSUME JournalTypeOK, Journalling
  PROVE  (\E S \in SUBSET Key : Accepts(S)) \/ Requeues \/ Forgets
<1>1. \A k \in Key : outbox[k] \in Entry
  BY DEF JournalTypeOK
<1>2. ASSUME outbox' = outbox, journalled' = journalled PROVE Requeues
  BY <1>2 DEF Requeues, SameStatus
<1>3. CASE Retrying
  <2>1. PICK dl \in BOOLEAN, as \in BOOLEAN : RetryOutbox(dl, as)
    BY <1>3 DEF Retrying
  <2> DEFINE asked == {"pending"} \cup (IF dl THEN {"dead_letter"} ELSE {})
                                  \cup (IF as THEN {"sent"} ELSE {})
             New(k) == [outbox[k] EXCEPT !.status = "pending",
                                         !.attempts = 0, !.due = TRUE]
  <2>2. outbox' = [k \in Key |-> IF outbox[k].status \in asked THEN New(k) ELSE outbox[k]]
    BY <2>1 DEF RetryOutbox
  <2>3. \A k \in Key : New(k).status = "pending"
    BY <1>1 DEF Entry
  <2>4. \A s \in asked : s # "none"
    OBVIOUS
  <2>5. \A k \in Key : outbox'[k] = IF outbox[k].status \in asked THEN New(k) ELSE outbox[k]
    BY <2>2
  <2>6. \A k \in Key : SameStatus(k) \/ (Queued(k) /\ outbox'[k].status = "pending")
    <3> HIDE DEF asked, New
    <3> QED
      BY <2>3, <2>4, <2>5 DEF SameStatus, Queued
  <2>7. journalled' = journalled
    BY <2>1 DEF RetryOutbox, OutboxOnly
  <2>8. Requeues
    BY <2>6, <2>7 DEF Requeues
  <2>9. QED
    BY <2>8
<1>4. CASE \E k \in Key : BackoffElapses(k)
  <2>1. PICK k \in Key : BackoffElapses(k)
    BY <1>4
  <2>2. \A j \in Key : outbox'[j].status = outbox[j].status
    BY <1>1, <2>1 DEF BackoffElapses, JournalTypeOK, Entry
  <2>3. Requeues
    BY <2>1, <2>2 DEF Requeues, SameStatus, BackoffElapses, OutboxOnly
  <2>4. QED
    BY <2>3
<1>5. CASE PruneOutbox
  <2>1. \A k \in Key : \/ outbox'[k] = outbox[k]
                       \/ outbox[k].status = "sent" /\ outbox'[k] = NoEntry
    BY <1>5 DEF PruneOutbox
  <2>2. QED
    BY <1>5, <2>1 DEF Forgets, SameStatus, NoEntry, PruneOutbox, PruneOnly
<1>6. CASE Pruning /\ ~PruneOutbox
  BY <1>2, <1>6 DEF Pruning, PruneHold, PruneClassify, PruneRows, PruneRaw,
                    PruneRequests, PruneCrash, PruneOnly
<1>7. CASE Tick \/ UpgradeParser
  BY <1>2, <1>7 DEF Tick, UpgradeParser
<1>8. QED
  BY <1>3, <1>4, <1>5, <1>6, <1>7, WritingEffect DEF Journalling

\* A worker's settlement marks what was posted as sent, or requeues.
LEMMA DrainEffect ==
  ASSUME TypeOK, NEW w \in Worker, Drain(w)
  PROVE  \/ UNCHANGED journalVars
         \/ /\ Settle(w)
            /\ \/ sync[w].pc = "sent" /\ Settles(Keys(sync[w].hit))
               \/ Requeues
<1> DEFINE items == sync[w].hit
<1>1. \A k \in Key : outbox[k] \in Entry
  BY DEF TypeOK, JournalTypeOK
<1>2. \A e \in Entry : /\ Sent(e).status = "sent"
                       /\ Deferred(e).status = e.status
                       /\ Failed(e).status \in {e.status, "dead_letter"}
  BY DEF Entry, Sent, Deferred, Failed
<1>3. \A k \in Key : Names(items, k) => k \in Keys(items) /\ Queued(k)
  BY DEF Names, Keys
<1>4. ASSUME MarkSent(items) PROVE Settles(Keys(items))
  <2>1. \A k \in Key : outbox'[k] = IF Names(items, k) THEN Sent(outbox[k]) ELSE outbox[k]
    BY <1>4 DEF MarkSent, UpdateEntries
  <2>2. QED
    BY <1>1, <1>2, <1>3, <1>4, <2>1 DEF Settles, SameStatus, MarkSent, OutboxOnly
<1>5. ASSUME MarkFailed(items) PROVE Requeues
  <2>1. \A k \in Key : outbox'[k] = IF Names(items, k) THEN Failed(outbox[k]) ELSE outbox[k]
    BY <1>5 DEF MarkFailed, UpdateEntries
  <2>2. \A k \in Key : \/ outbox'[k].status = outbox[k].status
                       \/ Queued(k) /\ outbox'[k].status = "dead_letter"
    BY <1>1, <1>2, <1>3, <2>1
  <2>3. QED
    BY <1>5, <2>2 DEF Requeues, SameStatus, MarkFailed, OutboxOnly
<1>6. ASSUME Defer(items) PROVE Requeues
  <2>1. \A k \in Key : outbox'[k] = IF Names(items, k) THEN Deferred(outbox[k]) ELSE outbox[k]
    BY <1>6 DEF Defer, UpdateEntries
  <2>2. \A k \in Key : outbox'[k].status = outbox[k].status
    BY <1>1, <1>2, <2>1
  <2>3. QED
    BY <1>6, <2>2 DEF Requeues, SameStatus, Defer, OutboxOnly
<1>7. QED
  BY <1>4, <1>5, <1>6, DrainJournal

-----------------------------------------------------------------------------
(* The delivery invariant.  The two claims are not inductive by            *)
(* themselves: what makes mark_sent tell the truth is that a worker about  *)
(* to mark has seen its rows land, and what makes a landing harmless is    *)
(* that a worker only carries rows the journal accepted.                   *)

SentItemsLanded == \A w \in Worker : sync[w].pc = "sent" => Keys(sync[w].hit) \subseteq cloud

BatchesJournalled == \A w \in Worker : Keys(sync[w].batch) \subseteq journalled

QueuedJournalled == \A k \in Key : Queued(k) => k \in journalled

DeliveryInv ==
  /\ TypeOK
  /\ SentIsInCloud
  /\ NothingLost
  /\ SentItemsLanded
  /\ BatchesJournalled
  /\ QueuedJournalled

\* A journal whose statuses change in one of the four ways keeps its promises.
LEMMA EffectKeepsPromises ==
  ASSUME TypeOK, TypeOK', SentIsInCloud, NothingLost, QueuedJournalled,
         cloud \subseteq cloud',
         \/ \E S \in SUBSET Key : Accepts(S)
         \/ Requeues
         \/ Forgets
         \/ \E S : S \subseteq cloud /\ Settles(S)
  PROVE  SentIsInCloud' /\ NothingLost' /\ QueuedJournalled' /\ journalled \subseteq journalled'
<1> USE DEF SentIsInCloud, NothingLost, QueuedJournalled, Custody, Undelivered, Queued, SameStatus
<1>0. \A k \in Key : outbox[k].status \in Statuses
  BY DEF TypeOK, JournalTypeOK, Entry
<1>1. journalled \subseteq Key /\ journalled' \subseteq Key
  BY DEF TypeOK, JournalTypeOK
<1>2. CASE \E S \in SUBSET Key : Accepts(S)
  BY <1>1, <1>2 DEF Accepts
<1>3. CASE Requeues
  BY <1>1, <1>3 DEF Requeues
<1>4. CASE Forgets
  BY <1>1, <1>4 DEF Forgets
<1>5. CASE \E S : S \subseteq cloud /\ Settles(S)
  <2>1. PICK S : S \subseteq cloud /\ Settles(S)
    BY <1>5
  <2>2. journalled' = journalled
    BY <2>1 DEF Settles
  <2>3. \A k \in Key : \/ outbox'[k].status = outbox[k].status
                       \/ k \in cloud /\ k \in journalled /\ outbox'[k].status = "sent"
    BY <2>1 DEF Settles
  <2>4. SentIsInCloud' /\ NothingLost'
    BY <1>1, <2>2, <2>3
  <2>5. QED
    BY <2>2, <2>3, <2>4
<1>6. QED
  BY <1>2, <1>3, <1>4, <1>5

\* A worker's step keeps what it knows about its own batch.
LEMMA DrainKnowledge ==
  ASSUME DeliveryInv, NEW w \in Worker, Drain(w)
  PROVE  SentItemsLanded' /\ BatchesJournalled'
<1> DEFINE S == [pc: Pcs, batch: SUBSET Item, hit: SUBSET Item]
<1>1. /\ sync \in [Worker -> S]
      /\ SentItemsLanded /\ BatchesJournalled
  BY DEF DeliveryInv, TypeOK
<1>2. cloud \subseteq cloud'
  BY DrainCloud DEF DeliveryInv, TypeOK, SyncTypeOK
<1>3. journalled \subseteq journalled'
  BY DrainEffect DEF DeliveryInv, Settles, Requeues, journalVars
<1>4. ASSUME NEW v \in Worker, v # w PROVE sync'[v] = sync[v]
  <2>1. ASSUME NEW pc, NEW hit, Goto(w, pc, hit) PROVE sync'[v] = sync[v]
    BY <1>1, <1>4, <2>1 DEF Goto
  <2>2. CASE ReadBatch(w)
    BY <1>1, <1>4, <2>2 DEF ReadBatch
  <2>3. CASE Settle(w)
    BY <1>1, <1>4, <2>3 DEF Settle, NextTable
  <2>4. CASE \E answer \in Answers : Register(w, answer)
    <3>1. PICK answer \in Answers : Register(w, answer)
      BY <2>4
    <3>2. \/ Goto(w, "post", {})
          \/ Goto(w, "failed", sync[w].batch)
          \/ Goto(w, "deferred", sync[w].batch)
      BY <3>1, AnswersAssumption DEF Register
    <3>3. QED
      BY <2>1, <3>2
  <2>5. CASE PostAccepted(w) \/ PostRejected(w) \/ PostUnreachable(w)
    BY <2>1, <2>5 DEF PostAccepted, PostRejected, PostUnreachable
  <2>6. QED
    BY <2>2, <2>3, <2>4, <2>5 DEF Drain
<1>5. /\ sync'[w].pc = "sent" => Keys(sync'[w].hit) \subseteq cloud'
      /\ Keys(sync'[w].batch) \subseteq journalled'
  <2>1. CASE ReadBatch(w)
    <3>1. PICK B \in Batches :
            sync' = [sync EXCEPT ![w] = [pc |-> "register", batch |-> Items(B), hit |-> {}]]
      BY <2>1 DEF ReadBatch
    <3>2. sync'[w] = [pc |-> "register", batch |-> Items(B), hit |-> {}]
      BY <1>1, <3>1
    <3>3. \A k \in B : k \in Key /\ Queued(k)
      BY DEF Batches, Ready, Queued
    <3>4. Keys(Items(B)) \subseteq B
      BY DEF Keys, Items
    <3>5. Keys(Items(B)) \subseteq journalled
      BY <3>3, <3>4 DEF DeliveryInv, QueuedJournalled
    <3>6. QED
      BY <1>3, <3>2, <3>5
  <2>2. ASSUME NEW pc, NEW hit, Goto(w, pc, hit), pc = "sent" => Keys(hit) \subseteq cloud'
        PROVE  /\ sync'[w].pc = "sent" => Keys(sync'[w].hit) \subseteq cloud'
               /\ Keys(sync'[w].batch) \subseteq journalled'
    <3>1. sync'[w].pc = pc /\ sync'[w].hit = hit /\ sync'[w].batch = sync[w].batch
      BY <1>1, <2>2 DEF Goto
    <3>2. Keys(sync[w].batch) \subseteq journalled
      BY <1>1 DEF BatchesJournalled
    <3>3. QED
      BY <1>3, <2>2, <3>1, <3>2
  <2>3. CASE \E answer \in Answers : Register(w, answer)
    <3>1. PICK answer \in Answers : Register(w, answer)
      BY <2>3
    <3>2. \/ Goto(w, "post", {})
          \/ Goto(w, "failed", sync[w].batch)
          \/ Goto(w, "deferred", sync[w].batch)
      BY <3>1, AnswersAssumption DEF Register
    <3>3. QED
      BY <2>2, <3>2
  <2>4. CASE PostAccepted(w)
    BY <2>2, <2>4 DEF PostAccepted
  <2>5. CASE PostRejected(w)
    BY <2>2, <2>5 DEF PostRejected
  <2>6. CASE PostUnreachable(w)
    BY <2>2, <2>6 DEF PostUnreachable
  <2>7. CASE Settle(w)
    <3> DEFINE rest == sync[w].batch \ sync[w].hit
    <3>1. \/ sync'[w] = Idle
          \/ sync'[w] = [pc |-> "post", batch |-> rest, hit |-> {}]
      BY <1>1, <2>7 DEF Settle, NextTable
    <3>2. Keys(rest) \subseteq Keys(sync[w].batch) /\ Keys({}) = {}
      BY DEF Keys
    <3>3. Keys(rest) \subseteq journalled
      BY <1>1, <3>2 DEF BatchesJournalled
    <3>4. QED
      BY <1>3, <3>1, <3>2, <3>3 DEF Idle
  <2>8. QED
    BY <2>1, <2>3, <2>4, <2>5, <2>6, <2>7 DEF Drain
<1>6. QED
  BY <1>1, <1>2, <1>3, <1>4, <1>5 DEF SentItemsLanded, BatchesJournalled

\* The delivery invariant is inductive.
LEMMA DeliveryInvStep ==
  ASSUME DeliveryInv, [Next]_vars
  PROVE  DeliveryInv'
<1>1. TypeOK /\ TypeOK'
  BY NextType DEF DeliveryInv
<1>2. ASSUME NEW w \in Worker, Drain(w) PROVE DeliveryInv'
  <2>1. cloud \subseteq cloud'
    BY <1>1, <1>2, DrainCloud DEF TypeOK, SyncTypeOK
  <2>2. SentItemsLanded' /\ BatchesJournalled'
    BY <1>2, DrainKnowledge
  <2>3. CASE UNCHANGED journalVars
    <3>1. Requeues
      BY <2>3 DEF journalVars, Requeues, SameStatus
    <3>2. QED
      BY <1>1, <2>1, <2>2, <3>1, EffectKeepsPromises DEF DeliveryInv
  <2>4. CASE sync[w].pc = "sent" /\ Settles(Keys(sync[w].hit))
    <3>1. Keys(sync[w].hit) \subseteq cloud
      BY <2>4 DEF DeliveryInv, SentItemsLanded
    <3>2. QED
      BY <1>1, <2>1, <2>2, <2>4, <3>1, EffectKeepsPromises DEF DeliveryInv
  <2>5. CASE Requeues
    BY <1>1, <2>1, <2>2, <2>5, EffectKeepsPromises DEF DeliveryInv
  <2>6. QED
    BY <1>1, <1>2, <2>3, <2>4, <2>5, DrainEffect
<1>3. ASSUME NEW w \in Worker, Crash(w) PROVE DeliveryInv'
  <2>1. SentItemsLanded' /\ BatchesJournalled'
    BY <1>1, <1>3 DEF Crash, DeliveryInv, SentItemsLanded, BatchesJournalled, journalVars,
                      TypeOK, Idle, Keys
  <2>2. QED
    BY <1>1, <1>3, <2>1 DEF Crash, DeliveryInv, SentIsInCloud, NothingLost, QueuedJournalled,
                            Custody, Undelivered, Queued, journalVars
<1>4. CASE Journalling
  <2>1. (\E S \in SUBSET Key : Accepts(S)) \/ Requeues \/ Forgets
    BY <1>1, <1>4, JournallingEffect DEF TypeOK
  <2>2. UNCHANGED <<sync, cloud>>
    BY <1>4 DEF Journalling
  <2>3. SentIsInCloud' /\ NothingLost' /\ QueuedJournalled' /\ journalled \subseteq journalled'
    BY <1>1, <2>1, <2>2, EffectKeepsPromises DEF DeliveryInv
  <2>4. SentItemsLanded' /\ BatchesJournalled'
    BY <2>2, <2>3 DEF DeliveryInv, SentItemsLanded, BatchesJournalled
  <2>5. QED
    BY <1>1, <2>3, <2>4 DEF DeliveryInv
<1>5. CASE UNCHANGED vars
  BY <1>1, <1>5 DEF vars, journalVars, DeliveryInv, SentIsInCloud, NothingLost, Custody,
                    Undelivered, Queued, SentItemsLanded, BatchesJournalled, QueuedJournalled
<1>6. QED
  BY <1>2, <1>3, <1>4, <1>5 DEF Next

\* It holds initially: nothing is queued, nobody works.
LEMMA DeliveryInvInit == ASSUME Init PROVE DeliveryInv
<1>1. TypeOK
  BY InitType
<1>2. QED
  BY <1>1 DEF Init, JournalInit, Idle, NoEntry, Keys, DeliveryInv, SentIsInCloud, NothingLost,
              Queued, SentItemsLanded, BatchesJournalled, QueuedJournalled

\* The delivery invariant holds in every reachable state.
THEOREM DeliverySafe == Spec => []DeliveryInv
<1>1. Init => DeliveryInv
  BY DeliveryInvInit
<1>2. DeliveryInv /\ [Next]_vars => DeliveryInv'
  BY DeliveryInvStep
<1>3. QED
  BY <1>1, <1>2, PTL DEF Spec

\* mark_sent tells the truth, however workers, crashes, retries and prunes
\* interleave: a sent entry's row is in the cloud.
THEOREM SentTellsTheTruth == Spec => []SentIsInCloud
<1>1. DeliveryInv => SentIsInCloud
  BY DEF DeliveryInv
<1>2. QED
  BY <1>1, DeliverySafe, PTL

\* Every key the outbox ever accepted is in the cloud or still undelivered in
\* the outbox.
THEOREM NoLoss == Spec => []NothingLost
<1>1. DeliveryInv => NothingLost
  BY DEF DeliveryInv
<1>2. QED
  BY <1>1, DeliverySafe, PTL

-----------------------------------------------------------------------------
(* The delivery path implements at-least-once delivery.                    *)

DeliveryStep == [Delivery!Next]_<<Custody, cloud, journalled>>

\* With the cloud as it was, what happens to the outbox is an Accept, a
\* Resend of delivered rows or a Release of delivered rows.
LEMMA EffectRefines ==
  ASSUME DeliveryInv, TypeOK', UNCHANGED cloud,
         \/ \E S \in SUBSET Key : Accepts(S)
         \/ Requeues
         \/ Forgets
         \/ \E S : S \subseteq cloud /\ Settles(S)
  PROVE  DeliveryStep
<1> USE DEF Custody, Undelivered, Queued, SameStatus
<1>0. \A k \in Key : outbox[k].status \in Statuses
  BY DEF DeliveryInv, TypeOK, JournalTypeOK, Entry
<1>1. \A k \in Key : outbox[k].status = "sent" => k \in cloud
  BY DEF DeliveryInv, SentIsInCloud
<1>2. CASE \E S \in SUBSET Key : Accepts(S)
  <2>1. PICK S \in SUBSET Key : Accepts(S)
    BY <1>2
  <2>2. Custody' = Custody \cup S
    BY <2>1 DEF Accepts
  <2>3. Delivery!Accept(S)
    BY <2>1, <2>2 DEF Accepts, Delivery!Accept
  <2>4. QED
    BY <2>1, <2>3 DEF DeliveryStep, Delivery!Next
<1>3. CASE Requeues
  <2>1. PICK S : S = Custody' \ Custody
    OBVIOUS
  <2>2. S \in SUBSET Key /\ S \subseteq cloud
    BY <1>0, <1>1, <1>3, <2>1 DEF Requeues, Statuses
  <2>3. Custody \subseteq Custody'
    BY <1>3 DEF Requeues
  <2>4. Custody' = Custody \cup S
    BY <2>1, <2>3
  <2>5. Delivery!Resend(S)
    BY <1>3, <2>2, <2>4 DEF Requeues, Delivery!Resend
  <2>6. QED
    BY <2>2, <2>5 DEF DeliveryStep, Delivery!Next
<1>4. CASE Forgets
  <2>1. Custody' = Custody
    BY <1>4 DEF Forgets
  <2>2. UNCHANGED <<Custody, cloud, journalled>>
    BY <1>4, <2>1 DEF Forgets
  <2>3. QED
    BY <2>2 DEF DeliveryStep
<1>5. CASE \E S : S \subseteq cloud /\ Settles(S)
  <2>1. PICK S : S \subseteq cloud /\ Settles(S)
    BY <1>5
  <2>2. PICK R : R = Custody \ Custody'
    OBVIOUS
  <2>3. R \in SUBSET Key /\ R \subseteq cloud
    BY <2>1, <2>2 DEF Settles
  <2>4. Custody' \subseteq Custody
    BY <2>1 DEF Settles
  <2>5. Custody' = Custody \ R
    BY <2>2, <2>4
  <2>6. Delivery!Release(R)
    BY <2>1, <2>3, <2>5 DEF Settles, Delivery!Release
  <2>7. QED
    BY <2>3, <2>6 DEF DeliveryStep, Delivery!Next
<1>6. QED
  BY <1>2, <1>3, <1>4, <1>5

\* With the journal as it was, what reaches the cloud comes from custody.
LEMMA LandingRefines ==
  ASSUME DeliveryInv, NEW w \in Worker, Drain(w), UNCHANGED journalVars
  PROVE  DeliveryStep
<1> DEFINE S == cloud' \ cloud
<1>1. cloud \subseteq cloud' /\ S \subseteq Keys(sync[w].batch)
  BY DrainCloud DEF DeliveryInv, TypeOK, SyncTypeOK
<1>2. S \subseteq journalled
  BY <1>1 DEF DeliveryInv, BatchesJournalled
<1>3. S \subseteq Custody /\ S \in SUBSET Key
  BY <1>2 DEF DeliveryInv, NothingLost, Custody
<1>4. Custody' = Custody /\ journalled' = journalled
  BY DEF journalVars, Custody, Undelivered
<1>5. cloud' = cloud \cup S
  BY <1>1
<1>6. Delivery!Land(S)
  BY <1>3, <1>4, <1>5 DEF Delivery!Land
<1>7. QED
  BY <1>3, <1>6 DEF DeliveryStep, Delivery!Next

\* Every step of the delivery path is a step of at-least-once delivery.
LEMMA NextRefines ==
  ASSUME DeliveryInv, [Next]_vars
  PROVE  DeliveryStep
<1>1. TypeOK /\ TypeOK'
  BY NextType DEF DeliveryInv
<1>2. ASSUME NEW w \in Worker, Drain(w) PROVE DeliveryStep
  <2>1. CASE UNCHANGED journalVars
    BY <1>2, <2>1, LandingRefines
  <2>2. CASE Settle(w) /\ sync[w].pc = "sent" /\ Settles(Keys(sync[w].hit))
    <3>1. Keys(sync[w].hit) \subseteq cloud
      BY <2>2 DEF DeliveryInv, SentItemsLanded
    <3>2. UNCHANGED cloud
      BY <2>2 DEF Settle, NextTable
    <3>3. QED
      BY <1>1, <2>2, <3>1, <3>2, EffectRefines
  <2>3. CASE Settle(w) /\ Requeues
    <3>1. UNCHANGED cloud
      BY <2>3 DEF Settle, NextTable
    <3>2. QED
      BY <1>1, <2>3, <3>1, EffectRefines
  <2>4. QED
    BY <1>1, <1>2, <2>1, <2>2, <2>3, DrainEffect
<1>3. CASE UNCHANGED <<journalVars, cloud>>
  BY <1>3 DEF DeliveryStep, journalVars, Custody, Undelivered
<1>4. CASE Journalling
  <2>1. (\E S \in SUBSET Key : Accepts(S)) \/ Requeues \/ Forgets
    BY <1>1, <1>4, JournallingEffect DEF TypeOK
  <2>2. UNCHANGED cloud
    BY <1>4 DEF Journalling
  <2>3. QED
    BY <1>1, <2>1, <2>2, EffectRefines
<1>5. QED
  BY <1>2, <1>3, <1>4 DEF Next, Crash, vars

\* The delivery path, with its queues, workers, crashes, retries and prunes,
\* implements AtLeastOnceDelivery.
THEOREM Refinement == Spec => ImplementsDelivery
<1>1. Init => Delivery!Init
  <2>1. ASSUME Init PROVE Custody = {}
    BY <2>1 DEF Init, JournalInit, NoEntry, Custody, Undelivered
  <2>2. QED
    BY <2>1 DEF Init, JournalInit, Delivery!Init
<1>2. DeliveryInv /\ [Next]_vars => [Delivery!Next]_<<Custody, cloud, journalled>>
  BY NextRefines DEF DeliveryStep
<1>3. QED
  BY <1>1, <1>2, DeliverySafe, PTL DEF Spec, ImplementsDelivery, Delivery!Spec

-----------------------------------------------------------------------------
(* Observations, rows and the prune.                                       *)

\* A worker's step leaves observations, rows and the prune alone, and the
\* entries stay queued.
LEMMA DrainRows ==
  ASSUME TypeOK, NEW w \in Worker, Drain(w)
  PROVE  /\ UNCHANGED <<raw, rows, prune>>
         /\ \A k \in Key : Queued(k) => outbox'[k].status # "none"
<1>1. UNCHANGED <<raw, rows, prune>>
  BY DrainJournal DEF journalVars, MarkSent, MarkFailed, Defer, OutboxOnly
<1>2. QED
  BY <1>1, DrainEffect DEF journalVars, Settles, Requeues, SameStatus, Queued

\* A writer's step is a Record or leaves observations and rows alone; the
\* entries that were queued stay queued and no prune moves.
LEMMA WritingRows ==
  ASSUME TypeOK, Writing
  PROVE  /\ UNCHANGED prune
         /\ \A k \in Key : Queued(k) => outbox'[k].status # "none"
         /\ \/ UNCHANGED <<raw, rows>>
            \/ \E o \in Obs, keys \in SUBSET RowKey : Record(o, keys)
<1>1. \/ \E o \in Obs, keys \in SUBSET RowKey : Record(o, keys)
      \/ \E r \in ReqObs : RecordRequest(r)
  <2>1. ASSUME NEW o \in Obs, NEW t, Backfill(o, t)
        PROVE  \E keys \in SUBSET RowKey : Record(o, keys)
    <3>1. {k \in RowsOf[parser][o] : TableOf[k] = t} \in SUBSET RowKey
      BY RowsOfType DEF TypeOK
    <3>2. QED
      BY <2>1, <3>1 DEF Backfill
  <2>2. ASSUME NEW o \in Obs, Collect(o)
        PROVE  \E keys \in SUBSET RowKey : Record(o, keys)
    BY <2>2, RowsOfType DEF Collect, TypeOK
  <2>3. QED
    BY <2>1, <2>2 DEF Writing
<1>2. \A k \in Key : Queued(k) => outbox'[k].status # "none"
  BY WritingEffect DEF TypeOK, Accepts, SameStatus, Queued
<1>3. QED
  BY <1>1, <1>2 DEF Record, RecordRequest

\* A Record keeps every row it finds and adds rows of a journalled observation.
LEMMA RecordRows ==
  ASSUME TypeOK, NEW o \in Obs, NEW keys \in SUBSET RowKey, Record(o, keys)
  PROVE  /\ raw' = raw \cup {o}
         /\ \A k \in RowKey : \/ rows'[k] = rows[k]
                              \/ rows[k] = NoObs /\ rows'[k] = o /\ ~Queued(k)
BY DEF Record, Fresh, Conflict

\* No row outlives its observation.
LEMMA RowHasSourceStep ==
  ASSUME TypeOK, RowHasSource, [Next]_vars
  PROVE  RowHasSource'
<1> USE DEF RowHasSource
<1>1. CASE UNCHANGED <<raw, rows>>
  BY <1>1
<1>2. CASE \E o \in Obs, keys \in SUBSET RowKey : Record(o, keys)
  BY <1>2, RecordRows
<1>3. CASE PruneRows
  BY <1>3 DEF PruneRows
<1>4. CASE PruneRaw
  <2>1. \A k \in RowKey : rows'[k] = rows[k]
    BY <1>4 DEF PruneRaw
  <2>2. CASE Referenced
    BY <1>4, <2>1, <2>2 DEF PruneRaw
  <2>3. CASE ~Referenced
    BY <1>4, <2>1, <2>3 DEF PruneRaw, Referenced
  <2>4. QED
    BY <2>2, <2>3
<1>5. CASE Writing
  BY <1>1, <1>2, <1>5, WritingRows
<1>6. CASE Retrying \/ Tick \/ UpgradeParser \/ \E k \in Key : BackoffElapses(k)
  BY <1>1, <1>6 DEF Retrying, RetryOutbox, Tick, UpgradeParser, BackoffElapses, OutboxOnly
<1>7. CASE Pruning /\ ~PruneRows /\ ~PruneRaw
  BY <1>1, <1>7 DEF Pruning, PruneHold, PruneClassify, PruneOutbox, PruneRequests,
                    PruneCrash
<1>8. ASSUME NEW w \in Worker, Drain(w) \/ Crash(w) PROVE RowHasSource'
  BY <1>1, <1>8, DrainRows DEF Crash, journalVars
<1>9. CASE UNCHANGED vars
  BY <1>1, <1>9 DEF vars, journalVars
<1>10. QED
  BY <1>3, <1>4, <1>5, <1>6, <1>7, <1>8, <1>9 DEF Next, Journalling

\* Every normalized row has its raw observation, whatever replays, backfills
\* and prunes interleave: the foreign key check of the prune's second
\* transaction is what carries the proof.
THEOREM FactsHaveSources == Spec => []RowHasSource
<1>1. Init => RowHasSource
  BY DEF Init, JournalInit, RowHasSource
<1>2. TypeOK /\ RowHasSource /\ [Next]_vars => RowHasSource'
  BY RowHasSourceStep
<1>3. QED
  BY <1>1, <1>2, TypeCorrect, PTL DEF Spec

\* What a running prune may rely on: the rows it found undelivered are still
\* queued and held until its first deletion.
PruneInv ==
  /\ prune.step \notin {"held", "classified"} => prune.undelivered = {}
  /\ prune.step \in {"held", "classified"} =>
       \A k \in prune.undelivered :
         /\ Queued(k)
         /\ rows[k] # NoObs => rows[k] \in prune.held
  /\ prune.step = "classified" => prune.doomed \cap prune.held = {}

\* The prune's reliance is inductive.
LEMMA PruneInvStep ==
  ASSUME TypeOK, PruneInv, [Next]_vars
  PROVE  PruneInv'
<1> USE DEF PruneInv, Queued
<1>0. /\ prune \in PruneType
      /\ RowKey \subseteq Key
  BY DEF TypeOK, JournalTypeOK, PruneType, Key
<1>1. ASSUME UNCHANGED <<rows, prune>>,
             \A k \in Key : Queued(k) => outbox'[k].status # "none"
      PROVE  PruneInv'
  BY <1>0, <1>1 DEF PruneType
<1>2. ASSUME NEW o \in Obs, NEW keys \in SUBSET RowKey, Record(o, keys), UNCHANGED prune,
             \A k \in Key : Queued(k) => outbox'[k].status # "none"
      PROVE  PruneInv'
  <2>1. \A k \in prune.undelivered : k \in RowKey
    BY <1>0 DEF PruneType
  <2>2. \A k \in RowKey : Queued(k) => rows'[k] = rows[k]
    BY <1>2, RecordRows
  <2>3. QED
    BY <1>0, <1>2, <2>1, <2>2
<1>3. CASE Writing
  BY <1>1, <1>2, <1>3, WritingRows
<1>4. CASE \E cutoff \in 1..now : PruneHold(cutoff)
  <2>1. PICK cutoff \in 1..now : PruneHold(cutoff)
    BY <1>4
  <2>2. /\ prune'.step = "held"
        /\ prune'.held = {rows[k] : k \in {j \in RowKey : Undelivered(j)}} \ {NoObs}
        /\ prune'.undelivered = {k \in RowKey : Undelivered(k)}
    BY <2>1 DEF PruneHold, NoPrune
  <2>3. rows' = rows /\ outbox' = outbox
    BY <2>1 DEF PruneHold
  <2>4. QED
    BY <2>2, <2>3 DEF Undelivered
<1>5. CASE PruneClassify
  <2>1. /\ prune'.step = "classified"
        /\ prune'.held = prune.held
        /\ prune'.undelivered = prune.undelivered
        /\ prune'.doomed \cap prune'.held = {}
    BY <1>0, <1>5 DEF PruneClassify, PruneType
  <2>2. QED
    BY <1>5, <2>1 DEF PruneClassify
<1>6. CASE PruneRows \/ PruneRaw \/ PruneOutbox \/ PruneRequests \/ PruneCrash
  <2>1. /\ prune'.step \notin {"held", "classified"}
        /\ prune'.undelivered = {}
    <3>1. NoPrune.step = "idle" /\ NoPrune.undelivered = {}
      BY DEF NoPrune
    <3>2. CASE PruneRows
      BY <1>0, <3>2 DEF PruneRows, PruneType
    <3>3. CASE PruneRaw
      BY <1>0, <3>1, <3>3 DEF PruneRaw, PruneType
    <3>4. CASE PruneOutbox
      BY <1>0, <3>4 DEF PruneOutbox, PruneType
    <3>5. CASE PruneRequests \/ PruneCrash
      BY <3>1, <3>5 DEF PruneRequests, PruneCrash
    <3>6. QED
      BY <1>6, <3>2, <3>3, <3>4, <3>5
  <2>2. QED
    BY <2>1
<1>7. CASE Retrying \/ Tick \/ UpgradeParser \/ \E k \in Key : BackoffElapses(k)
  <2>1. UNCHANGED <<rows, prune>>
    BY <1>7 DEF Retrying, RetryOutbox, Tick, UpgradeParser, BackoffElapses, OutboxOnly
  <2>2. \A k \in Key : Queued(k) => outbox'[k].status # "none"
    <3>1. \A k \in Key : outbox[k] \in Entry
      BY DEF TypeOK, JournalTypeOK
    <3>2. \A e \in Entry : [e EXCEPT !.status = "pending", !.attempts = 0,
                                    !.due = TRUE].status = "pending"
      BY DEF Entry
    <3>3. CASE Tick \/ UpgradeParser
      BY <3>3 DEF Tick, UpgradeParser
    <3>4. CASE Retrying
      <4>1. \A k \in Key : \/ outbox'[k] = outbox[k]
                           \/ outbox'[k] = [outbox[k] EXCEPT !.status = "pending",
                                                            !.attempts = 0, !.due = TRUE]
        BY <3>4 DEF Retrying, RetryOutbox
      <4>2. QED
        BY <3>1, <3>2, <4>1
    <3>5. CASE \E k \in Key : BackoffElapses(k)
      BY <3>5 DEF BackoffElapses, TypeOK, JournalTypeOK, Entry
    <3>6. QED
      BY <1>7, <3>3, <3>4, <3>5
  <2>3. QED
    BY <1>1, <2>1, <2>2
<1>8. ASSUME NEW w \in Worker, Drain(w) PROVE PruneInv'
  BY <1>1, <1>8, DrainRows
<1>9. ASSUME NEW w \in Worker, Crash(w) PROVE PruneInv'
  BY <1>1, <1>9 DEF Crash, journalVars
<1>10. CASE UNCHANGED vars
  BY <1>1, <1>10 DEF vars, journalVars
<1>11. QED
  BY <1>3, <1>4, <1>5, <1>6, <1>7, <1>8, <1>9, <1>10 DEF Next, Journalling, Pruning

\* A row undelivered when the prune read the outbox keeps its normalized row
\* as long as the prune remembers it.
LEMMA PruneKeepsStep ==
  ASSUME TypeOK, PruneInv, [Next]_vars
  PROVE  \A k \in prune.undelivered : rows[k] # NoObs => rows'[k] # NoObs
<1>0. /\ prune.undelivered \subseteq RowKey
      /\ NoObs \notin Obs
  BY ConstantsAssumption DEF TypeOK, JournalTypeOK
<1>1. CASE PruneRows
  <2>1. prune.step = "classified"
    BY <1>1 DEF PruneRows
  <2>2. ASSUME NEW k \in prune.undelivered, rows[k] # NoObs PROVE rows'[k] # NoObs
    <3>1. rows[k] \notin prune.doomed
      BY <2>1, <2>2 DEF PruneInv
    <3>2. rows'[k] = rows[k]
      BY <1>0, <1>1, <3>1 DEF PruneRows
    <3>3. QED
      BY <2>2, <3>2
  <2>3. QED
    BY <2>2
<1>2. CASE UNCHANGED rows
  BY <1>2
<1>3. CASE Writing
  <2>1. CASE UNCHANGED <<raw, rows>>
    BY <2>1
  <2>2. CASE \E o \in Obs, keys \in SUBSET RowKey : Record(o, keys)
    BY <1>0, <2>2, RecordRows
  <2>3. QED
    BY <1>3, <2>1, <2>2, WritingRows
<1>4. CASE Pruning /\ ~PruneRows
  BY <1>2, <1>4 DEF Pruning, PruneHold, PruneClassify, PruneRaw, PruneOutbox, PruneRequests,
                    PruneCrash
<1>5. CASE Retrying \/ Tick \/ UpgradeParser \/ \E k \in Key : BackoffElapses(k)
  BY <1>2, <1>5 DEF Retrying, RetryOutbox, Tick, UpgradeParser, BackoffElapses, OutboxOnly
<1>6. ASSUME NEW w \in Worker, Drain(w) \/ Crash(w) PROVE UNCHANGED rows
  BY <1>6, DrainRows DEF Crash, journalVars
<1>7. CASE UNCHANGED vars
  BY <1>2, <1>7 DEF vars, journalVars
<1>8. QED
  BY <1>1, <1>2, <1>3, <1>4, <1>5, <1>6, <1>7 DEF Next, Journalling

\* The prune never deletes the normalized row of a key that was undelivered
\* when the prune read the outbox.
THEOREM PruneSafe == Spec => PruneKeepsUndelivered
<1>1. Init => PruneInv
  BY DEF Init, JournalInit, NoPrune, PruneInv
<1>2. TypeOK /\ PruneInv /\ [Next]_vars => PruneInv'
  BY PruneInvStep
<1>3. TypeOK /\ PruneInv /\ [Next]_vars =>
        [\A k \in prune.undelivered : rows[k] # NoObs => rows'[k] # NoObs]_vars
  BY PruneKeepsStep
<1>4. QED
  BY <1>1, <1>2, <1>3, TypeCorrect, PTL DEF Spec, PruneKeepsUndelivered
===============================================================================
