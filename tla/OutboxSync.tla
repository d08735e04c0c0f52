------------------------------ MODULE OutboxSync ------------------------------
(***************************************************************************)
(* The delivery path: sync workers (sync/worker.py, run by dw-sync and by  *)
(* the operator's `sync` command, possibly both at once) drain the edge    *)
(* journal into Supabase while it is recorded to, retried and pruned.      *)
(*                                                                         *)
(* A drain is split where another process can act: reading the batch,      *)
(* every exchange with the cloud, and the journal transaction that settles *)
(* what the exchange said.  A worker can die between any two of them.      *)
(***************************************************************************)
EXTENDS EdgeJournal

CONSTANTS
  Worker,        \* sync processes sharing the journal
  Answers        \* what the cloud may answer: "accepted", "rejected", "unreachable"

ASSUME AnswersAssumption == Answers \subseteq {"accepted", "rejected", "unreachable"}

VARIABLES
  sync,          \* sync[w]: where worker w's drain stands
  cloud          \* keys whose row Supabase holds

vars == <<journalVars, sync, cloud>>

\* batch: items read and not yet settled; hit: the items the next journal
\* write is about.
Idle == [pc |-> "idle", batch |-> {}, hit |-> {}]

Init == JournalInit /\ sync = [w \in Worker |-> Idle] /\ cloud = {}

-----------------------------------------------------------------------------
(* drain_once.                                                             *)

\* The items of the table that sorts first among those of the batch.
CurrentTable(w) ==
  {i \in sync[w].batch : \A j \in sync[w].batch : TableOf[i[1]] <= TableOf[j[1]]}

Goto(w, pc, hit) == sync' = [sync EXCEPT ![w].pc = pc, ![w].hit = hit]

ReadBatch(w) ==
  /\ sync[w].pc = "idle"
  /\ \E B \in Batches :
       sync' = [sync EXCEPT ![w] = [pc |-> "register", batch |-> Items(B), hit |-> {}]]
  /\ UNCHANGED <<journalVars, cloud>>

\* Collector registration, the first network touch: failing, it settles the
\* whole batch.
Register(w, answer) ==
  /\ sync[w].pc = "register"
  /\ answer \in Answers
  /\ CASE answer = "accepted" -> Goto(w, "post", {})
       [] answer = "rejected" -> Goto(w, "failed", sync[w].batch)
       [] answer = "unreachable" -> Goto(w, "deferred", sync[w].batch)
  /\ UNCHANGED <<journalVars, cloud>>

\* The upsert of one table.  It goes up in several requests (one per column
\* set, halves after a timeout) and an answer can be lost after the commit,
\* so any part of the table may have landed when the upsert as a whole fails.
PostAccepted(w) ==
  /\ sync[w].pc = "post" /\ "accepted" \in Answers
  /\ cloud' = cloud \cup Keys(CurrentTable(w))
  /\ Goto(w, "sent", CurrentTable(w))
  /\ UNCHANGED journalVars

\* Mutation: a table that landed in part is taken for delivered.
PostRejectedIgnored(w) ==
  /\ sync[w].pc = "post" /\ "rejected" \in Answers
  /\ \E landed \in SUBSET Keys(CurrentTable(w)) : cloud' = cloud \cup landed
  /\ Goto(w, "sent", CurrentTable(w))
  /\ UNCHANGED journalVars


PostRejected(w) ==
  /\ sync[w].pc = "post" /\ "rejected" \in Answers
  /\ \E landed \in SUBSET Keys(CurrentTable(w)) : cloud' = cloud \cup landed
  /\ Goto(w, "failed", CurrentTable(w))
  /\ UNCHANGED journalVars

\* Nothing else of the batch is tried once the line is down.
PostUnreachable(w) ==
  /\ sync[w].pc = "post" /\ "unreachable" \in Answers
  /\ \E landed \in SUBSET Keys(CurrentTable(w)) : cloud' = cloud \cup landed
  /\ Goto(w, "deferred", sync[w].batch)
  /\ UNCHANGED journalVars

\* The next table, or the end of the drain.
NextTable(w) ==
  LET rest == sync[w].batch \ sync[w].hit
  IN  /\ sync' = [sync EXCEPT ![w] = IF rest = {} THEN Idle
                                     ELSE [pc |-> "post", batch |-> rest, hit |-> {}]]
      /\ UNCHANGED cloud

\* Mutation: the first table that lands settles the whole batch.
SettleBatch(w) ==
  /\ \/ sync[w].pc = "sent" /\ MarkSent(sync[w].batch)
     \/ sync[w].pc = "failed" /\ MarkFailed(sync[w].hit)
     \/ sync[w].pc = "deferred" /\ Defer(sync[w].hit)
  /\ NextTable(w)


Settle(w) ==
  /\ \/ sync[w].pc = "sent" /\ MarkSent(sync[w].hit)
     \/ sync[w].pc = "failed" /\ MarkFailed(sync[w].hit)
     \/ sync[w].pc = "deferred" /\ Defer(sync[w].hit)
  /\ NextTable(w)

\* The process is killed, or dies on an error the drain does not catch.
Crash(w) ==
  /\ sync[w].pc # "idle"
  /\ sync' = [sync EXCEPT ![w] = Idle]
  /\ UNCHANGED <<journalVars, cloud>>

-----------------------------------------------------------------------------

Drain(w) ==
  \/ ReadBatch(w)
  \/ \E answer \in Answers : Register(w, answer)
  \/ PostAccepted(w)
  \/ PostRejected(w)
  \/ PostUnreachable(w)
  \/ Settle(w)

Journalling ==
  /\ Writing \/ Retrying \/ Pruning \/ Tick \/ UpgradeParser
     \/ \E k \in Key : BackoffElapses(k)
  /\ UNCHANGED <<sync, cloud>>

Next ==
  \/ \E w \in Worker : Drain(w) \/ Crash(w)
  \/ Journalling

Spec == Init /\ [][Next]_vars

-----------------------------------------------------------------------------
(* Fairness.  dw-sync drains in a loop and is restarted when it dies, and  *)
(* time passes for a backoff.  An outage ends and the line then stays up   *)
(* for a while: a worker that keeps registering is answered, and so is one *)
(* that keeps posting.  Crashes and the operator's retries come to an end. *)

Fairness ==
  /\ \A w \in Worker :
       /\ WF_vars(Drain(w))
       /\ SF_vars(Register(w, "accepted"))
       /\ SF_vars(PostAccepted(w) \/ PostRejected(w))
  /\ \A k \in Key : WF_vars(BackoffElapses(k) /\ UNCHANGED <<sync, cloud>>)
  /\ <>[][~(Retrying /\ UNCHANGED <<sync, cloud>>)]_vars
  /\ <>[][\A w \in Worker : ~Crash(w)]_vars

FairSpec == Spec /\ Fairness

-----------------------------------------------------------------------------
(* Properties.                                                             *)

Pcs == {"idle", "register", "post", "sent", "failed", "deferred"}

Item == Key \X Nat

JournalTypeOK ==
  /\ raw \in SUBSET Obs
  /\ rows \in [RowKey -> Obs \cup {NoObs}]
  /\ outbox \in [Key -> Entry]
  /\ requests \in SUBSET ReqObs
  /\ shapesSeen \in SUBSET ReqKey
  /\ lastId \in Nat
  /\ now \in Nat
  /\ parser \in 1..Parsers
  /\ prune \in [step: PruneSteps, cutoff: Nat, held: SUBSET Obs, doomed: SUBSET Obs,
                undelivered: SUBSET RowKey]
  /\ journalled \in SUBSET Key

\* Every variable stays within the values its table or process can hold.
TypeOK ==
  /\ JournalTypeOK
  /\ sync \in [Worker -> [pc: Pcs, batch: SUBSET Item, hit: SUBSET Item]]
  /\ cloud \in SUBSET Key

\* mark_sent tells the truth: an entry marked sent has its row in the cloud,
\* whatever crashes, half-done upserts, second workers and prunes did before.
SentIsInCloud == \A k \in Key : outbox[k].status = "sent" => k \in cloud

\* Keys the journal still answers for.
Custody == {k \in Key : Undelivered(k)}

\* Nothing the journal ever accepted is lost: it is in the cloud, or it is
\* still pending or dead lettered (the promise of the outbox, and the reason
\* prune deletes delivered entries only).
NothingLost == journalled \subseteq cloud \cup Custody

\* Facts never exist without the observation they came from: every
\* normalized row has its raw observation, through replays and prunes.
RowHasSource == \A k \in RowKey : rows[k] # NoObs => rows[k] \in raw

\* prune's promise as far as it holds: a row undelivered when the prune read
\* the outbox keeps its normalized row, however old its observation is.
PruneKeepsUndelivered ==
  [][\A k \in prune.undelivered : rows[k] # NoObs => rows'[k] # NoObs]_vars

\* An outage says nothing about the rows: with a cloud that accepts what
\* reaches it, every pending row is delivered in the end, however often the
\* line was down, and no row is given up on.
PendingIsDelivered == \A k \in Key : outbox[k].status = "pending" ~> k \in cloud

\* The delivery path implements at-least-once delivery: custody is what is
\* undelivered, and no step releases a row the cloud does not have or lands
\* one the journal does not answer for.
Delivery == INSTANCE AtLeastOnceDelivery WITH custody <- Custody, accepted <- journalled

ImplementsDelivery == Delivery!Spec

-----------------------------------------------------------------------------
(* Claims of the documentation that the code does not keep.                *)

\* "An observation whose rows are still pending or dead lettered stays,
\* however old it is": no prune takes the normalized row of an undelivered key.
PruneRefusesUndelivered ==
  [][\A k \in RowKey : Undelivered(k) /\ rows[k] # NoObs => rows'[k] # NoObs]_vars

\* "replays are no-ops": recording an observation never raises.
ReplayIsNoOp ==
  \A o \in Obs : CapturedAt[o] <= now => ~Conflict(RowsOf[parser][o])

=============================================================================
