------------------------------ MODULE Reassembler ------------------------------
(***************************************************************************)
(* One direction of one game connection put back in order                  *)
(* (TCPDirectionReassembler in protocol/pcapng.py): what the sniffer       *)
(* captured of it, lost, repeated and reordered as it comes, in; the bytes *)
(* the frame decoder is given, out.                                        *)
(*                                                                         *)
(* A byte is its offset in the stream, so that losing, repeating and       *)
(* reordering bytes shows.  A segment's sequence number is taken modulo    *)
(* Modulus, and the code adds and compares these numbers as integers.  The *)
(* clock is the fact that a gap is older than GAP_TIMEOUT_SECONDS.         *)
(***************************************************************************)
EXTENDS Integers, FiniteSets, FiniteSetsExt, Sequences

CONSTANTS
  Segments,      \* <<offset, length>> of what the sniffer may capture
  InitialSequence, \* sequence number of offset 0
  Modulus,       \* 2^32 in TCP
  MaxPending     \* MAX_PENDING_SEGMENTS

ASSUME StreamAssumption ==
  /\ Segments \subseteq Nat \X (Nat \ {0})
  /\ Modulus \in Nat \ {0}
  /\ InitialSequence \in 0..Modulus - 1
  /\ MaxPending \in Nat \ {0}

VARIABLES
  next,          \* next_sequence, or Unknown before the first segment
  pending,       \* chunks waiting, at most one per sequence number
  gap,           \* gap_since: "none", "fresh" or longer ago than the time-out
  skips,         \* gap_skips
  fed            \* the bytes given to the decoder, in order

vars == <<next, pending, gap, skips, fed>>

Unknown == -1

Init ==
  /\ next = Unknown
  /\ pending = {}
  /\ gap = "none"
  /\ skips = 0
  /\ fed = <<>>

Sequence(offset) == (InitialSequence + offset) % Modulus

-----------------------------------------------------------------------------

Bytes(chunk) == [i \in 1..chunk.len |-> chunk.from + i - 1]

\* Mutation: what was delivered already is not cut off.
Untrimmed(offset, len, base) ==
  [seq |-> Max({Sequence(offset), base}), from |-> offset, len |-> len]

\* A segment without what was delivered of it already.
Trimmed(offset, len, base) ==
  LET overlap == Max({0, base - Sequence(offset)})
  IN  [seq |-> Sequence(offset) + overlap, from |-> offset + overlap, len |-> len - overlap]

\* Of two chunks that start together the longer one is kept.
Buffered(chunk) ==
  LET same == {p \in pending : p.seq = chunk.seq}
  IN  IF \E p \in same : p.len >= chunk.len THEN pending
      ELSE (pending \ same) \cup {chunk}

\* Takes the chunk that starts at s.next, if there is one.
Taken(s) ==
  LET here == {p \in s.pending : p.seq = s.next}
  IN  IF here = {} THEN s
      ELSE LET chunk == CHOOSE p \in here : TRUE
           IN  [next |-> s.next + chunk.len, pending |-> s.pending \ here,
                fed |-> s.fed \o Bytes(chunk)]

\* Takes chunks for as long as they are contiguous.
Drained(s) ==
  LET bound == Cardinality(s.pending)
      taken[n \in 0..bound] == IF n = 0 THEN s ELSE Taken(taken[n - 1])
  IN  taken[bound]

Lowest(chunks) == Min({p.seq : p \in chunks})

\* Past the gap to the lowest sequence number there is.
Jumped(s) == Drained([s EXCEPT !.next = Lowest(s.pending)])

\* The gap is given up: too much waits behind it, or it is too old.
Stuck(s) == s.pending # {} /\ (Cardinality(s.pending) > MaxPending \/ gap = "old")

\* feed: a pure retransmission returns before it looks at the gap.
Feed(offset, len) ==
  LET base == IF next = Unknown THEN Sequence(offset) ELSE next
      first == Drained([next |-> base, pending |-> Buffered(Trimmed(offset, len, base)),
                        fed |-> fed])
      last == IF Stuck(first) THEN Jumped(first) ELSE first
  IN  /\ Sequence(offset) + len > base
      /\ next' = last.next
      /\ pending' = last.pending
      /\ fed' = last.fed
      /\ skips' = IF Stuck(first) THEN skips + 1 ELSE skips
      /\ gap' = CASE last.pending = {} -> "none"
                  [] last.pending # {} /\ (gap = "none" \/ Stuck(first)) -> "fresh"
                  [] OTHER -> gap

GapAges == gap = "fresh" /\ gap' = "old" /\ UNCHANGED <<next, pending, skips, fed>>

-----------------------------------------------------------------------------

Next == GapAges \/ \E s \in Segments : Feed(s[1], s[2])

Spec == Init /\ [][Next]_vars

-----------------------------------------------------------------------------
(* Properties.                                                             *)

Chunk == [seq: Nat, from: Nat, len: Nat \ {0}]

\* The buffer is bounded, and only a gap has an age.
TypeOK ==
  /\ next \in Nat \cup {Unknown}
  /\ pending \subseteq Chunk /\ Cardinality(pending) <= MaxPending
  /\ gap \in {"none", "fresh", "old"} /\ (gap = "none" <=> pending = {})
  /\ skips \in Nat
  /\ fed \in Seq(Nat)

\* "Directional in-order reassembly": the decoder gets no byte twice and none
\* after a later one, whatever was lost, repeated or reordered on the way and
\* whenever a gap was given up.
InOrder == \A i \in 2..Len(fed) : fed[i - 1] < fed[i]

\* Every hole in what the decoder got is a gap skip that was counted.
HolesAreCounted ==
  Cardinality({i \in 2..Len(fed) : fed[i] # fed[i - 1] + 1}) <= skips

\* What waits waits for something: every chunk kept lies ahead of the byte
\* expected next, so it is deliverable one day and never again after that.
WaitingIsAhead == \A p \in pending : p.seq > next
================================================================================
