------------------------------ MODULE GuardReplay ------------------------------
(***************************************************************************)
(* guard_replay.c: the sliding sequence window and the ring of cached      *)
(* replies, as operators on the guard_replay_t record                      *)
(*   [valid, last_seq, next, cache]                                        *)
(* Sequence numbers are unsigned and wrap: 2 * Half stands for 2^32, so    *)
(* Half is the first difference whose signed reading is negative.          *)
(***************************************************************************)
EXTENDS Integers

CONSTANTS
  Half,            \* half the sequence space (2^31 in the code)
  CacheMax,        \* GUARD_REPLAY_CACHE_MAX (16 in the code)
  SeqCacheDepth    \* cfg->seq_cache_depth, a uint16

ASSUME HalfAssumption == Half \in Nat /\ Half >= 1
ASSUME CacheMaxAssumption == CacheMax \in Nat /\ CacheMax >= 1
ASSUME SeqCacheDepthAssumption == SeqCacheDepth \in Nat

Seqs == 0 .. (2 * Half - 1)

\* The caller narrows the configured depth to a byte; zero and anything past
\* the array mean the whole array.
Depth ==
  LET narrowed == SeqCacheDepth % 256
  IN  IF narrowed \in 1 .. CacheMax THEN narrowed ELSE CacheMax

Slots == 0 .. (Depth - 1)

EmptySlot == [used |-> FALSE]
FilledSlot(seq, crc, reply) == [used |-> TRUE, seq |-> seq, crc |-> crc, reply |-> reply]
SlotValues(Crcs, Replies) ==
  {EmptySlot} \cup [used : {TRUE}, seq : Seqs, crc : Crcs, reply : Replies]

Windows(Crcs, Replies) ==
  [valid : BOOLEAN, last_seq : Seqs, next : Slots,
   cache : [Slots -> SlotValues(Crcs, Replies)]]

InitialWindow ==
  [valid |-> FALSE, last_seq |-> 0, next |-> 0, cache |-> [i \in Slots |-> EmptySlot]]

-----------------------------------------------------------------------------

\* The unsigned difference (uint32_t)(a - b).
SeqDiff(a, b) == IF a >= b THEN a - b ELSE a - b + 2 * Half

\* Mutant of IsFresh: only the number seen last is refused.
IsFreshUnlessLast(w, seq) == ~w.valid \/ seq # w.last_seq

\* seq_is_fresh: the signed reading of the difference is positive.
IsFresh(w, seq) == ~w.valid \/ SeqDiff(seq, w.last_seq) \in 1 .. (Half - 1)

\* Mutant of SlotsOf: the search stops one slot short of the depth.
SlotsOfButLast(w, seq) == {i \in Slots \ {Depth - 1} : w.cache[i].used /\ w.cache[i].seq = seq}

\* cache_find returns the lowest slot that holds seq.
SlotsOf(w, seq) == {i \in Slots : w.cache[i].used /\ w.cache[i].seq = seq}
FirstSlot(w, seq) == CHOOSE i \in SlotsOf(w, seq) : \A j \in SlotsOf(w, seq) : i <= j

\* Mutant of IsCached: the fingerprint of the payload is not compared.
IsCachedAnyPayload(w, seq, crc) == ~IsFresh(w, seq) /\ SlotsOf(w, seq) # {}

IsCached(w, seq, crc) ==
  /\ ~IsFresh(w, seq)
  /\ SlotsOf(w, seq) # {}
  /\ w.cache[FirstSlot(w, seq)].crc = crc

IsStale(w, seq, crc) == ~IsFresh(w, seq) /\ ~IsCached(w, seq, crc)

CachedReply(w, seq) == w.cache[FirstSlot(w, seq)].reply

\* Mutant of Commit: the ring index is incremented without the modulo.
CommitNoWrap(w, seq, crc, reply) ==
  [valid    |-> w.valid \/ IsFresh(w, seq),
   last_seq |-> IF IsFresh(w, seq) THEN seq ELSE w.last_seq,
   next     |-> w.next + 1,
   cache    |-> [w.cache EXCEPT ![w.next] = FilledSlot(seq, crc, reply)]]

\* Mutant of Commit: the reply is cached but the window does not move.
CommitCacheOnly(w, seq, crc, reply) ==
  [w EXCEPT !.next = IF @ + 1 = Depth THEN 0 ELSE @ + 1,
            !.cache[w.next] = FilledSlot(seq, crc, reply)]

\* Mutant of Commit: the window follows every number, fresh or not.
CommitFollows(w, seq, crc, reply) ==
  [valid    |-> TRUE,
   last_seq |-> seq,
   next     |-> IF w.next + 1 = Depth THEN 0 ELSE w.next + 1,
   cache    |-> [w.cache EXCEPT ![w.next] = FilledSlot(seq, crc, reply)]]

\* guard_replay_commit: always takes the next slot of the ring, moves the
\* window only when seq is fresh.
Commit(w, seq, crc, reply) ==
  [valid    |-> w.valid \/ IsFresh(w, seq),
   last_seq |-> IF IsFresh(w, seq) THEN seq ELSE w.last_seq,
   next     |-> IF w.next + 1 = Depth THEN 0 ELSE w.next + 1,
   cache    |-> [w.cache EXCEPT ![w.next] = FilledSlot(seq, crc, reply)]]

=============================================================================
