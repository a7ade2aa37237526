---------------------------- MODULE GuardReplayProofs ----------------------------
(***************************************************************************)
(* Facts about the replay window's operators, for every size of the        *)
(* sequence space and every depth of the ring.                             *)
(***************************************************************************)
EXTENDS GuardReplay, WellFoundedInduction, TLAPS

\* Whatever depth is configured, the ring has between one slot and CacheMax:
\* guard_replay_commit never divides by zero and never leaves the array.
LEMMA DepthBounds == Depth \in Nat /\ 1 <= Depth /\ Depth <= CacheMax
  BY CacheMaxAssumption DEF Depth

\* The unsigned difference is again a number of the sequence space, and zero
\* only between equal numbers.
LEMMA SeqDiffType ==
  ASSUME NEW a \in Seqs, NEW b \in Seqs
  PROVE  SeqDiff(a, b) \in Seqs /\ (SeqDiff(a, b) = 0 <=> a = b)
  BY HalfAssumption DEF Seqs, SeqDiff

\* Distances add up modulo the sequence space; as long as the sum stays below
\* its size nothing wraps.
LEMMA SeqDiffAdds ==
  ASSUME NEW a \in Seqs, NEW b \in Seqs, NEW c \in Seqs,
         SeqDiff(a, b) + SeqDiff(b, c) < 2 * Half
  PROVE  SeqDiff(a, c) = SeqDiff(a, b) + SeqDiff(b, c)
  BY HalfAssumption DEF Seqs, SeqDiff

\* Two different numbers are ahead of each other by distances that make up the
\* whole sequence space.
LEMMA DistancesMakeUpSpace ==
  ASSUME NEW a \in Seqs, NEW b \in Seqs, a # b
  PROVE  SeqDiff(a, b) + SeqDiff(b, a) = 2 * Half
  BY HalfAssumption DEF Seqs, SeqDiff

\* The zeroed record of guard_replay_init is a replay window.
LEMMA InitialWindowType ==
  ASSUME NEW Crcs, NEW Replies
  PROVE  InitialWindow \in Windows(Crcs, Replies)
  BY DepthBounds, HalfAssumption
     DEF InitialWindow, Windows, Seqs, Slots, SlotValues, EmptySlot

\* A commit keeps the record's shape: the ring index wraps, the slot written
\* exists, the window moves to a number of the sequence space.
LEMMA CommitType ==
  ASSUME NEW Crcs, NEW Replies, NEW w \in Windows(Crcs, Replies),
         NEW seq \in Seqs, NEW crc \in Crcs, NEW reply \in Replies
  PROVE  Commit(w, seq, crc, reply) \in Windows(Crcs, Replies)
<1>1. /\ w.valid \in BOOLEAN /\ w.last_seq \in Seqs /\ w.next \in Slots
      /\ w.cache \in [Slots -> SlotValues(Crcs, Replies)]
  BY DEF Windows
<1>2. IsFresh(w, seq) \in BOOLEAN
  BY DEF IsFresh
<1>3. FilledSlot(seq, crc, reply) \in SlotValues(Crcs, Replies)
  BY DEF FilledSlot, SlotValues
<1>4. [w.cache EXCEPT ![w.next] = FilledSlot(seq, crc, reply)]
        \in [Slots -> SlotValues(Crcs, Replies)]
  BY <1>1, <1>3
<1>5. (IF w.next + 1 = Depth THEN 0 ELSE w.next + 1) \in Slots
  BY <1>1, DepthBounds DEF Slots
<1>6. (w.valid \/ IsFresh(w, seq)) \in BOOLEAN
  BY <1>1, <1>2
<1>7. (IF IsFresh(w, seq) THEN seq ELSE w.last_seq) \in Seqs
  BY <1>1
<1> QED BY <1>4, <1>5, <1>6, <1>7 DEF Commit, Windows

\* A commit under a fresh number makes it the last one; no other commit moves
\* the window, and a commit leaves no number equal to it fresh.
LEMMA CommitMoves ==
  ASSUME NEW Crcs, NEW Replies, NEW w \in Windows(Crcs, Replies),
         NEW seq \in Seqs, NEW crc, NEW reply
  PROVE  LET after == Commit(w, seq, crc, reply)
         IN  /\ after.last_seq = IF IsFresh(w, seq) THEN seq ELSE w.last_seq
             /\ after.valid
             /\ ~IsFresh(after, seq)
<1> DEFINE after == Commit(w, seq, crc, reply)
<1>1. /\ after.valid = (w.valid \/ IsFresh(w, seq))
      /\ after.last_seq = IF IsFresh(w, seq) THEN seq ELSE w.last_seq
  BY DEF Commit
<1>2. after.valid
  BY <1>1 DEF IsFresh
<1>3. ASSUME IsFresh(w, seq) PROVE ~IsFresh(after, seq)
  <2>1. SeqDiff(seq, seq) = 0
    BY SeqDiffType
  <2> QED BY <2>1, <1>1, <1>2, <1>3, HalfAssumption DEF IsFresh
<1>4. ASSUME ~IsFresh(w, seq) PROVE ~IsFresh(after, seq)
  BY <1>1, <1>2, <1>4 DEF IsFresh
<1> QED BY <1>1, <1>2, <1>3, <1>4

\* cache_find finds a slot with the number if there is one.
LEMMA FirstSlotFound ==
  ASSUME NEW w, NEW seq, SlotsOf(w, seq) # {}
  PROVE  FirstSlot(w, seq) \in SlotsOf(w, seq)
<1> DEFINE S == SlotsOf(w, seq)
<1>1. S \subseteq Nat /\ S # {}
  BY DepthBounds DEF SlotsOf, Slots
<1>2. \E i \in S : \A j \in S : <<j, i>> \notin OpToRel(<, Nat)
  <2> HIDE DEF S
  <2> QED BY <1>1, NatLessThanWellFounded, WFMin
<1>3. \E i \in S : \A j \in S : i <= j
  <2>1. PICK i \in S : \A j \in S : <<j, i>> \notin OpToRel(<, Nat)
    BY <1>2
  <2>2. ASSUME NEW j \in S PROVE i <= j
    <3>1. i \in Nat /\ j \in Nat
      BY <1>1
    <3>2. ~(j < i)
      <4>1. <<j, i>> \in Nat \X Nat /\ <<j, i>>[1] = j /\ <<j, i>>[2] = i
        BY <3>1
      <4> HIDE DEF S
      <4> QED BY <2>1, <4>1, Zenon DEF OpToRel
    <3> QED BY <3>1, <3>2
  <2> QED BY <2>2
<1> QED BY <1>3 DEF FirstSlot

=============================================================================
