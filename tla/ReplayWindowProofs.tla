--------------------------- MODULE ReplayWindowProofs ---------------------------
(***************************************************************************)
(* The replay window under arbitrary traffic, proved for every size of the *)
(* sequence space (2^32 in the code) and every depth of the ring: types,   *)
(* that no number is judged twice inside the window, and that the ring     *)
(* holds the latest commits, each in the slot its age says, and nothing    *)
(* else, so that the cache serves exactly the recent replies.              *)
(***************************************************************************)
EXTENDS ReplayWindow, GuardReplayProofs

\* hex4_guard_init leaves a well-formed, empty window.
LEMMA TypeInit == Init => TypeOK
<1> SUFFICES ASSUME Init PROVE TypeOK
  OBVIOUS
<1>1. window \in Windows(Crcs, Replies)
  BY InitialWindowType DEF Init
<1>2. since \in [Seqs -> 0 .. Half]
  BY HalfAssumption DEF Init
<1>3. recent \in Seq([seq : Seqs, crc : Crcs, reply : Replies]) /\ Len(recent) <= Depth
  BY DepthBounds DEF Init
<1> QED BY <1>1, <1>2, <1>3 DEF TypeOK

\* The history of commits keeps to the ring's depth.
LEMMA RememberType ==
  ASSUME TypeOK, NEW seq \in Seqs, NEW crc \in Crcs, NEW reply \in Replies,
         ReplyAndCommit(seq, crc, reply)
  PROVE  /\ window' \in Windows(Crcs, Replies)
         /\ recent' \in Seq([seq : Seqs, crc : Crcs, reply : Replies])
         /\ Len(recent') <= Depth
<1> DEFINE Entry == [seq : Seqs, crc : Crcs, reply : Replies]
           e == [seq |-> seq, crc |-> crc, reply |-> reply]
<1>1. window' \in Windows(Crcs, Replies)
  BY CommitType DEF TypeOK, ReplyAndCommit
<1>2. e \in Entry
  OBVIOUS
<1>3. recent \in Seq(Entry) /\ Len(recent) <= Depth /\ Len(recent) \in Nat
  BY DEF TypeOK
<1>4. CASE Len(recent) < Depth
  <2>1. recent' = Append(recent, e)
    BY <1>4 DEF ReplyAndCommit, Remember
  <2> HIDE DEF Entry, e
  <2> QED BY <1>1, <1>2, <1>3, <1>4, <2>1, DepthBounds DEF Entry
<1>5. CASE ~(Len(recent) < Depth)
  <2>1. recent' = Append(Tail(recent), e)
    BY <1>5 DEF ReplyAndCommit, Remember
  <2>2. recent # <<>>
    BY <1>3, <1>5, DepthBounds
  <2> HIDE DEF Entry, e
  <2>3. Tail(recent) \in Seq(Entry) /\ Len(Tail(recent)) = Len(recent) - 1
    BY <1>3, <2>2
  <2>4. Append(Tail(recent), e) \in Seq(Entry) /\ Len(Append(Tail(recent), e)) = Len(recent)
    BY <1>2, <1>3, <2>3
  <2> QED BY <1>1, <1>3, <2>1, <2>4 DEF Entry
<1> QED BY <1>4, <1>5

\* The history's distances stay within their cap.
LEMMA AgedType ==
  ASSUME TypeOK, NEW s \in Seqs, NEW by \in Nat
  PROVE  Aged(s, by) \in 0 .. Half
  BY HalfAssumption DEF TypeOK, Aged

\* The window only ever advances.
LEMMA AdvanceType ==
  ASSUME TypeOK, NEW seq \in Seqs
  PROVE  Advance(seq) \in Nat
<1>1. window.last_seq \in Seqs
  BY DEF TypeOK, Windows
<1>2. SeqDiff(seq, window.last_seq) \in Nat
  <2>1. SeqDiff(seq, window.last_seq) \in Seqs
    BY <1>1, SeqDiffType
  <2>2. Seqs \subseteq Nat
    BY HalfAssumption DEF Seqs
  <2> QED BY <2>1, <2>2
<1>3. CASE window.valid /\ IsFresh(window, seq)
  BY <1>2, <1>3 DEF Advance
<1>4. CASE ~(window.valid /\ IsFresh(window, seq))
  BY <1>4 DEF Advance
<1> QED BY <1>3, <1>4

\* Every way to handle a frame preserves the types.
LEMMA TypeNext == TypeOK /\ [Next]_vars => TypeOK'
<1> SUFFICES ASSUME TypeOK, [Next]_vars PROVE TypeOK'
  OBVIOUS
<1> USE DEF Replies
<1>1. ASSUME NEW seq \in Seqs, NEW crc \in Crcs, NEW reply \in Verdicts, Accept(seq, crc, reply)
      PROVE  TypeOK'
  <2>1. \A s \in Seqs : Aged(s, Advance(seq)) \in 0 .. Half
    BY AgedType, AdvanceType
  <2>2. since' \in [Seqs -> 0 .. Half]
    BY <1>1, <2>1, HalfAssumption DEF Accept
  <2>3. ReplyAndCommit(seq, crc, reply)
    BY <1>1 DEF Accept
  <2> QED BY <2>2, <2>3, RememberType DEF TypeOK
<1>2. ASSUME NEW seq \in Seqs, NEW crc \in Crcs, Reject(seq, crc)
      PROVE  TypeOK'
  <2>1. ReplyAndCommit(seq, crc, DenyReplay) /\ since' = since
    BY <1>2 DEF Reject
  <2> QED BY <2>1, RememberType DEF TypeOK
<1>3. ASSUME NEW seq \in Seqs, NEW crc \in Crcs, Malformed(seq, crc)
      PROVE  TypeOK'
  <2>1. \A s \in Seqs : Aged(s, Advance(seq)) \in 0 .. Half
    BY AgedType, AdvanceType
  <2>2. since' \in [Seqs -> 0 .. Half]
    BY <1>3, <2>1, HalfAssumption DEF Malformed
  <2>3. ReplyAndCommit(seq, crc, DenyEncoding)
    BY <1>3 DEF Malformed
  <2> QED BY <2>2, <2>3, RememberType DEF TypeOK
<1>4. CASE UNCHANGED vars
  BY <1>4 DEF TypeOK, vars
<1> QED BY <1>1, <1>2, <1>3, <1>4 DEF Next

\* The replay record, its ring index and the histories keep their types: in
\* particular the ring is never indexed outside the configured depth.
THEOREM TypeCorrect == Spec => []TypeOK
  BY TypeInit, TypeNext, PTL DEF Spec

-----------------------------------------------------------------------------

\* A commit under seq moves the window by Advance(seq), so the distance to every
\* number accepted within half the sequence space grows by just that.
LEMMA CommitAges ==
  ASSUME TypeOK, WindowInv, NEW seq \in Seqs, NEW crc, NEW reply, NEW s \in Seqs,
         window' = Commit(window, seq, crc, reply),
         Aged(s, Advance(seq)) < Half
  PROVE  window'.valid /\ SeqDiff(window'.last_seq, s) = Aged(s, Advance(seq))
<1> DEFINE d == Advance(seq)
<1>1. window \in Windows(Crcs, Replies) /\ window.last_seq \in Seqs /\ since[s] \in 0 .. Half
  BY DEF TypeOK, Windows
<1>2. d \in Nat
  BY AdvanceType
<1>3. since[s] + d < Half /\ Aged(s, d) = since[s] + d
  BY <1>1, <1>2, HalfAssumption DEF Aged
<1>4. window.valid /\ SeqDiff(window.last_seq, s) = since[s]
  BY <1>1, <1>2, <1>3, HalfAssumption DEF WindowInv
<1>5. /\ window'.valid
      /\ window'.last_seq = IF IsFresh(window, seq) THEN seq ELSE window.last_seq
  BY <1>1, CommitMoves
<1>6. CASE IsFresh(window, seq)
  <2>1. d = SeqDiff(seq, window.last_seq)
    BY <1>4, <1>6 DEF Advance
  <2>2. SeqDiff(seq, window.last_seq) + SeqDiff(window.last_seq, s) < 2 * Half
    BY <1>1, <1>2, <1>3, <1>4, <2>1, HalfAssumption
  <2>3. SeqDiff(seq, s) = SeqDiff(seq, window.last_seq) + SeqDiff(window.last_seq, s)
    BY <1>1, <2>2, SeqDiffAdds
  <2> QED BY <1>1, <1>2, <1>3, <1>4, <1>5, <1>6, <2>1, <2>3
<1>7. CASE ~IsFresh(window, seq)
  <2>1. d = 0
    BY <1>7 DEF Advance
  <2> QED BY <1>1, <1>3, <1>4, <1>5, <1>7, <2>1
<1> QED BY <1>6, <1>7

\* Every way to handle a frame preserves the remembered distances.
LEMMA WindowNext == TypeOK /\ WindowInv /\ [Next]_vars => WindowInv'
<1> SUFFICES ASSUME TypeOK, WindowInv, [Next]_vars, NEW s \in Seqs, since'[s] < Half
             PROVE  window'.valid /\ SeqDiff(window'.last_seq, s) = since'[s]
  BY DEF WindowInv
<1>1. ASSUME NEW seq \in Seqs, NEW crc \in Crcs, NEW reply \in Verdicts, Accept(seq, crc, reply)
      PROVE  window'.valid /\ SeqDiff(window'.last_seq, s) = since'[s]
  <2>1. /\ window' = Commit(window, seq, crc, reply) /\ IsFresh(window, seq)
        /\ since' = [t \in Seqs |-> IF t = seq THEN 0 ELSE Aged(t, Advance(seq))]
    BY <1>1 DEF Accept, ReplyAndCommit
  <2>2. CASE s = seq
    <3>1. window'.valid /\ window'.last_seq = seq
      BY <2>1, CommitMoves DEF TypeOK
    <3>2. since'[s] = 0
      BY <2>1, <2>2
    <3> QED BY <2>2, <3>1, <3>2, SeqDiffType
  <2>3. CASE s # seq
    <3>1. since'[s] = Aged(s, Advance(seq))
      BY <2>1, <2>3
    <3> QED BY <2>1, <3>1, CommitAges
  <2> QED BY <2>2, <2>3
<1>2. ASSUME NEW seq \in Seqs, NEW crc \in Crcs, Reject(seq, crc)
      PROVE  window'.valid /\ SeqDiff(window'.last_seq, s) = since'[s]
  <2>1. /\ window' = Commit(window, seq, crc, DenyReplay) /\ ~IsFresh(window, seq)
        /\ since' = since
    BY <1>2 DEF Reject, ReplyAndCommit, IsStale
  <2>2. window'.valid /\ window'.last_seq = window.last_seq
    BY <2>1, CommitMoves DEF TypeOK
  <2> QED BY <2>1, <2>2 DEF WindowInv
<1>3. ASSUME NEW seq \in Seqs, NEW crc \in Crcs, Malformed(seq, crc)
      PROVE  window'.valid /\ SeqDiff(window'.last_seq, s) = since'[s]
  <2>1. /\ window' = Commit(window, seq, crc, DenyEncoding)
        /\ since'[s] = Aged(s, Advance(seq))
    BY <1>3 DEF Malformed, ReplyAndCommit
  <2> QED BY <2>1, CommitAges
<1>4. CASE UNCHANGED vars
  BY <1>4 DEF WindowInv, vars
<1> QED BY <1>1, <1>2, <1>3, <1>4 DEF Next

\* The window remembers the exact distance to every number accepted within half
\* the sequence space: with TypeOK, the inductive invariant of the module.
THEOREM WindowRemembers == Spec => []WindowInv
<1>1. Init => WindowInv
  BY HalfAssumption DEF Init, WindowInv
<1> QED BY <1>1, WindowNext, TypeCorrect, PTL DEF Spec

\* No number that was committed is fresh again before the window has moved on
\* by half the sequence space, whatever is duplicated, reordered or delayed on
\* the way, and across the wrap of the numbers.
THEOREM NoSecondJudgement == Spec => []FreshNotRecentlyAccepted
<1>1. TypeOK /\ WindowInv => FreshNotRecentlyAccepted
  <2> SUFFICES ASSUME TypeOK, WindowInv, NEW s \in Seqs, IsFresh(window, s), since[s] # Half
               PROVE  FALSE
    BY DEF FreshNotRecentlyAccepted
  <2>1. since[s] \in 0 .. Half /\ since[s] < Half /\ window.last_seq \in Seqs
    BY HalfAssumption DEF TypeOK, Windows
  <2>2. window.valid /\ SeqDiff(window.last_seq, s) = since[s]
    BY <2>1 DEF WindowInv
  <2>3. SeqDiff(s, window.last_seq) \in 1 .. (Half - 1)
    BY <2>2 DEF IsFresh
  <2>4. s # window.last_seq
    BY <2>1, <2>3, SeqDiffType
  <2>5. SeqDiff(s, window.last_seq) + SeqDiff(window.last_seq, s) = 2 * Half
    BY <2>1, <2>4, DistancesMakeUpSpace
  <2> QED BY <2>1, <2>2, <2>3, <2>5, HalfAssumption
<1> QED BY <1>1, TypeCorrect, WindowRemembers, PTL

-----------------------------------------------------------------------------

\* The slot of the k-th of n recent commits, the newest being just behind the
\* ring index.
SlotFrom(next, n, k) ==
  LET i == next - n + k - 1 IN IF i < 0 THEN i + Depth ELSE i

SlotAt(k) == SlotFrom(window.next, Len(recent), k)

\* The ring holds recent, slot by slot, and fills from its first slot.
RingInv ==
  /\ Len(recent) < Depth => window.next = Len(recent)
  /\ \A k \in DOMAIN recent :
       window.cache[SlotAt(k)] = FilledSlot(recent[k].seq, recent[k].crc, recent[k].reply)
  /\ \A i \in Slots : window.cache[i].used => \E k \in DOMAIN recent : SlotAt(k) = i

\* A commit, as the history keeps it.
Entry == [seq : Seqs, crc : Crcs, reply : Replies]

\* The shapes of the ring and of the history, unfolded.
LEMMA RecentType ==
  ASSUME TypeOK
  PROVE  /\ recent \in Seq(Entry)
         /\ Len(recent) \in Nat /\ Len(recent) <= Depth
         /\ DOMAIN recent = 1 .. Len(recent)
         /\ window.next \in Nat /\ window.next < Depth
         /\ Depth \in Nat /\ Depth >= 1
         /\ window.cache \in [Slots -> SlotValues(Crcs, Replies)]
         /\ Slots = 0 .. (Depth - 1)
  BY DepthBounds DEF TypeOK, Windows, Slots, Entry

\* Where a commit writes: to the slot of the ring index, and the index moves on.
LEMMA CommitWrites ==
  ASSUME TypeOK, NEW seq \in Seqs, NEW crc \in Crcs, NEW reply \in Replies,
         ReplyAndCommit(seq, crc, reply)
  PROVE  /\ window'.next = IF window.next + 1 = Depth THEN 0 ELSE window.next + 1
         /\ window'.cache = [window.cache EXCEPT ![window.next] = FilledSlot(seq, crc, reply)]
         /\ window'.cache[window.next] = FilledSlot(seq, crc, reply)
         /\ \A i \in Slots \ {window.next} : window'.cache[i] = window.cache[i]
<1>1. /\ window'.next = IF window.next + 1 = Depth THEN 0 ELSE window.next + 1
      /\ window'.cache = [window.cache EXCEPT ![window.next] = FilledSlot(seq, crc, reply)]
  BY DEF ReplyAndCommit, Commit
<1>2. window.next \in Slots /\ window.cache \in [Slots -> SlotValues(Crcs, Replies)]
  BY RecentType
<1> QED BY <1>1, <1>2

\* How the history moves: the newest commit is appended, and in a full ring the
\* oldest is dropped.  Every other commit stays in the slot it was in.
LEMMA RecentMoves ==
  ASSUME TypeOK, RingInv, NEW seq \in Seqs, NEW crc \in Crcs, NEW reply \in Replies,
         ReplyAndCommit(seq, crc, reply)
  PROVE  LET n == Len(recent)
             e == [seq |-> seq, crc |-> crc, reply |-> reply]
             d == IF n < Depth THEN 0 ELSE 1
         IN  /\ Len(recent') = n + 1 - d
             /\ DOMAIN recent' = 1 .. (n + 1 - d)
             /\ recent'[n + 1 - d] = e
             /\ SlotFrom(window'.next, Len(recent'), n + 1 - d) = window.next
             /\ \A k \in 1 .. (n - d) :
                  /\ recent'[k] = recent[k + d]
                  /\ SlotFrom(window'.next, Len(recent'), k) = SlotAt(k + d)
             /\ \A k \in 1 .. n : SlotAt(k) = window.next <=> k <= d
             /\ \A k \in 1 .. n : SlotAt(k) \in Slots
<1> DEFINE n == Len(recent)
           e == [seq |-> seq, crc |-> crc, reply |-> reply]
           d == IF n < Depth THEN 0 ELSE 1
<1>0. /\ recent \in Seq(Entry) /\ n \in Nat /\ n <= Depth /\ DOMAIN recent = 1 .. n
      /\ window.next \in Nat /\ window.next < Depth /\ Depth \in Nat /\ Depth >= 1
      /\ Slots = 0 .. (Depth - 1)
  BY RecentType
<1>1. n < Depth => window.next = n
  BY DEF RingInv
<1>2. window'.next = IF window.next + 1 = Depth THEN 0 ELSE window.next + 1
  BY CommitWrites
<1>3. e \in Entry
  BY DEF Entry
<1>4. /\ recent' \in Seq(Entry) /\ Len(recent') = n + 1 - d /\ recent'[n + 1 - d] = e
      /\ \A k \in 1 .. (n - d) : recent'[k] = recent[k + d]
  <2>1. CASE n < Depth
    <3>1. recent' = Append(recent, e)
      BY <2>1 DEF ReplyAndCommit, Remember
    <3> HIDE DEF e
    <3> QED BY <1>0, <1>3, <2>1, <3>1
  <2>2. CASE ~(n < Depth)
    <3>1. recent' = Append(Tail(recent), e)
      BY <2>2 DEF ReplyAndCommit, Remember
    <3>2. n = Depth /\ recent # <<>>
      <4>1. n \in Nat /\ n <= Depth /\ Depth \in Nat /\ Depth >= 1
        BY <1>0
      <4>2. n = Depth /\ n # 0
        <5> HIDE DEF n
        <5> QED BY <2>2, <4>1
      <4> QED BY <4>2
    <3> HIDE DEF e
    <3>3. /\ Tail(recent) \in Seq(Entry) /\ Len(Tail(recent)) = n - 1
          /\ \A k \in 1 .. (n - 1) : Tail(recent)[k] = recent[k + 1]
      BY <1>0, <3>2
    <3>4. /\ recent' \in Seq(Entry) /\ Len(recent') = n /\ recent'[n] = e
          /\ \A k \in 1 .. (n - 1) : recent'[k] = Tail(recent)[k]
      BY <1>0, <1>3, <3>1, <3>2, <3>3
    <3> QED BY <1>0, <2>2, <3>2, <3>3, <3>4
  <2> QED BY <2>1, <2>2
<1>5. DOMAIN recent' = 1 .. (n + 1 - d)
  BY <1>4
<1>6. SlotFrom(window'.next, Len(recent'), n + 1 - d) = window.next
  <2>1. Len(recent') = n + 1 - d
    BY <1>4
  <2>2. d \in 0 .. 1 /\ n + 1 - d \in Int
    BY <1>0
  <2> HIDE DEF n, d
  <2> QED BY <1>0, <1>1, <1>2, <2>1, <2>2 DEF SlotFrom
<1>7. ASSUME NEW k \in 1 .. (n - d)
      PROVE  SlotFrom(window'.next, Len(recent'), k) = SlotAt(k + d)
  <2>1. Len(recent') = n + 1 - d
    BY <1>4
  <2>2. CASE n < Depth
    BY <1>0, <1>1, <1>2, <2>1, <2>2 DEF SlotAt, SlotFrom
  <2>3. CASE ~(n < Depth)
    BY <1>0, <1>2, <2>1, <2>3 DEF SlotAt, SlotFrom
  <2> QED BY <2>2, <2>3
<1>8. \A k \in 1 .. n : (SlotAt(k) = window.next <=> k <= d) /\ SlotAt(k) \in Slots
  BY <1>0, <1>1 DEF SlotAt, SlotFrom
<1> QED BY <1>4, <1>5, <1>6, <1>7, <1>8

\* A commit keeps the ring in step with the history.
LEMMA CommitKeepsRing ==
  ASSUME TypeOK, RingInv, NEW seq \in Seqs, NEW crc \in Crcs, NEW reply \in Replies,
         ReplyAndCommit(seq, crc, reply)
  PROVE  RingInv'
<1> DEFINE n == Len(recent)
           d == IF n < Depth THEN 0 ELSE 1
<1>0. /\ n \in Nat /\ n <= Depth /\ DOMAIN recent = 1 .. n
      /\ window.next \in Nat /\ window.next < Depth /\ Depth \in Nat /\ Depth >= 1
  BY RecentType
<1>1. /\ Len(recent') = n + 1 - d
      /\ DOMAIN recent' = 1 .. (n + 1 - d)
      /\ recent'[n + 1 - d] = [seq |-> seq, crc |-> crc, reply |-> reply]
      /\ SlotFrom(window'.next, Len(recent'), n + 1 - d) = window.next
      /\ \A k \in 1 .. (n - d) :
           /\ recent'[k] = recent[k + d]
           /\ SlotFrom(window'.next, Len(recent'), k) = SlotAt(k + d)
      /\ \A k \in 1 .. n : (SlotAt(k) = window.next <=> k <= d) /\ SlotAt(k) \in Slots
  BY RecentMoves
<1>2. /\ window'.next = IF window.next + 1 = Depth THEN 0 ELSE window.next + 1
      /\ window'.cache[window.next] = FilledSlot(seq, crc, reply)
      /\ \A i \in Slots \ {window.next} : window'.cache[i] = window.cache[i]
  BY CommitWrites
<1>3. Len(recent') < Depth => window'.next = Len(recent')
  BY <1>0, <1>1, <1>2 DEF RingInv
<1>4. ASSUME NEW k \in DOMAIN recent'
      PROVE  window'.cache[SlotFrom(window'.next, Len(recent'), k)] =
               FilledSlot(recent'[k].seq, recent'[k].crc, recent'[k].reply)
  <2>1. CASE k = n + 1 - d
    BY <1>1, <1>2, <2>1
  <2>2. CASE k # n + 1 - d
    <3>1. k \in 1 .. (n - d) /\ k + d \in 1 .. n /\ ~(k + d <= d)
      BY <1>0, <1>1, <2>2
    <3>2. recent'[k] = recent[k + d] /\ SlotFrom(window'.next, Len(recent'), k) = SlotAt(k + d)
      BY <1>1, <3>1
    <3>3. SlotAt(k + d) \in Slots \ {window.next}
      BY <1>1, <3>1
    <3>4. window.cache[SlotAt(k + d)] =
            FilledSlot(recent[k + d].seq, recent[k + d].crc, recent[k + d].reply)
      BY <1>0, <3>1 DEF RingInv
    <3> QED BY <1>2, <3>2, <3>3, <3>4
  <2> QED BY <2>1, <2>2
<1>5. ASSUME NEW i \in Slots, window'.cache[i].used
      PROVE  \E k \in DOMAIN recent' : SlotFrom(window'.next, Len(recent'), k) = i
  <2>1. CASE i = window.next
    <3>1. n + 1 - d \in DOMAIN recent'
      BY <1>0, <1>1
    <3> QED BY <1>1, <2>1, <3>1
  <2>2. CASE i # window.next
    <3>1. window.cache[i].used
      BY <1>2, <1>5, <2>2
    <3>2. PICK k \in 1 .. n : SlotAt(k) = i
      BY <1>0, <3>1 DEF RingInv
    <3>3. k - d \in 1 .. (n - d) /\ (k - d) + d = k /\ k - d \in DOMAIN recent'
      BY <1>0, <1>1, <2>2, <3>2
    <3>4. SlotFrom(window'.next, Len(recent'), k - d) = SlotAt((k - d) + d)
      BY <1>1, <3>3
    <3> QED BY <3>2, <3>3, <3>4
  <2> QED BY <2>1, <2>2
<1> QED BY <1>3, <1>4, <1>5 DEF RingInv, SlotAt

\* Every way to handle a frame keeps the ring in step with the history.
LEMMA RingNext == TypeOK /\ RingInv /\ [Next]_vars => RingInv'
<1> SUFFICES ASSUME TypeOK, RingInv, [Next]_vars PROVE RingInv'
  OBVIOUS
<1> USE DEF Replies
<1>1. ASSUME NEW seq \in Seqs, NEW crc \in Crcs, NEW reply \in Verdicts, Accept(seq, crc, reply)
      PROVE  RingInv'
  BY <1>1, CommitKeepsRing DEF Accept
<1>2. ASSUME NEW seq \in Seqs, NEW crc \in Crcs, Reject(seq, crc)
      PROVE  RingInv'
  BY <1>2, CommitKeepsRing DEF Reject
<1>3. ASSUME NEW seq \in Seqs, NEW crc \in Crcs, Malformed(seq, crc)
      PROVE  RingInv'
  BY <1>3, CommitKeepsRing DEF Malformed
<1>4. CASE UNCHANGED vars
  BY <1>4 DEF RingInv, SlotAt, vars
<1> QED BY <1>1, <1>2, <1>3, <1>4 DEF Next

\* The empty ring holds the empty history.
LEMMA RingInit == Init => RingInv
  BY DepthBounds DEF Init, RingInv, InitialWindow, EmptySlot, Slots

\* The ring holds the latest Depth commits and nothing else.
LEMMA RingHoldsRecent == Spec => []RingInv
  BY RingInit, RingNext, TypeCorrect, PTL DEF Spec

\* For every depth of the ring and every traffic: what is answered from the cache
\* is a reply given to the same number and payload in one of the last Depth
\* commits, and a number these commits know under one payload only is answered.
THEOREM CacheIsExact == Spec => []CacheServesRecentReplies
<1>1. TypeOK /\ RingInv => CacheServesRecentReplies
  <2> SUFFICES ASSUME TypeOK, RingInv, NEW seq \in Seqs, NEW crc \in Crcs
               PROVE  LET kept == {k \in DOMAIN recent : recent[k].seq = seq}
                      IN  /\ IsCached(window, seq, crc) =>
                               \E k \in kept : /\ recent[k].crc = crc
                                               /\ recent[k].reply = CachedReply(window, seq)
                          /\ (/\ ~IsFresh(window, seq)
                              /\ kept # {}
                              /\ \A k \in kept : recent[k].crc = crc) => IsCached(window, seq, crc)
    BY DEF CacheServesRecentReplies
  <2> DEFINE kept == {k \in DOMAIN recent : recent[k].seq = seq}
             f == FirstSlot(window, seq)
  <2>1. ASSUME SlotsOf(window, seq) # {}
        PROVE  \E k \in kept : /\ recent[k].crc = window.cache[f].crc
                               /\ recent[k].reply = CachedReply(window, seq)
    <3>1. f \in Slots /\ window.cache[f].used /\ window.cache[f].seq = seq
      BY <2>1, FirstSlotFound DEF SlotsOf
    <3>2. PICK k \in DOMAIN recent : SlotAt(k) = f
      BY <3>1 DEF RingInv
    <3>3. window.cache[f] = FilledSlot(recent[k].seq, recent[k].crc, recent[k].reply)
      BY <3>2 DEF RingInv
    <3> QED BY <3>1, <3>2, <3>3 DEF FilledSlot, CachedReply
  <2>2. ASSUME kept # {} PROVE SlotsOf(window, seq) # {}
    <3>1. PICK k \in DOMAIN recent : recent[k].seq = seq
      BY <2>2
    <3>2. window.cache[SlotAt(k)] = FilledSlot(recent[k].seq, recent[k].crc, recent[k].reply)
      BY DEF RingInv
    <3>3. SlotAt(k) \in Slots
      <4>1. k \in 1 .. Len(recent)
        BY RecentType
      <4> QED BY <4>1, RecentType DEF SlotAt, SlotFrom, RingInv
    <3> QED BY <3>1, <3>2, <3>3 DEF SlotsOf, FilledSlot
  <2>3. IsCached(window, seq, crc) =>
          \E k \in kept : recent[k].crc = crc /\ recent[k].reply = CachedReply(window, seq)
    BY <2>1 DEF IsCached
  <2>4. (~IsFresh(window, seq) /\ kept # {} /\ \A k \in kept : recent[k].crc = crc)
          => IsCached(window, seq, crc)
    BY <2>1, <2>2 DEF IsCached
  <2> QED BY <2>3, <2>4
<1> QED BY <1>1, TypeCorrect, RingHoldsRecent, PTL

=============================================================================
