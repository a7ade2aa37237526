---------------------------- MODULE ReplayHostProofs ----------------------------
(***************************************************************************)
(* The host and the window together, proved for every size of the sequence *)
(* space, every number of commands the host may leave unconfirmed or may   *)
(* retransmit, and every number of restarts and of replies that cannot be  *)
(* built: one life of the device does not judge again what it has          *)
(* answered, nor anything issued before that, and gives a command sent     *)
(* again the reply it had.                                                 *)
(***************************************************************************)
EXTENDS ReplayHost, GuardReplayProofs, FiniteSetTheorems

\* Integer division, in the form the solver uses it.
LEMMA Divides ==
  ASSUME NEW M \in Nat, M >= 1, NEW x \in Nat
  PROVE  /\ x \div M \in Nat
         /\ x = M * (x \div M) + (x % M)
         /\ x % M \in 0 .. (M - 1)
  OBVIOUS

\* Numbers less than M apart have remainders that tell how far.
LEMMA RemaindersApart ==
  ASSUME NEW M \in Nat, M >= 1, NEW x \in Nat, NEW y \in Nat, x >= y, x - y < M
  PROVE  x - y = IF (x % M) >= (y % M) THEN (x % M) - (y % M) ELSE (x % M) - (y % M) + M
<1> DEFINE p == x \div M
           q == y \div M
           r == x % M
           s == y % M
<1>1. /\ p \in Nat /\ x = M * p + r /\ r \in 0 .. (M - 1)
      /\ q \in Nat /\ y = M * q + s /\ s \in 0 .. (M - 1)
  BY Divides
<1> HIDE DEF p, q, r, s
<1>2. p - q \in Int /\ M * (p - q) = (x - y) - (r - s) /\ M * (p - q) \in Int
  BY <1>1
<1>3. /\ p - q <= -1 => M * (p - q) <= -M
      /\ p - q >= 1 => M * (p - q) >= M
      /\ p - q >= 2 => M * (p - q) >= 2 * M
      /\ p - q = 0 => M * (p - q) = 0
      /\ p - q = 1 => M * (p - q) = M
  BY <1>2
<1>4. x - y = IF r >= s THEN r - s ELSE r - s + M
  <2> DEFINE k == p - q
             t == M * (p - q)
  <2>1. /\ k \in Int /\ t \in Int /\ t = (x - y) - (r - s)
        /\ k <= -1 => t <= -M
        /\ k >= 1 => t >= M
        /\ k >= 2 => t >= 2 * M
        /\ k = 0 => t = 0
        /\ k = 1 => t = M
    BY <1>2, <1>3
  <2> HIDE DEF k, t
  <2> QED BY <1>1, <2>1
<1> QED BY <1>4 DEF r, s

\* A command has a number of the sequence space.
LEMMA WireType == ASSUME NEW n \in Nat PROVE Wire(n) \in Seqs
<1>1. Base \in Nat /\ 2 * Half \in Nat /\ 2 * Half >= 1
  BY BaseAssumption, HalfAssumption DEF Seqs
<1>2. (Base + n) % (2 * Half) \in 0 .. (2 * Half - 1)
  <2>1. Base + n \in Nat
    BY <1>1
  <2> QED BY <1>1, <2>1, Divides
<1> QED BY <1>2 DEF Wire, Seqs

\* On the wire, later commands are ahead by as many numbers as were issued since.
LEMMA WireAhead ==
  ASSUME NEW a \in Nat, NEW b \in Nat, a >= b, a - b < 2 * Half
  PROVE  /\ SeqDiff(Wire(a), Wire(b)) = a - b
         /\ a # b => SeqDiff(Wire(b), Wire(a)) = 2 * Half - (a - b)
<1>1. Base \in Nat /\ 2 * Half \in Nat /\ 2 * Half >= 1
  BY BaseAssumption, HalfAssumption DEF Seqs
<1>2. a - b = IF Wire(a) >= Wire(b) THEN Wire(a) - Wire(b) ELSE Wire(a) - Wire(b) + 2 * Half
  <2> DEFINE x == Base + a
             y == Base + b
             M == 2 * Half
  <2>1. x \in Nat /\ y \in Nat /\ x >= y /\ x - y < M /\ M \in Nat /\ M >= 1 /\ x - y = a - b
    BY <1>1
  <2>2. Wire(a) = x % M /\ Wire(b) = y % M
    BY DEF Wire
  <2> HIDE DEF x, y, M
  <2>3. x - y = IF (x % M) >= (y % M) THEN (x % M) - (y % M) ELSE (x % M) - (y % M) + M
    BY <2>1, RemaindersApart, Zenon
  <2>4. a - b = IF Wire(a) >= Wire(b) THEN Wire(a) - Wire(b) ELSE Wire(a) - Wire(b) + M
    BY <2>1, <2>2, <2>3, Zenon
  <2> QED BY <2>4, Zenon DEF M
<1>3. Wire(a) \in 0 .. (2 * Half - 1) /\ Wire(b) \in 0 .. (2 * Half - 1)
  BY WireType DEF Seqs
<1>4. SeqDiff(Wire(a), Wire(b)) = a - b
  BY <1>2 DEF SeqDiff
<1>5. ASSUME a # b PROVE SeqDiff(Wire(b), Wire(a)) = 2 * Half - (a - b)
  <2>1. Wire(a) # Wire(b)
    BY <1>2, <1>3, <1>5
  <2>2. SeqDiff(Wire(a), Wire(b)) + SeqDiff(Wire(b), Wire(a)) = 2 * Half
    BY <2>1, WireType, DistancesMakeUpSpace
  <2>3. SeqDiff(Wire(b), Wire(a)) \in Seqs
    BY WireType, SeqDiffType
  <2>4. SeqDiff(Wire(b), Wire(a)) \in Int
    BY <1>1, <2>3 DEF Seqs
  <2> QED BY <1>1, <1>4, <2>2, <2>4
<1> QED BY <1>4, <1>5

-----------------------------------------------------------------------------

\* Commands the host has a reply to although they are later than h: an earlier
\* life of the device has judged them.
ConfirmedAfter(h) == {n \in confirmed : n > h}

\* h is the latest command this life of the device has judged and answered.
LastAnswered(h) ==
  /\ window.last_seq = Wire(h)
  /\ Cardinality(ConfirmedAfter(h)) < Resendable
  /\ \A n \in answered : n <= h

\* The host keeps to its window, and what the device answered first since it started
\* is among the commands that may still be retransmitted.
HostInv ==
  /\ Cardinality((1 .. issued) \ confirmed) <= Window
  /\ ~window.valid => answered = {}
  /\ window.valid => \E h \in 1 .. issued : LastAnswered(h)

\* Verdicts are replies.
LEMMA ReplyTypes ==
  ASSUME NEW n \in Commands
  PROVE  VerdictFor(n) \in Replies /\ DenyReplay(n) \in Replies
  BY DEF VerdictFor, DenyReplay, Replies

\* What is answered from the cache was put there as a reply.
LEMMA CachedReplyType ==
  ASSUME TypeOK, NEW seq, NEW crc, IsCached(window, seq, crc)
  PROVE  CachedReply(window, seq) \in Replies
<1>1. FirstSlot(window, seq) \in SlotsOf(window, seq)
  BY FirstSlotFound DEF IsCached
<1>2. /\ FirstSlot(window, seq) \in Slots
      /\ window.cache[FirstSlot(window, seq)].used
  BY <1>1 DEF SlotsOf
<1>3. window.cache[FirstSlot(window, seq)] \in SlotValues(Commands, Replies)
  BY <1>2 DEF TypeOK, Windows
<1>4. window.cache[FirstSlot(window, seq)] # EmptySlot
  BY <1>2 DEF EmptySlot
<1>5. window.cache[FirstSlot(window, seq)]
        \in [used : {TRUE}, seq : Seqs, crc : Commands, reply : Replies]
  BY <1>3, <1>4 DEF SlotValues
<1> QED BY <1>5 DEF CachedReply

\* Every way to handle a frame preserves the types.
LEMMA HandleType ==
  ASSUME TypeOK, NEW n \in Commands, n <= issued, Handle(n)
  PROVE  /\ window' \in Windows(Commands, Replies)
         /\ confirmed' \in SUBSET (1 .. issued)
         /\ judged' \in [Commands -> Nat]
         /\ answered' \in SUBSET {m \in Commands : judged'[m] > 0}
         /\ lastReply' \in Replies \cup {NoReply}
         /\ lostReplies' \in 0 .. MaxLostReplies
<1>0. /\ window \in Windows(Commands, Replies) /\ judged \in [Commands -> Nat]
      /\ answered \in SUBSET {m \in Commands : judged[m] > 0}
      /\ confirmed \in SUBSET (1 .. issued) /\ n \in 1 .. issued
      /\ lastReply \in Replies \cup {NoReply} /\ lostReplies \in 0 .. MaxLostReplies
      /\ MaxLostReplies \in Nat
  BY BoundsAssumption DEF TypeOK, Commands
<1>1. Wire(n) \in Seqs
  BY WireType, BoundsAssumption DEF Commands
<1>2. confirmed' \in SUBSET (1 .. issued)
  BY <1>0 DEF Handle, Reaches
<1>3. CASE Judge(n)
  BY <1>0, <1>1, <1>2, <1>3, ReplyTypes, CommitType DEF Judge, Answer
<1>4. CASE Resend(n)
  BY <1>0, <1>2, <1>4, CachedReplyType DEF Resend, Answer
<1>5. CASE Refuse(n)
  BY <1>0, <1>1, <1>2, <1>5, ReplyTypes, CommitType DEF Refuse, Answer
<1>6. CASE LoseReply(n)
  BY <1>0, <1>2, <1>6 DEF LoseReply
<1> QED BY <1>3, <1>4, <1>5, <1>6 DEF Handle

\* The device's empty window and a host that has sent nothing.
LEMMA TypeInit == Init => TypeOK
  BY InitialWindowType, BoundsAssumption DEF Init, TypeOK

\* Every step preserves the types.
LEMMA TypeNext == TypeOK /\ [Next]_vars => TypeOK'
<1> SUFFICES ASSUME TypeOK, [Next]_vars PROVE TypeOK'
  OBVIOUS
<1>1. CASE Issue
  BY <1>1, BoundsAssumption DEF Issue, TypeOK
<1>2. CASE Reboot
  BY <1>2, InitialWindowType, BoundsAssumption DEF Reboot, TypeOK
<1>3. ASSUME NEW n \in Commands, Exchange(n) PROVE TypeOK'
  <2>1. Handle(n) /\ n <= issued /\ issued' = issued /\ reboots' = reboots
    BY <1>3 DEF Exchange
  <2> QED BY <2>1, HandleType DEF TypeOK
<1>4. CASE UNCHANGED vars
  BY <1>4 DEF vars, TypeOK
<1> QED BY <1>1, <1>2, <1>3, <1>4 DEF Next

\* The window, the host's confirmations and the histories keep their types.
THEOREM TypeCorrect == Spec => []TypeOK
  BY TypeInit, TypeNext, PTL DEF Spec

-----------------------------------------------------------------------------

\* Sets of commands are finite.
LEMMA CommandsFinite ==
  ASSUME TypeOK
  PROVE  /\ IsFiniteSet(confirmed) /\ IsFiniteSet((1 .. issued) \ confirmed)
         /\ Cardinality((1 .. issued) \ confirmed) \in Nat
         /\ \A h : IsFiniteSet(ConfirmedAfter(h)) /\ Cardinality(ConfirmedAfter(h)) \in Nat
<1>1. issued \in Nat /\ confirmed \subseteq 1 .. issued
  BY BoundsAssumption DEF TypeOK
<1>2. IsFiniteSet(1 .. issued)
  BY <1>1, FS_Interval
<1>3. \A S \in SUBSET (1 .. issued) : IsFiniteSet(S) /\ Cardinality(S) \in Nat
  BY <1>2, FS_Subset, FS_CardinalityType
<1>4. \A h : ConfirmedAfter(h) \in SUBSET (1 .. issued)
  BY <1>1 DEF ConfirmedAfter
<1>5. confirmed \in SUBSET (1 .. issued) /\ (1 .. issued) \ confirmed \in SUBSET (1 .. issued)
  BY <1>1
<1> QED BY <1>3, <1>4, <1>5

\* The host is never half the sequence space ahead of the device: what it has
\* issued since is unconfirmed, or was confirmed by an earlier life.
LEMMA HostStaysNear ==
  ASSUME TypeOK, HostInv, NEW h \in 1 .. issued, LastAnswered(h)
  PROVE  issued - h < Half
<1> DEFINE U == (1 .. issued) \ confirmed
           C == ConfirmedAfter(h)
           L == (h + 1) .. issued
<1>1. issued \in Nat /\ h \in Nat /\ h >= 1 /\ h <= issued
  BY BoundsAssumption DEF TypeOK
<1>2. L \subseteq U \cup C
  BY <1>1 DEF ConfirmedAfter
<1>3. /\ IsFiniteSet(U) /\ IsFiniteSet(C)
      /\ Cardinality(U) \in Nat /\ Cardinality(C) \in Nat
      /\ Cardinality(U) <= Window /\ Cardinality(C) < Resendable
  BY CommandsFinite DEF HostInv, LastAnswered
<1>4. Cardinality(L) = issued - h
  <2>1. h + 1 \in Int /\ issued \in Int
    BY <1>1
  <2>2. Cardinality(L) = IF h + 1 > issued THEN 0 ELSE issued - (h + 1) + 1
    BY <2>1, FS_Interval
  <2> HIDE DEF L
  <2> QED BY <1>1, <2>2
<1> HIDE DEF U, C, L
<1>5. /\ IsFiniteSet(U \cup C)
      /\ Cardinality(U \cup C) = Cardinality(U) + Cardinality(C) - Cardinality(U \cap C)
  BY <1>3, FS_Union
<1>6. Cardinality(L) <= Cardinality(U \cup C)
  BY <1>2, <1>5, FS_Subset
<1>7. Cardinality(U \cap C) \in Nat
  <2>1. U \cap C \in SUBSET U
    OBVIOUS
  <2> QED BY <1>3, <2>1, FS_Subset, FS_CardinalityType
<1> QED BY <1>1, <1>3, <1>4, <1>5, <1>6, <1>7, ResendableAssumption, HalfAssumption

\* To the device, a command the host may send is fresh exactly when it is later
\* than the last one answered.
LEMMA FreshMeansLater ==
  ASSUME TypeOK, HostInv, window.valid, NEW h \in 1 .. issued, LastAnswered(h),
         NEW n \in Commands, issued - Resendable < n, n <= issued
  PROVE  IsFresh(window, Wire(n)) <=> n > h
<1>1. /\ n \in Nat /\ h \in Nat /\ issued \in Nat /\ Half \in Nat /\ Half >= 1
      /\ h <= issued /\ Resendable \in Nat /\ Resendable <= Half
  BY BoundsAssumption, HalfAssumption, ResendableAssumption DEF TypeOK, Commands
<1>2. issued - h < Half
  BY HostStaysNear
<1>3. IsFresh(window, Wire(n)) <=> SeqDiff(Wire(n), Wire(h)) \in 1 .. (Half - 1)
  BY DEF IsFresh, LastAnswered
<1>4. CASE n > h
  <2>1. SeqDiff(Wire(n), Wire(h)) = n - h
    BY <1>1, <1>2, <1>4, WireAhead
  <2> QED BY <1>1, <1>2, <1>3, <1>4, <2>1
<1>5. CASE n = h
  <2>1. SeqDiff(Wire(n), Wire(h)) = 0
    BY <1>1, <1>5, WireAhead
  <2> QED BY <1>3, <1>5, <2>1
<1>6. CASE n < h
  <2>1. SeqDiff(Wire(n), Wire(h)) = 2 * Half - (h - n)
    BY <1>1, <1>6, WireAhead
  <2> QED BY <1>1, <1>3, <1>6, <2>1
<1> QED BY <1>1, <1>4, <1>5, <1>6

\* What is fresh is later than everything this life has answered.
LEMMA FreshAfterAnswered ==
  ASSUME TypeOK, HostInv, NEW n \in Commands, issued - Resendable < n, n <= issued,
         IsFresh(window, Wire(n))
  PROVE  \A m \in answered : m < n
<1>0. n \in Nat /\ answered \subseteq Nat /\ issued \in Nat
  BY BoundsAssumption DEF TypeOK, Commands
<1>1. CASE window.valid
  <2>1. PICK h \in 1 .. issued : LastAnswered(h)
    BY <1>1 DEF HostInv
  <2>2. n > h /\ h \in Nat
    BY <1>0, <1>1, <2>1, FreshMeansLater
  <2> QED BY <1>0, <2>1, <2>2 DEF LastAnswered
<1>2. CASE ~window.valid
  BY <1>2 DEF HostInv
<1> QED BY <1>1, <1>2

\* What the invariant says of a command just judged and answered: nothing later has
\* been answered in this life, and what an earlier life confirmed later is little.
LEMMA JudgeKeepsHost ==
  ASSUME TypeOK, HostInv, NEW n \in Commands, n <= issued, issued - Resendable < n,
         Judge(n), Reaches(n), issued' = issued
  PROVE  /\ \A m \in answered : m < n
         /\ window'.valid /\ LastAnswered(n)'
<1>0. /\ n \in Nat /\ issued \in Nat /\ confirmed \subseteq 1 .. issued
      /\ answered \subseteq Commands /\ window \in Windows(Commands, Replies)
      /\ Commands \subseteq Nat /\ Resendable \in Nat /\ Resendable >= 1
  BY BoundsAssumption, ResendableAssumption DEF TypeOK, Commands
<1>1. /\ window' = Commit(window, Wire(n), n, VerdictFor(n)) /\ IsFresh(window, Wire(n))
      /\ answered' = answered \cup {n}
  BY DEF Judge
<1>2. window'.valid /\ window'.last_seq = Wire(n)
  BY <1>0, <1>1, WireType, CommitMoves
<1>3. ConfirmedAfter(n)' = ConfirmedAfter(n)
  BY <1>0 DEF Reaches, ConfirmedAfter
<1>4. \A m \in answered : m < n
  BY <1>1, FreshAfterAnswered
<1>5. Cardinality(ConfirmedAfter(n)) < Resendable
  <2>1. CASE window.valid
    <3>1. PICK h \in 1 .. issued : LastAnswered(h)
      BY <2>1 DEF HostInv
    <3>2. n > h
      BY <1>1, <2>1, <3>1, FreshMeansLater
    <3>3. ConfirmedAfter(n) \in SUBSET ConfirmedAfter(h)
      <4>1. \A m \in confirmed : m > n => m > h
        BY <1>0, <3>2
      <4> QED BY <4>1 DEF ConfirmedAfter
    <3>4. /\ IsFiniteSet(ConfirmedAfter(h)) /\ Cardinality(ConfirmedAfter(h)) \in Nat
          /\ Cardinality(ConfirmedAfter(n)) \in Nat
      BY CommandsFinite
    <3>5. Cardinality(ConfirmedAfter(n)) <= Cardinality(ConfirmedAfter(h))
      BY <3>3, <3>4, FS_Subset
    <3>6. Cardinality(ConfirmedAfter(h)) < Resendable
      BY <3>1 DEF LastAnswered
    <3> QED BY <1>0, <3>4, <3>5, <3>6
  <2>2. CASE ~window.valid
    <3> DEFINE L == (n + 1) .. issued
    <3>1. ConfirmedAfter(n) \in SUBSET L
      <4>1. \A m \in confirmed : m > n => m \in L
        BY <1>0
      <4> QED BY <4>1 DEF ConfirmedAfter
    <3>2. /\ IsFiniteSet(L)
          /\ Cardinality(L) = IF n + 1 > issued THEN 0 ELSE issued - (n + 1) + 1
      <4>1. n + 1 \in Int /\ issued \in Int
        BY <1>0
      <4> QED BY <4>1, FS_Interval
    <3> HIDE DEF L
    <3>3. Cardinality(ConfirmedAfter(n)) <= Cardinality(L)
      BY <3>1, <3>2, FS_Subset
    <3>4. Cardinality(ConfirmedAfter(n)) \in Nat
      BY CommandsFinite
    <3>5. Cardinality(L) = issued - n
      BY <1>0, <3>2
    <3> QED BY <1>0, <3>3, <3>4, <3>5
  <2> QED BY <2>1, <2>2
<1>6. \A m \in answered' : m <= n
  BY <1>0, <1>1, <1>4
<1> QED BY <1>2, <1>3, <1>4, <1>5, <1>6 DEF LastAnswered

\* A frame that is repeated is one of a command not later than the last one answered,
\* and does not move the window.
LEMMA RepeatKeepsLast ==
  ASSUME TypeOK, HostInv, NEW h \in 1 .. issued, LastAnswered(h),
         NEW n \in Commands, n <= issued, issued - Resendable < n,
         Resend(n) \/ Refuse(n), Reaches(n), issued' = issued
  PROVE  window'.valid /\ n <= h /\ LastAnswered(h)'
<1>1. ~IsFresh(window, Wire(n)) /\ answered' = answered
  BY DEF Resend, Refuse, IsCached, IsStale
<1>2. window.valid
  BY <1>1 DEF IsFresh
<1>3. window'.valid /\ window'.last_seq = window.last_seq
  <2>1. CASE Resend(n)
    BY <1>2, <2>1 DEF Resend
  <2>2. CASE Refuse(n)
    <3>1. Wire(n) \in Seqs /\ window \in Windows(Commands, Replies)
      BY WireType, BoundsAssumption DEF TypeOK, Commands
    <3> QED BY <1>1, <2>2, <3>1, CommitMoves DEF Refuse
  <2> QED BY <2>1, <2>2
<1>4. ~(n > h) /\ n \in Nat /\ h \in Nat
  BY <1>1, <1>2, FreshMeansLater, BoundsAssumption DEF TypeOK, Commands
<1>5. ConfirmedAfter(h)' = ConfirmedAfter(h)
  BY <1>4 DEF Reaches, ConfirmedAfter
<1> QED BY <1>1, <1>3, <1>4, <1>5 DEF LastAnswered

\* A repeated command keeps the host and the device together.
LEMMA RepeatKeepsHost ==
  ASSUME TypeOK, HostInv, NEW n \in Commands, n <= issued, issued - Resendable < n,
         Resend(n) \/ Refuse(n), Reaches(n), issued' = issued
  PROVE  window'.valid /\ \E h \in 1 .. issued : LastAnswered(h)'
<1>1. window.valid
  BY DEF Resend, Refuse, IsCached, IsStale, IsFresh
<1>2. PICK h \in 1 .. issued : LastAnswered(h)
  BY <1>1 DEF HostInv
<1> QED BY <1>2, RepeatKeepsLast

\* The host issues within its window.
LEMMA IssueKeepsHost == TypeOK /\ HostInv /\ Issue => HostInv'
<1> SUFFICES ASSUME TypeOK, HostInv, Issue PROVE HostInv'
  OBVIOUS
<1> DEFINE U == (1 .. issued) \ confirmed
<1>1. /\ issued \in Nat /\ confirmed \subseteq 1 .. issued /\ Window \in Nat
      /\ issued' = issued + 1 /\ UNCHANGED <<window, confirmed, answered>>
      /\ Cardinality(U) < Window
  BY BoundsAssumption, ResendableAssumption DEF Issue, TypeOK
<1>2. (1 .. issued') \ confirmed' = U \cup {issued + 1}
  BY <1>1
<1>3. IsFiniteSet(U) /\ Cardinality(U) \in Nat
  BY CommandsFinite
<1>4. Cardinality(U \cup {issued + 1}) <= Cardinality(U) + 1
          /\ Cardinality(U \cup {issued + 1}) \in Nat
  <2> HIDE DEF U
  <2> QED BY <1>3, FS_AddElement
<1>5. Cardinality((1 .. issued') \ confirmed') <= Window
  <2> HIDE DEF U
  <2> QED BY <1>1, <1>2, <1>3, <1>4
<1>6. \A h : LastAnswered(h) => LastAnswered(h)'
  BY <1>1 DEF LastAnswered, ConfirmedAfter
<1>7. \A h \in 1 .. issued : h \in 1 .. issued'
  BY <1>1
<1> QED BY <1>1, <1>5, <1>6, <1>7 DEF HostInv

\* An exchange leaves no more commands unconfirmed.
LEMMA ReachesConfirms ==
  ASSUME TypeOK, HostInv, NEW n \in Commands, Reaches(n), issued' = issued
  PROVE  Cardinality((1 .. issued') \ confirmed') <= Window
<1> DEFINE U == (1 .. issued) \ confirmed
           V == (1 .. issued') \ confirmed'
<1>1. V \in SUBSET U
  BY DEF Reaches
<1>2. IsFiniteSet(U) /\ Cardinality(U) \in Nat /\ Cardinality(U) <= Window /\ Window \in Nat
  BY CommandsFinite, ResendableAssumption DEF HostInv
<1> HIDE DEF U, V
<1>3. Cardinality(V) <= Cardinality(U) /\ Cardinality(V) \in Nat
  BY <1>1, <1>2, FS_Subset, FS_CardinalityType
<1>4. Cardinality(V) <= Window
  BY <1>2, <1>3
<1> QED BY <1>4 DEF V

\* Every step keeps the host and the device together.
LEMMA HostNext == TypeOK /\ HostInv /\ [Next]_vars => HostInv'
<1> SUFFICES ASSUME TypeOK, HostInv, [Next]_vars PROVE HostInv'
  OBVIOUS
<1>1. CASE Issue
  BY <1>1, IssueKeepsHost
<1>2. CASE Reboot
  <2>1. /\ ~window'.valid /\ answered' = {}
        /\ UNCHANGED <<issued, confirmed>>
    BY <1>2 DEF Reboot, InitialWindow
  <2> QED BY <2>1 DEF HostInv
<1>3. ASSUME NEW n \in Commands, Exchange(n) PROVE HostInv'
  <2>1. issued - Resendable < n /\ n <= issued /\ issued' = issued /\ n \in 1 .. issued
    BY <1>3, BoundsAssumption DEF Exchange, Commands, TypeOK
  <2>2. CASE (Judge(n) \/ Resend(n) \/ Refuse(n)) /\ Reaches(n)
    <3>1. Cardinality((1 .. issued') \ confirmed') <= Window
      BY <2>1, <2>2, ReachesConfirms
    <3>2. window'.valid /\ \E h \in 1 .. issued : LastAnswered(h)'
      BY <2>1, <2>2, JudgeKeepsHost, RepeatKeepsHost
    <3> QED BY <2>1, <3>1, <3>2 DEF HostInv
  <2>3. CASE LoseReply(n) /\ UNCHANGED confirmed
    BY <2>1, <2>3 DEF LoseReply, HostInv, LastAnswered, ConfirmedAfter
  <2> QED BY <1>3, <2>2, <2>3 DEF Exchange, Handle
<1>4. CASE UNCHANGED vars
  BY <1>4 DEF vars, HostInv, LastAnswered, ConfirmedAfter
<1> QED BY <1>1, <1>2, <1>3, <1>4 DEF Next

\* No command has been issued, and nothing is confirmed or answered.
LEMMA HostInit == Init => HostInv
<1> SUFFICES ASSUME Init PROVE HostInv
  OBVIOUS
<1>1. (1 .. issued) \ confirmed = {} /\ ~window.valid
  BY DEF Init, InitialWindow
<1> QED BY <1>1, FS_EmptySet, ResendableAssumption DEF Init, HostInv

\* The invariant of the host and the device.
LEMMA HostInvariant == Spec => [](TypeOK /\ HostInv)
  BY TypeInit, TypeNext, HostInit, HostNext, PTL DEF Spec

\* What a step judges is later than everything this life has answered.
LEMMA JudgesAfterAnswered ==
  ASSUME TypeOK, HostInv, Next, NEW k \in Commands, judged'[k] > judged[k]
  PROVE  \A m \in answered : m < k
<1>0. judged \in [Commands -> Nat] /\ Commands \subseteq Nat
  BY BoundsAssumption DEF TypeOK, Commands
<1>1. ~Issue /\ ~Reboot
  BY <1>0 DEF Issue, Reboot
<1>2. PICK n \in Commands : Exchange(n)
  BY <1>1 DEF Next
<1>3. IsFresh(window, Wire(n)) /\ judged' = [judged EXCEPT ![n] = @ + 1]
  BY <1>0, <1>2 DEF Exchange, Handle, Judge, Resend, Refuse, LoseReply
<1>4. k = n
  BY <1>0, <1>3
<1> QED BY <1>2, <1>3, <1>4, FreshAfterAnswered DEF Exchange

\* However often commands are retransmitted, however often the device restarts and
\* however many replies it fails to build, one life of it does not judge again what
\* it has answered: for every sequence space and every window and history of the
\* host that fit into half of it.
THEOREM AnsweredOnce == Spec => AnsweredNotJudgedAgain
<1> DEFINE Once == \A n \in Commands : judged'[n] > judged[n] => n \notin answered
<1>1. TypeOK /\ HostInv /\ [Next]_vars => [Once]_vars
  <2> SUFFICES ASSUME TypeOK, HostInv, Next, NEW k \in Commands, judged'[k] > judged[k],
                      k \in answered
               PROVE  FALSE
    OBVIOUS
  <2>1. k < k /\ k \in Nat
    BY JudgesAfterAnswered, BoundsAssumption DEF Commands
  <2> QED BY <2>1
<1>2. Spec => [][Once]_vars
  BY <1>1, HostInvariant, PTL DEF Spec
<1> QED BY <1>2 DEF AnsweredNotJudgedAgain

\* One life of the device judges nothing that was issued before a command it has
\* answered, whichever of them reaches it first after a restart.
THEOREM AnsweredInOrder == Spec => AnsweredNotOvertaken
<1> DEFINE InOrder == \A n \in Commands : judged'[n] > judged[n] => \A m \in answered : m <= n
<1>1. TypeOK /\ HostInv /\ [Next]_vars => [InOrder]_vars
  <2> SUFFICES ASSUME TypeOK, HostInv, Next, NEW k \in Commands, judged'[k] > judged[k],
                      NEW m \in answered
               PROVE  m <= k
    OBVIOUS
  <2>1. m < k /\ m \in Nat /\ k \in Nat
    BY JudgesAfterAnswered, BoundsAssumption DEF TypeOK, Commands
  <2> QED BY <2>1
<1>2. Spec => [][InOrder]_vars
  BY <1>1, HostInvariant, PTL DEF Spec
<1> QED BY <1>2 DEF AnsweredNotOvertaken

-----------------------------------------------------------------------------
(***************************************************************************)
(* The ring of replies: it holds each command the host may still           *)
(* retransmit and the device has answered.                                 *)
(***************************************************************************)

\* The slots in use, the command a slot holds, and how many commits ago it was
\* written.
UsedSlots == {i \in Slots : window.cache[i].used}
Held(i) == window.cache[i].crc
Age(i) == IF i < window.next THEN window.next - 1 - i ELSE window.next - 1 - i + Depth

\* The ring holds commands up to the last one answered.
UpTo(h) == \A i \in UsedSlots : Held(i) <= h
LastInv ==
  /\ ~window.valid => UsedSlots = {}
  /\ window.valid => \E h \in 1 .. issued : LastAnswered(h) /\ UpTo(h)

\* A slot holds the verdict of a command that was given one, the refusal of another.
SlotInv ==
  \A i \in UsedSlots :
    /\ Held(i) \in 1 .. issued /\ window.cache[i].seq = Wire(Held(i))
    /\ window.cache[i].reply = IF Held(i) \in answered THEN VerdictFor(Held(i))
                               ELSE DenyReplay(Held(i))

\* No command is held twice, and the ring fills from its oldest slot.
DistinctInv == \A i, j \in UsedSlots : Held(i) = Held(j) => i = j
FilledInv == \A i \in UsedSlots : \A j \in Slots : Age(j) < Age(i) => j \in UsedSlots

\* e was the latest command issued when slot i was written: older slots hold none
\* later, and what was confirmed beyond it is in a younger slot.
Follows(i, e) ==
  /\ e < Held(i) + Resendable
  /\ \A j \in UsedSlots : Age(j) >= Age(i) => Held(j) <= e
  /\ \A m \in confirmed : m > e => \E j \in UsedSlots : Age(j) < Age(i) /\ Held(j) = m
FollowInv == \A i \in UsedSlots : \E e \in Held(i) .. issued : Follows(i, e)

\* What was answered and may be retransmitted is held.
KeptInv ==
  \A n \in answered : issued - Resendable < n => \E i \in UsedSlots : Held(i) = n

\* The last reply, if it was for a command whose verdict was sent, was that verdict.
ReplyInv ==
  \A n \in answered : lastReply.for = n => lastReply = VerdictFor(n)

RingInv == LastInv /\ SlotInv /\ DistinctInv /\ FilledInv /\ FollowInv /\ KeptInv /\ ReplyInv

\* The ring outlasts what may be committed while a command can be retransmitted, and
\* no two of the commands it holds share a number.
RingSuffices ==
  /\ 2 * Resendable - 1 <= Depth
  /\ Depth + Window + Resendable <= 2 * Half + 1

\* The numbers of the model are numbers.
LEMMA HostNumbers ==
  ASSUME TypeOK
  PROVE  /\ issued \in Nat /\ confirmed \subseteq 1 .. issued /\ Commands \subseteq Nat
         /\ 1 .. issued \subseteq Commands
         /\ answered \subseteq Commands /\ window \in Windows(Commands, Replies)
         /\ window.next \in Slots /\ Depth \in Nat /\ Depth >= 1 /\ Slots = 0 .. (Depth - 1)
         /\ Half \in Nat /\ Half >= 1 /\ Resendable \in Nat /\ Resendable >= 1
         /\ Window \in Nat /\ Resendable + Window <= Half
         /\ UsedSlots \subseteq Slots
<1>1. issued \in Nat /\ confirmed \subseteq 1 .. issued /\ Commands \subseteq Nat
      /\ 1 .. issued \subseteq Commands
  BY BoundsAssumption DEF TypeOK, Commands
<1>2. /\ answered \subseteq Commands /\ window \in Windows(Commands, Replies)
      /\ window.next \in Slots
  BY DEF TypeOK, Windows
<1>3. /\ Half \in Nat /\ Half >= 1 /\ Resendable \in Nat /\ Resendable >= 1
      /\ Window \in Nat /\ Resendable + Window <= Half
  BY HalfAssumption, ResendableAssumption
<1>4. Depth \in Nat /\ Depth >= 1 /\ Slots = 0 .. (Depth - 1) /\ UsedSlots \subseteq Slots
  BY DepthBounds DEF Slots, UsedSlots
<1> QED BY <1>1, <1>2, <1>3, <1>4

\* A slot in use holds a command.
LEMMA HeldType ==
  ASSUME TypeOK, NEW i \in UsedSlots
  PROVE  Held(i) \in Commands
<1>1. window.cache[i] \in SlotValues(Commands, Replies) /\ window.cache[i].used
  BY DEF TypeOK, Windows, UsedSlots
<1>2. window.cache[i] # EmptySlot
  BY <1>1 DEF EmptySlot
<1> QED BY <1>1, <1>2 DEF SlotValues, Held

\* Ages are below the depth; only the slot written next has the highest.
LEMMA AgeType ==
  ASSUME TypeOK, NEW i \in Slots
  PROVE  Age(i) \in 0 .. (Depth - 1) /\ (Age(i) = Depth - 1 <=> i = window.next)
<1>1. /\ window.next \in 0 .. (Depth - 1) /\ i \in 0 .. (Depth - 1)
      /\ Depth \in Nat /\ Depth >= 1
  BY HostNumbers
<1> QED BY <1>1 DEF Age

\* What a commit does to the ring.
LEMMA CommitRing ==
  ASSUME TypeOK, NEW n \in Commands, NEW reply,
         window' = Commit(window, Wire(n), n, reply)
  PROVE  /\ UsedSlots' = UsedSlots \cup {window.next}
         /\ window'.cache[window.next] = FilledSlot(Wire(n), n, reply)
         /\ \A i \in Slots : i # window.next => window'.cache[i] = window.cache[i]
         /\ \A i \in Slots : Age(i)' = IF i = window.next THEN 0 ELSE Age(i) + 1
<1>1. window.cache \in [Slots -> SlotValues(Commands, Replies)] /\ window.next \in Slots
  BY DEF TypeOK, Windows
<1>2. /\ window'.cache = [window.cache EXCEPT ![window.next] = FilledSlot(Wire(n), n, reply)]
      /\ window'.next = IF window.next + 1 = Depth THEN 0 ELSE window.next + 1
  BY DEF Commit
<1>3. /\ window'.cache[window.next] = FilledSlot(Wire(n), n, reply)
      /\ \A i \in Slots : i # window.next => window'.cache[i] = window.cache[i]
  BY <1>1, <1>2
<1>4. UsedSlots' = UsedSlots \cup {window.next}
  BY <1>1, <1>3 DEF UsedSlots, FilledSlot
<1>5. ASSUME NEW i \in Slots
      PROVE  Age(i)' = IF i = window.next THEN 0 ELSE Age(i) + 1
  <2>1. Age(i)' = IF i < window'.next THEN window'.next - 1 - i ELSE window'.next - 1 - i + Depth
    BY DEF Age
  <2>2. /\ window.next \in 0 .. (Depth - 1) /\ i \in 0 .. (Depth - 1)
        /\ Depth \in Nat /\ Depth >= 1
    BY HostNumbers
  <2> QED BY <1>2, <2>1, <2>2 DEF Age
<1> QED BY <1>3, <1>4, <1>5

\* Numbers that differ by less than the sequence space differ on the wire.
LEMMA WiresDiffer ==
  ASSUME NEW a \in Nat, NEW b \in Nat, a - b < 2 * Half, b - a < 2 * Half, Wire(a) = Wire(b)
  PROVE  a = b
<1>1. SeqDiff(Wire(a), Wire(b)) = 0 /\ SeqDiff(Wire(b), Wire(a)) = 0
  BY WireType, SeqDiffType
<1>2. CASE a >= b
  <2>1. SeqDiff(Wire(a), Wire(b)) = a - b
    BY <1>2, WireAhead
  <2> QED BY <1>1, <2>1
<1>3. CASE b >= a
  <2>1. SeqDiff(Wire(b), Wire(a)) = b - a
    BY <1>3, WireAhead
  <2> QED BY <1>1, <2>1
<1> QED BY <1>2, <1>3

\* The commands in some slots are no more than the slots.
LEMMA HeldCount ==
  ASSUME TypeOK, NEW S \in SUBSET UsedSlots
  PROVE  /\ IsFiniteSet({Held(j) : j \in S})
         /\ Cardinality({Held(j) : j \in S}) <= Cardinality(S)
         /\ DistinctInv => Cardinality({Held(j) : j \in S}) = Cardinality(S)
         /\ IsFiniteSet(S) /\ Cardinality(S) \in Nat /\ Cardinality(S) <= Depth
         /\ Cardinality({Held(j) : j \in S}) \in Nat
<1> DEFINE H == {Held(j) : j \in S}
           f == [j \in S |-> Held(j)]
<1>1. IsFiniteSet(Slots) /\ Cardinality(Slots) = Depth
  <2>1. Depth - 1 \in Int /\ 0 \in Int /\ Depth - 1 - 0 + 1 = Depth /\ ~(0 > Depth - 1)
    BY HostNumbers
  <2>2. Slots = 0 .. (Depth - 1)
    BY HostNumbers
  <2> QED BY <2>1, <2>2, FS_Interval
<1>2. S \in SUBSET Slots
  BY HostNumbers
<1>3. IsFiniteSet(S) /\ Cardinality(S) <= Depth /\ Cardinality(S) \in Nat
  BY <1>1, <1>2, FS_Subset, FS_CardinalityType
<1>4. f \in Surjection(S, H)
  BY DEF Surjection
<1>5. IsFiniteSet(H) /\ Cardinality(H) <= Cardinality(S)
  <2> HIDE DEF f, H
  <2> QED BY <1>3, <1>4, FS_Surjection
<1>6. ASSUME DistinctInv PROVE Cardinality(H) = Cardinality(S)
  <2>1. \A i, j \in S : f[i] = f[j] => i = j
    BY <1>6 DEF DistinctInv
  <2>2. f \in Injection(S, H)
    <3>1. f \in [S -> H] /\ DOMAIN f = S
      BY <1>4 DEF Surjection
    <3> HIDE DEF f, H
    <3> QED BY <2>1, <3>1 DEF Injection, IsInjective
  <2> HIDE DEF f, H
  <2> QED BY <1>3, <1>4, <2>2, FS_Surjection
<1>7. Cardinality(H) \in Nat
  <2> HIDE DEF H
  <2> QED BY <1>5, FS_CardinalityType
<1> QED BY <1>3, <1>5, <1>6, <1>7
\* What the ring holds is less than the sequence space behind the host: the host
\* cannot get further while the slot is not overwritten.
LEMMA HeldNear ==
  ASSUME TypeOK, HostInv, RingInv, RingSuffices, NEW i \in UsedSlots
  PROVE  issued - Held(i) < 2 * Half
<1> DEFINE c == Held(i)
           U == (1 .. issued) \ confirmed
           S == UsedSlots \ {i}
           K == {Held(j) : j \in S}
<1>0. c \in Nat /\ issued \in Nat
  BY HeldType, HostNumbers
<1>1. PICK e \in c .. issued : Follows(i, e)
  BY DEF RingInv, FollowInv
<1> DEFINE L == (e + 1) .. issued
<1>2. L \subseteq U \cup K
  <2>1. ASSUME NEW m \in L, m \notin U PROVE m \in K
    <3>1. m \in 1 .. issued /\ m > e
      BY <1>0, <1>1
    <3>2. m \in confirmed
      BY <2>1, <3>1
    <3>3. PICK j \in UsedSlots : Age(j) < Age(i) /\ Held(j) = m
      BY <1>1, <3>1, <3>2 DEF Follows
    <3>4. j # i
      BY <3>3, AgeType, HostNumbers
    <3> QED BY <3>3, <3>4
  <2> HIDE DEF L, U, K
  <2> QED BY <2>1
<1>3. /\ IsFiniteSet(U) /\ Cardinality(U) \in Nat /\ Cardinality(U) <= Window
  BY CommandsFinite DEF HostInv
<1>4. IsFiniteSet(K) /\ Cardinality(K) \in Nat /\ Cardinality(K) <= Depth - 1
  <2>1. S \in SUBSET UsedSlots /\ UsedSlots \in SUBSET UsedSlots
    OBVIOUS
  <2>2. /\ IsFiniteSet(UsedSlots) /\ Cardinality(UsedSlots) \in Nat
        /\ Cardinality(UsedSlots) <= Depth
    BY <2>1, HeldCount
  <2>3. IsFiniteSet(K) /\ Cardinality(K) <= Cardinality(S) /\ Cardinality(K) \in Nat
        /\ Cardinality(S) \in Nat
    BY <2>1, HeldCount
  <2>4. Cardinality(S) = Cardinality(UsedSlots) - 1
    BY <2>2, FS_RemoveElement
  <2> HIDE DEF S, K
  <2> QED BY <2>2, <2>3, <2>4, HostNumbers
<1>5. Cardinality(L) = issued - e
  <2>1. e + 1 \in Int /\ issued \in Int /\ e <= issued /\ e \in Int
    BY <1>0
  <2>2. Cardinality(L) = IF e + 1 > issued THEN 0 ELSE issued - (e + 1) + 1
    BY <2>1, FS_Interval
  <2> HIDE DEF L
  <2> QED BY <2>1, <2>2
<1>6. e < c + Resendable /\ e \in Nat
  BY <1>0, <1>1 DEF Follows
<1> HIDE DEF U, K, L, c
<1>7. /\ IsFiniteSet(U \cup K)
      /\ Cardinality(U \cup K) = Cardinality(U) + Cardinality(K) - Cardinality(U \cap K)
  BY <1>3, <1>4, FS_Union
<1>8. Cardinality(U \cap K) \in Nat
  <2>1. U \cap K \in SUBSET U
    OBVIOUS
  <2> QED BY <1>3, <2>1, FS_Subset, FS_CardinalityType
<1>9. Cardinality(L) <= Cardinality(U \cup K)
  BY <1>2, <1>7, FS_Subset
<1>10. issued - c < 2 * Half
  <2>1. issued - e <= Window + (Depth - 1)
    BY <1>0, <1>3, <1>4, <1>5, <1>6, <1>7, <1>8, <1>9, HostNumbers
  <2>2. /\ Depth \in Nat /\ Window \in Nat /\ Resendable \in Nat /\ Half \in Nat
        /\ Depth + Window + Resendable <= 2 * Half + 1
    BY HostNumbers DEF RingSuffices
  <2>3. c \in Nat /\ issued \in Nat /\ e \in Nat
    BY <1>0, <1>6
  <2> QED BY <1>6, <2>1, <2>2, <2>3
<1> QED BY <1>10 DEF c

\* The number of a command that may be retransmitted finds this command only.
LEMMA SlotsOfCommand ==
  ASSUME TypeOK, HostInv, RingInv, RingSuffices,
         NEW n \in Commands, n <= issued, issued - Resendable < n
  PROVE  SlotsOf(window, Wire(n)) = {i \in UsedSlots : Held(i) = n}
<1>1. ASSUME NEW i \in UsedSlots
      PROVE  window.cache[i].seq = Wire(n) <=> Held(i) = n
  <2>1. /\ Held(i) \in Nat /\ n \in Nat /\ Held(i) <= issued
        /\ window.cache[i].seq = Wire(Held(i))
    BY HostNumbers, HeldType DEF RingInv, SlotInv
  <2>2. issued - Held(i) < 2 * Half
    BY HeldNear
  <2>3. n - Held(i) < 2 * Half /\ Held(i) - n < 2 * Half
    BY <2>1, <2>2, HostNumbers
  <2> QED BY <2>1, <2>3, WiresDiffer
<1> QED BY <1>1 DEF SlotsOf, UsedSlots

\* What the device does with a command that may be retransmitted: it answers from the
\* slot that holds it, or there is none.
LEMMA LookUp ==
  ASSUME TypeOK, HostInv, RingInv, RingSuffices,
         NEW n \in Commands, n <= issued, issued - Resendable < n
  PROVE  /\ IsCached(window, Wire(n), n) =>
              /\ \E i \in UsedSlots : Held(i) = n
              /\ CachedReply(window, Wire(n)) =
                   IF n \in answered THEN VerdictFor(n) ELSE DenyReplay(n)
         /\ IsStale(window, Wire(n), n) => \A i \in UsedSlots : Held(i) # n
<1> DEFINE S == SlotsOf(window, Wire(n))
           f == FirstSlot(window, Wire(n))
<1>1. S = {i \in UsedSlots : Held(i) = n}
  BY SlotsOfCommand
<1>2. ASSUME S # {} PROVE f \in UsedSlots /\ Held(f) = n
  BY <1>1, <1>2, FirstSlotFound
<1>3. ASSUME IsCached(window, Wire(n), n)
      PROVE  /\ \E i \in UsedSlots : Held(i) = n
             /\ CachedReply(window, Wire(n)) =
                  IF n \in answered THEN VerdictFor(n) ELSE DenyReplay(n)
  <2>1. f \in UsedSlots /\ Held(f) = n
    BY <1>2, <1>3 DEF IsCached
  <2>2. window.cache[f].reply = IF n \in answered THEN VerdictFor(n) ELSE DenyReplay(n)
    BY <2>1 DEF RingInv, SlotInv
  <2> QED BY <2>1, <2>2 DEF CachedReply
<1>4. ASSUME IsStale(window, Wire(n), n), NEW i \in UsedSlots, Held(i) = n PROVE FALSE
  <2>1. S # {}
    BY <1>1, <1>4
  <2>2. window.cache[f].crc = n
    BY <1>2, <2>1 DEF Held
  <2> QED BY <1>4, <2>1, <2>2 DEF IsStale, IsCached
<1> QED BY <1>3, <1>4

\* A commit never overwrites a command that may still be retransmitted: with it and
\* the command committed, the ring would hold more commands than there are around it.
LEMMA Survives ==
  ASSUME TypeOK, HostInv, RingInv, RingSuffices,
         NEW n \in Commands, n <= issued, issued - Resendable < n,
         \A i \in UsedSlots : Held(i) # n,
         NEW i \in UsedSlots, issued - Resendable < Held(i)
  PROVE  i # window.next
<1> SUFFICES ASSUME i = window.next PROVE FALSE
  OBVIOUS
<1> DEFINE m == Held(i)
           K == {Held(j) : j \in UsedSlots}
           L == (m - Resendable + 1) .. issued
<1>0. m \in Nat /\ n \in Nat /\ issued \in Nat /\ m <= issued
  BY HeldType, HostNumbers DEF RingInv, SlotInv
<1>1. UsedSlots = Slots
  <2>1. ASSUME NEW j \in Slots, j # i PROVE Age(j) < Age(i)
    BY <2>1, AgeType, HostNumbers
  <2> QED BY <2>1, HostNumbers DEF RingInv, FilledInv
<1>2. ASSUME NEW j \in UsedSlots PROVE Held(j) > m - Resendable
  <2>0. Held(j) \in Nat
    BY HeldType, HostNumbers
  <2>1. PICK e \in Held(j) .. issued : Follows(j, e)
    BY DEF RingInv, FollowInv
  <2>2. Age(i) >= Age(j)
    BY AgeType, HostNumbers
  <2>3. m <= e /\ e < Held(j) + Resendable
    BY <2>1, <2>2 DEF Follows
  <2> HIDE DEF m
  <2> QED BY <1>0, <2>0, <2>3, HostNumbers
<1>3. K \cup {n} \in SUBSET L
  <2>1. ASSUME NEW j \in UsedSlots PROVE Held(j) \in L
    <3>1. Held(j) \in Nat /\ Held(j) <= issued
      BY HeldType, HostNumbers DEF RingInv, SlotInv
    <3> HIDE DEF m
    <3> QED BY <1>0, <1>2, <3>1, HostNumbers
  <2>2. n \in L
    <3> HIDE DEF m
    <3> QED BY <1>0, HostNumbers
  <2> HIDE DEF L
  <2> QED BY <2>1, <2>2
<1>4. IsFiniteSet(K) /\ Cardinality(K) = Depth
  <2>1. UsedSlots \in SUBSET UsedSlots
    OBVIOUS
  <2>2. IsFiniteSet(K) /\ Cardinality(K) = Cardinality(UsedSlots)
    BY <2>1, HeldCount DEF RingInv
  <2>3. Cardinality(Slots) = Depth
    <3>1. Depth - 1 \in Int /\ 0 \in Int /\ Depth - 1 - 0 + 1 = Depth /\ ~(0 > Depth - 1)
      BY HostNumbers
    <3>2. Slots = 0 .. (Depth - 1)
      BY HostNumbers
    <3> QED BY <3>1, <3>2, FS_Interval
  <2> HIDE DEF K
  <2> QED BY <1>1, <2>2, <2>3
<1>5. n \notin K
  OBVIOUS
<1>6. IsFiniteSet(L) /\ Cardinality(L) = issued - m + Resendable
  <2> HIDE DEF m
  <2>1. m - Resendable + 1 \in Int /\ issued \in Int /\ ~(m - Resendable + 1 > issued)
        /\ issued - (m - Resendable + 1) + 1 = issued - m + Resendable
    BY <1>0, HostNumbers
  <2> QED BY <2>1, FS_Interval
<1> HIDE DEF K, L
<1>7. Cardinality(K \cup {n}) = Depth + 1
  BY <1>4, <1>5, FS_AddElement
<1>8. Cardinality(K \cup {n}) <= Cardinality(L)
  BY <1>3, <1>6, FS_Subset
<1>9. issued - Resendable < m
  OBVIOUS
<1> HIDE DEF m
<1>10. Depth \in Nat /\ Resendable \in Nat /\ 2 * Resendable - 1 <= Depth
  BY HostNumbers DEF RingSuffices
<1>11. Depth + 1 <= issued - m + Resendable
  BY <1>6, <1>7, <1>8
<1> QED BY <1>0, <1>9, <1>10, <1>11

\* A commit of a command that the ring does not hold, and that may be retransmitted,
\* keeps the ring as it has to be and every other such command in it.
LEMMA CommitKeepsRing ==
  ASSUME TypeOK, HostInv, RingInv, RingSuffices,
         NEW n \in Commands, n <= issued, issued - Resendable < n,
         NEW x \in Slots, x = window.next,
         \A i \in UsedSlots : Held(i) # n,
         NEW reply, window' = Commit(window, Wire(n), n, reply),
         Reaches(n), issued' = issued
  PROVE  /\ DistinctInv' /\ FilledInv' /\ FollowInv'
         /\ \A m \in Commands : issued - Resendable < m /\ (m = n \/ \E i \in UsedSlots : Held(i) = m)
              => \E i \in UsedSlots' : Held(i)' = m
         /\ x \in UsedSlots' /\ Held(x)' = n
         /\ \A i \in UsedSlots' : i # x => i \in UsedSlots /\ Held(i)' = Held(i)
<1>0. /\ x \in Slots /\ UsedSlots \subseteq Slots /\ UsedSlots' = UsedSlots \cup {x}
      /\ issued \in Nat /\ n \in Nat /\ Resendable \in Nat /\ Resendable >= 1
  <2>1. UsedSlots' = UsedSlots \cup {x}
    BY CommitRing
  <2> QED BY <2>1, HostNumbers
<1>1. Held(x)' = n
  <2>1. window'.cache[x] = FilledSlot(Wire(n), n, reply)
    BY CommitRing
  <2> QED BY <2>1 DEF FilledSlot, Held
<1>2. ASSUME NEW i \in UsedSlots', i # x
      PROVE  i \in UsedSlots /\ Held(i)' = Held(i)
  BY <1>0, <1>2, CommitRing DEF Held
<1>3. ASSUME NEW i \in Slots
      PROVE  /\ Age(i)' = IF i = x THEN 0 ELSE Age(i) + 1
             /\ Age(i) \in Nat /\ Age(i) <= Age(x)
             /\ i # x => Age(i) < Age(x)
  <2>1. Age(i)' = IF i = x THEN 0 ELSE Age(i) + 1
    BY CommitRing
  <2>2. /\ Age(i) \in 0 .. (Depth - 1) /\ (Age(i) = Depth - 1 <=> i = x)
        /\ Age(x) \in 0 .. (Depth - 1) /\ (Age(x) = Depth - 1 <=> x = x)
    BY <1>0, AgeType
  <2> QED BY <2>1, <2>2, HostNumbers
<1>4. DistinctInv'
  <2> SUFFICES ASSUME NEW i \in UsedSlots', NEW j \in UsedSlots', Held(i)' = Held(j)'
               PROVE  i = j
    BY DEF DistinctInv
  <2> QED BY <1>1, <1>2 DEF RingInv, DistinctInv
<1>5. FilledInv'
  <2> SUFFICES ASSUME NEW i \in UsedSlots', NEW j \in Slots, Age(j)' < Age(i)'
               PROVE  j \in UsedSlots'
    BY DEF FilledInv
  <2>1. i \in Slots /\ (i # x => i \in UsedSlots)
    BY <1>0, <1>2
  <2>2. i # x
    BY <1>3, <2>1
  <2>3. j # x => Age(j) < Age(i)
    BY <1>3, <2>1, <2>2
  <2> QED BY <1>0, <2>1, <2>2, <2>3 DEF RingInv, FilledInv
<1>6. FollowInv'
  <2> SUFFICES ASSUME NEW i \in UsedSlots'
               PROVE  \E e \in (Held(i)') .. issued' : Follows(i, e)'
    BY DEF FollowInv
  <2>1. CASE i = x
    <3>1. n < issued + 1 /\ n .. issued = (Held(i)') .. issued' /\ issued \in n .. issued
      BY <1>0, <1>1, <2>1
    <3>2. issued < Held(i)' + Resendable
      BY <1>0, <1>1, <2>1
    <3>3. ASSUME NEW j \in UsedSlots' PROVE Held(j)' <= issued
      <4>1. CASE j = x
        BY <1>0, <1>1, <4>1
      <4>2. CASE j # x
        BY <1>0, <1>2, <3>3, <4>2 DEF RingInv, SlotInv
      <4> QED BY <4>1, <4>2
    <3>4. ASSUME NEW m \in confirmed', m > issued PROVE FALSE
      BY <1>0, <3>4, HostNumbers DEF Reaches
    <3> QED BY <3>1, <3>2, <3>3, <3>4 DEF Follows
  <2>2. CASE i # x
    <3>0. i \in UsedSlots /\ i \in Slots /\ Held(i)' = Held(i)
      BY <1>0, <1>2, <2>2
    <3>1. PICK e \in Held(i) .. issued : Follows(i, e)
      BY <3>0 DEF RingInv, FollowInv
    <3>2. e \in (Held(i)') .. issued' /\ e < Held(i)' + Resendable
      BY <3>0, <3>1 DEF Follows
    <3>3. ASSUME NEW j \in UsedSlots', Age(j)' >= Age(i)' PROVE Held(j)' <= e
      <4>1. j \in Slots /\ j # x
        BY <1>0, <1>3, <2>2, <3>0, <3>3
      <4>2. j \in UsedSlots /\ Held(j)' = Held(j)
        BY <1>2, <4>1
      <4>3. Age(j) >= Age(i)
        BY <1>3, <2>2, <3>0, <3>3, <4>1
      <4> QED BY <3>1, <4>2, <4>3 DEF Follows
    <3>4. ASSUME NEW m \in confirmed', m > e
          PROVE  \E j \in UsedSlots' : Age(j)' < Age(i)' /\ Held(j)' = m
      <4>1. CASE m = n
        <5>1. x \in UsedSlots' /\ Age(x)' < Age(i)' /\ Held(x)' = n
          BY <1>0, <1>1, <1>3, <2>2, <3>0
        <5> QED BY <4>1, <5>1
      <4>2. CASE m # n
        <5>1. m \in confirmed
          BY <4>2 DEF Reaches
        <5>2. PICK j \in UsedSlots : Age(j) < Age(i) /\ Held(j) = m
          BY <3>1, <3>4, <5>1 DEF Follows
        <5>3. j # x /\ j \in Slots
          <6>1. j \in Slots
            BY <1>0
          <6>2. Age(i) <= Age(x) /\ Age(i) \in Nat /\ Age(x) \in Nat /\ Age(j) \in Nat
            BY <1>0, <1>3, <3>0, <6>1
          <6> QED BY <5>2, <6>1, <6>2
        <5>4. j \in UsedSlots' /\ Held(j)' = m
          BY <1>0, <1>2, <5>2, <5>3
        <5>5. Age(j)' < Age(i)'
          BY <1>3, <2>2, <3>0, <5>2, <5>3
        <5> QED BY <5>4, <5>5
      <4> QED BY <4>1, <4>2
    <3> QED BY <3>2, <3>3, <3>4 DEF Follows
  <2> QED BY <2>1, <2>2
<1>7. ASSUME NEW m \in Commands, issued - Resendable < m,
             m = n \/ \E i \in UsedSlots : Held(i) = m
      PROVE  \E i \in UsedSlots' : Held(i)' = m
  <2>1. CASE m = n
    BY <1>0, <1>1, <2>1
  <2>2. CASE m # n
    <3>1. PICK i \in UsedSlots : Held(i) = m
      BY <1>7, <2>2
    <3>2. i # x
      BY <1>7, <3>1, Survives
    <3> QED BY <1>0, <1>2, <3>1, <3>2
  <2> QED BY <2>1, <2>2
<1> QED BY <1>0, <1>1, <1>2, <1>4, <1>5, <1>6, <1>7

-----------------------------------------------------------------------------

\* A command judged and answered takes a slot; nothing in the ring is later.
LEMMA JudgeKeepsRing ==
  ASSUME TypeOK, HostInv, RingInv, RingSuffices, TypeOK',
         NEW n \in Commands, n <= issued, issued - Resendable < n,
         Judge(n), Reaches(n), issued' = issued
  PROVE  RingInv'
<1>0. /\ n \in Nat /\ issued \in Nat /\ n \in 1 .. issued /\ window.next \in Slots
      /\ answered \subseteq Commands
  BY HostNumbers DEF Commands
<1> DEFINE reply == VerdictFor(n)
<1>1. /\ window' = Commit(window, Wire(n), n, reply) /\ IsFresh(window, Wire(n))
      /\ answered' = answered \cup {n} /\ lastReply' = VerdictFor(n)
  BY DEF Judge, Answer
<1>2. /\ \A m \in answered : m < n
      /\ window'.valid /\ LastAnswered(n)'
  BY JudgeKeepsHost
<1>3. \A i \in UsedSlots : Held(i) < n
  <2> SUFFICES ASSUME NEW i \in UsedSlots PROVE Held(i) < n
    OBVIOUS
  <2>1. window.valid
    BY DEF RingInv, LastInv
  <2>2. PICK h \in 1 .. issued : LastAnswered(h) /\ UpTo(h)
    BY <2>1 DEF RingInv, LastInv
  <2>3. n > h
    BY <1>1, <2>1, <2>2, FreshMeansLater
  <2>4. Held(i) <= h /\ Held(i) \in Nat /\ h \in Nat
    BY <2>2, HeldType, HostNumbers DEF UpTo
  <2> QED BY <1>0, <2>3, <2>4
<1>4. \A i \in UsedSlots : Held(i) # n
  BY <1>0, <1>3
<1>5. PICK x \in Slots : x = window.next
  BY <1>0
<1>6. /\ DistinctInv' /\ FilledInv' /\ FollowInv'
      /\ \A m \in Commands : issued - Resendable < m /\ (m = n \/ \E i \in UsedSlots : Held(i) = m)
           => \E i \in UsedSlots' : Held(i)' = m
      /\ x \in UsedSlots' /\ Held(x)' = n
      /\ \A i \in UsedSlots' : i # x => i \in UsedSlots /\ Held(i)' = Held(i)
  BY <1>1, <1>4, <1>5, CommitKeepsRing
<1>7. \A m \in Commands : m # n => (m \in answered' <=> m \in answered)
  BY <1>0, <1>1
<1>8. n \in answered'
  BY <1>0, <1>1
<1>9. LastInv'
  <2>1. UpTo(n)'
    <3> SUFFICES ASSUME NEW i \in UsedSlots' PROVE Held(i)' <= n
      BY DEF UpTo
    <3>1. CASE i = x
      BY <1>0, <1>6, <3>1
    <3>2. CASE i # x
      <4>1. i \in UsedSlots /\ Held(i)' = Held(i)
        BY <1>6, <3>2
      <4>2. Held(i) \in Nat
        BY <4>1, HeldType, HostNumbers
      <4> QED BY <1>0, <1>3, <4>1, <4>2
    <3> QED BY <3>1, <3>2
  <2> QED BY <1>0, <1>2, <2>1 DEF LastInv
<1>10. SlotInv'
  <2> SUFFICES ASSUME NEW i \in UsedSlots'
               PROVE  /\ Held(i)' \in 1 .. issued' /\ window'.cache[i].seq = Wire(Held(i)')
                      /\ window'.cache[i].reply = IF Held(i)' \in answered' THEN VerdictFor(Held(i)')
                                                 ELSE DenyReplay(Held(i)')
    BY DEF SlotInv, Wire, VerdictFor, DenyReplay
  <2>1. CASE i = x
    <3>1. window'.cache[x] = FilledSlot(Wire(n), n, reply)
      BY <1>1, <1>5, CommitRing
    <3> QED BY <1>0, <1>6, <1>8, <2>1, <3>1 DEF FilledSlot
  <2>2. CASE i # x
    <3>1. i \in UsedSlots /\ Held(i)' = Held(i) /\ window'.cache[i] = window.cache[i]
      BY <1>1, <1>5, <1>6, <2>2, CommitRing, HostNumbers
    <3>2. Held(i) # n /\ Held(i) \in Commands
      BY <1>4, <3>1, HeldType
    <3> QED BY <1>7, <3>1, <3>2 DEF RingInv, SlotInv
  <2> QED BY <2>1, <2>2
<1>11. KeptInv'
  <2> SUFFICES ASSUME NEW m \in answered', issued - Resendable < m
               PROVE  \E i \in UsedSlots' : Held(i)' = m
    BY DEF KeptInv
  <2>1. m \in Commands /\ (m = n \/ \E i \in UsedSlots : Held(i) = m)
    BY <1>0, <1>1 DEF RingInv, KeptInv, Commands
  <2> QED BY <1>6, <2>1
<1>12. ReplyInv'
  BY <1>1 DEF ReplyInv, VerdictFor
<1> QED BY <1>6, <1>9, <1>10, <1>11, <1>12 DEF RingInv

\* A command refused takes a slot with its refusal: it was never given a verdict.
LEMMA RefuseKeepsRing ==
  ASSUME TypeOK, HostInv, RingInv, RingSuffices, TypeOK',
         NEW n \in Commands, n <= issued, issued - Resendable < n,
         Refuse(n), Reaches(n), issued' = issued
  PROVE  RingInv'
<1>0. /\ n \in Nat /\ issued \in Nat /\ n \in 1 .. issued /\ window.next \in Slots
      /\ answered \subseteq Commands
  BY HostNumbers DEF Commands
<1> DEFINE reply == DenyReplay(n)
<1>1. /\ window' = Commit(window, Wire(n), n, reply) /\ IsStale(window, Wire(n), n)
      /\ answered' = answered /\ lastReply' = DenyReplay(n)
  BY DEF Refuse, Answer
<1>2. window.valid
  BY <1>1 DEF IsStale, IsFresh
<1>3. PICK h \in 1 .. issued : LastAnswered(h) /\ UpTo(h)
  BY <1>2 DEF RingInv, LastInv
<1>4. window'.valid /\ n <= h /\ LastAnswered(h)'
  BY <1>3, RepeatKeepsLast
<1>5. \A i \in UsedSlots : Held(i) # n
  BY <1>1, LookUp
<1>6. PICK x \in Slots : x = window.next
  BY <1>0
<1>7. /\ DistinctInv' /\ FilledInv' /\ FollowInv'
      /\ \A m \in Commands : issued - Resendable < m /\ (m = n \/ \E i \in UsedSlots : Held(i) = m)
           => \E i \in UsedSlots' : Held(i)' = m
      /\ x \in UsedSlots' /\ Held(x)' = n
      /\ \A i \in UsedSlots' : i # x => i \in UsedSlots /\ Held(i)' = Held(i)
  BY <1>1, <1>5, <1>6, CommitKeepsRing
<1>8. n \notin answered
  BY <1>5 DEF RingInv, KeptInv
<1>9. LastInv'
  <2>1. UpTo(h)'
    <3> SUFFICES ASSUME NEW i \in UsedSlots' PROVE Held(i)' <= h
      BY DEF UpTo
    <3>1. CASE i = x
      BY <1>4, <1>7, <3>1
    <3>2. CASE i # x
      BY <1>3, <1>7, <3>2 DEF UpTo
    <3> QED BY <3>1, <3>2
  <2> QED BY <1>3, <1>4, <2>1 DEF LastInv
<1>10. SlotInv'
  <2> SUFFICES ASSUME NEW i \in UsedSlots'
               PROVE  /\ Held(i)' \in 1 .. issued' /\ window'.cache[i].seq = Wire(Held(i)')
                      /\ window'.cache[i].reply = IF Held(i)' \in answered' THEN VerdictFor(Held(i)')
                                                 ELSE DenyReplay(Held(i)')
    BY DEF SlotInv, Wire, VerdictFor, DenyReplay
  <2>1. CASE i = x
    <3>1. window'.cache[x] = FilledSlot(Wire(n), n, reply)
      BY <1>1, <1>6, CommitRing
    <3> QED BY <1>0, <1>1, <1>7, <1>8, <2>1, <3>1 DEF FilledSlot
  <2>2. CASE i # x
    <3>1. i \in UsedSlots /\ Held(i)' = Held(i) /\ window'.cache[i] = window.cache[i]
      BY <1>1, <1>6, <1>7, <2>2, CommitRing, HostNumbers
    <3> QED BY <1>1, <3>1 DEF RingInv, SlotInv
  <2> QED BY <2>1, <2>2
<1>11. KeptInv'
  <2> SUFFICES ASSUME NEW m \in answered, issued - Resendable < m
               PROVE  \E i \in UsedSlots' : Held(i)' = m
    BY <1>1 DEF KeptInv
  <2>1. m \in Commands /\ \E i \in UsedSlots : Held(i) = m
    BY <1>0 DEF RingInv, KeptInv
  <2> QED BY <1>7, <2>1
<1>12. ReplyInv'
  BY <1>1, <1>8 DEF ReplyInv, DenyReplay
<1> QED BY <1>7, <1>9, <1>10, <1>11, <1>12 DEF RingInv

\* An answer from the cache changes nothing but what the host has confirmed, and what
\* it confirms is in the ring.
LEMMA ResendKeepsRing ==
  ASSUME TypeOK, HostInv, RingInv, RingSuffices, TypeOK',
         NEW n \in Commands, n <= issued, issued - Resendable < n,
         Resend(n), Reaches(n), issued' = issued
  PROVE  RingInv'
<1>0. n \in Nat /\ issued \in Nat
  BY HostNumbers
<1>1. /\ window' = window /\ answered' = answered /\ IsCached(window, Wire(n), n)
      /\ lastReply' = CachedReply(window, Wire(n))
  BY DEF Resend, Answer
<1>2. /\ UsedSlots' = UsedSlots /\ \A i : Held(i)' = Held(i) /\ Age(i)' = Age(i)
  BY <1>1 DEF UsedSlots, Held, Age
<1>3. PICK k \in UsedSlots : Held(k) = n
  BY <1>1, LookUp
<1>4. lastReply' = IF n \in answered THEN VerdictFor(n) ELSE DenyReplay(n)
  BY <1>1, LookUp
<1>5. window.valid
  BY <1>1 DEF IsCached, IsFresh
<1>6. PICK h \in 1 .. issued : LastAnswered(h) /\ UpTo(h)
  BY <1>5 DEF RingInv, LastInv
<1>7. window'.valid /\ LastAnswered(h)'
  BY <1>6, RepeatKeepsLast
<1>8. LastInv'
  BY <1>2, <1>6, <1>7 DEF LastInv, UpTo
<1>9. SlotInv' /\ DistinctInv' /\ FilledInv' /\ KeptInv'
  BY <1>1, <1>2 DEF RingInv, SlotInv, DistinctInv, FilledInv, KeptInv, Held, Wire, VerdictFor,
                    DenyReplay
<1>10. FollowInv'
  <2> SUFFICES ASSUME NEW i \in UsedSlots PROVE \E e \in Held(i) .. issued : Follows(i, e)'
    BY <1>2 DEF FollowInv
  <2>1. PICK e \in Held(i) .. issued : Follows(i, e)
    BY DEF RingInv, FollowInv
  <2>2. ASSUME NEW m \in confirmed', m > e
        PROVE  \E j \in UsedSlots : Age(j) < Age(i) /\ Held(j) = m
    <3>1. CASE m \in confirmed
      BY <2>1, <2>2, <3>1 DEF Follows
    <3>2. CASE m \notin confirmed
      <4>1. m = n
        BY <3>2 DEF Reaches
      <4>2. Held(i) \in Nat /\ e \in Nat
        BY HeldType, HostNumbers
      <4>3. ~(Age(k) >= Age(i))
        BY <1>0, <1>3, <2>1, <2>2, <4>1, <4>2 DEF Follows
      <4>4. Age(k) < Age(i)
        BY <4>3, AgeType, HostNumbers
      <4> QED BY <1>3, <4>1, <4>4
    <3> QED BY <3>1, <3>2
  <2>3. Follows(i, e)'
    BY <1>2, <2>1, <2>2 DEF Follows
  <2> QED BY <2>1, <2>3
<1>11. ReplyInv'
  BY <1>1, <1>4 DEF ReplyInv, VerdictFor, DenyReplay
<1> QED BY <1>8, <1>9, <1>10, <1>11 DEF RingInv

\* The host's next command is not confirmed; those that may be retransmitted get fewer.
LEMMA IssueKeepsRing ==
  ASSUME TypeOK, HostInv, RingInv, TypeOK', Issue
  PROVE  RingInv'
<1>1. /\ issued \in Nat /\ issued' = issued + 1 /\ Resendable \in Nat /\ Commands \subseteq Nat
      /\ UNCHANGED <<window, confirmed, answered, lastReply>>
  BY HostNumbers DEF Issue
<1>2. /\ UsedSlots' = UsedSlots /\ \A i : Held(i)' = Held(i) /\ Age(i)' = Age(i)
  BY <1>1 DEF UsedSlots, Held, Age
<1>3. \A h \in 1 .. issued : h \in 1 .. issued' /\ (LastAnswered(h) => LastAnswered(h)')
  BY <1>1 DEF LastAnswered, ConfirmedAfter
<1>4. LastInv'
  BY <1>1, <1>2, <1>3 DEF RingInv, LastInv, UpTo
<1>5. SlotInv' /\ DistinctInv' /\ FilledInv' /\ ReplyInv'
  BY <1>1, <1>2, <1>3 DEF RingInv, SlotInv, DistinctInv, FilledInv, ReplyInv, Wire, VerdictFor,
                          DenyReplay
<1>6. KeptInv'
  <2>1. answered' = answered /\ \A m \in answered : issued' - Resendable < m => issued - Resendable < m
    <3>1. \A m \in answered : m \in Nat
      BY HostNumbers
    <3> QED BY <1>1, <3>1
  <2> QED BY <1>2, <2>1 DEF RingInv, KeptInv
<1>7. FollowInv'
  <2> SUFFICES ASSUME NEW i \in UsedSlots PROVE \E e \in Held(i) .. issued' : Follows(i, e)'
    BY <1>2 DEF FollowInv
  <2>1. PICK e \in Held(i) .. issued : Follows(i, e)
    BY DEF RingInv, FollowInv
  <2>2. Held(i) \in Nat
    BY HeldType, HostNumbers
  <2>3. e \in Held(i) .. issued'
    BY <1>1, <2>2
  <2>4. Follows(i, e)'
    BY <1>1, <1>2, <2>1 DEF Follows
  <2> QED BY <2>3, <2>4
<1> QED BY <1>4, <1>5, <1>6, <1>7 DEF RingInv

\* A restart empties the ring.
LEMMA EmptyRing ==
  ASSUME window = InitialWindow, answered = {}
  PROVE  LastInv /\ SlotInv /\ DistinctInv /\ FilledInv /\ FollowInv /\ KeptInv /\ ReplyInv
<1>1. UsedSlots = {} /\ ~window.valid
  BY DEF UsedSlots, InitialWindow, EmptySlot
<1> QED BY <1>1 DEF LastInv, SlotInv, DistinctInv, FilledInv, FollowInv, KeptInv, ReplyInv

\* What moves neither the window nor the host keeps the ring.
LEMMA StillRing ==
  ASSUME RingInv, UNCHANGED <<window, issued, confirmed, answered, lastReply>>
  PROVE  RingInv'
<1>1. UsedSlots' = UsedSlots /\ \A i : Held(i)' = Held(i) /\ Age(i)' = Age(i)
  BY DEF UsedSlots, Held, Age
<1>2. \A h : LastAnswered(h)' = LastAnswered(h) /\ UpTo(h)' = UpTo(h)
  BY <1>1 DEF LastAnswered, ConfirmedAfter, UpTo
<1>3. \A i, e : Follows(i, e)' = Follows(i, e)
  BY <1>1 DEF Follows
<1> QED BY <1>1, <1>2, <1>3
     DEF RingInv, LastInv, SlotInv, DistinctInv, FilledInv, FollowInv, KeptInv, ReplyInv

\* Every step keeps the ring.
LEMMA RingNext ==
  ASSUME RingSuffices, TypeOK, HostInv, RingInv, TypeOK', [Next]_vars
  PROVE  RingInv'
<1>1. CASE Issue
  BY <1>1, IssueKeepsRing
<1>2. CASE Reboot
  <2>1. window' = InitialWindow /\ answered' = {}
    BY <1>2 DEF Reboot
  <2>2. UsedSlots' = {} /\ ~window'.valid
    BY <2>1 DEF UsedSlots, InitialWindow, EmptySlot
  <2> QED BY <2>1, <2>2 DEF RingInv, LastInv, SlotInv, DistinctInv, FilledInv, FollowInv, KeptInv,
                            ReplyInv
<1>3. ASSUME NEW n \in Commands, Exchange(n) PROVE RingInv'
  <2>1. issued - Resendable < n /\ n <= issued /\ issued' = issued
    BY <1>3 DEF Exchange
  <2>2. CASE (Judge(n) \/ Resend(n) \/ Refuse(n)) /\ Reaches(n)
    BY <2>1, <2>2, JudgeKeepsRing, ResendKeepsRing, RefuseKeepsRing
  <2>3. CASE LoseReply(n) /\ UNCHANGED confirmed
    BY <2>1, <2>3, StillRing DEF LoseReply
  <2> QED BY <1>3, <2>2, <2>3 DEF Exchange, Handle
<1>4. CASE UNCHANGED vars
  BY <1>4, StillRing DEF vars
<1> QED BY <1>1, <1>2, <1>3, <1>4 DEF Next

\* Idempotence: whatever the device sends for a command whose verdict this life of it
\* has sent is the reply it gave then, for every ring that suffices.
THEOREM RetransmissionsGetTheirReply ==
  ASSUME RingSuffices
  PROVE  Spec => RetransmissionGetsItsReply
<1> DEFINE Idempotent == \A n \in answered : lastReply'.for = n => lastReply' = VerdictFor(n)
<1>1. Init => RingInv
  BY EmptyRing DEF Init, RingInv
<1>2. TypeOK /\ HostInv /\ RingInv /\ TypeOK' /\ [Next]_vars => RingInv'
  BY RingNext
<1>3. Spec => [](TypeOK /\ HostInv /\ RingInv)
  BY <1>1, <1>2, HostInvariant, PTL DEF Spec
<1>4. TypeOK /\ HostInv /\ RingInv /\ RingInv' /\ [Next]_vars => [Idempotent]_vars
  <2> SUFFICES ASSUME TypeOK, HostInv, RingInv, RingInv', Next, NEW n \in answered,
                      lastReply'.for = n
               PROVE  lastReply' = VerdictFor(n)
    OBVIOUS
  <2>1. CASE n \in answered'
    BY <2>1 DEF RingInv, ReplyInv, VerdictFor
  <2>2. CASE n \notin answered'
    <3>1. Reboot
      <4>1. ASSUME NEW m \in Commands, Exchange(m) PROVE FALSE
        BY <2>2, <4>1 DEF Exchange, Handle, Judge, Resend, Refuse, LoseReply
      <4>2. ~Issue
        BY <2>2 DEF Issue
      <4> QED BY <4>1, <4>2 DEF Next
    <3>2. lastReply'.for = 0
      BY <3>1 DEF Reboot, NoReply
    <3> QED BY <3>2, BoundsAssumption DEF TypeOK, Commands
  <2> QED BY <2>1, <2>2
<1>5. Spec => [][Idempotent]_vars
  BY <1>3, <1>4, PTL DEF Spec
<1> QED BY <1>5 DEF RetransmissionGetsItsReply

=============================================================================
