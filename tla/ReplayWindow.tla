------------------------------ MODULE ReplayWindow ------------------------------
(***************************************************************************)
(* The replay window as handle_cmd_frame (hex4_guard.c) drives it.  The    *)
(* guard task alone touches s_replay, so one frame is one step.  Frames    *)
(* arrive in any order, any number of times, with any sequence number: a   *)
(* lost frame never arrives, a duplicated or delayed one arrives again.    *)
(* A retransmission answered from the cache changes nothing and is a       *)
(* stuttering step here; ReplayHost and HexGuard look at the answer.       *)
(***************************************************************************)
EXTENDS GuardReplay, Sequences

CONSTANTS
  Crcs,           \* fingerprints of frame payloads (guard_crc16)
  Verdicts,       \* replies to a frame judged on its merits
  DenyReplay,     \* the reply to a stale frame
  DenyEncoding    \* the reply to a frame refused before the window is consulted

Replies == Verdicts \cup {DenyReplay, DenyEncoding}

VARIABLES
  window,    \* s_replay
  since,     \* history: advance of last_seq since each number was last accepted,
             \* capped at Half
  recent     \* history: the commits the ring should still hold, newest last

vars == <<window, since, recent>>

TypeOK ==
  /\ window \in Windows(Crcs, Replies)
  /\ since \in [Seqs -> 0 .. Half]
  /\ recent \in Seq([seq : Seqs, crc : Crcs, reply : Replies])
  /\ Len(recent) <= Depth

Init ==
  /\ window = InitialWindow
  /\ since = [s \in Seqs |-> Half]
  /\ recent = <<>>

-----------------------------------------------------------------------------

Advance(seq) ==
  IF window.valid /\ IsFresh(window, seq) THEN SeqDiff(seq, window.last_seq) ELSE 0

Aged(s, by) == IF since[s] + by < Half THEN since[s] + by ELSE Half

Remember(entry) ==
  recent' = IF Len(recent) < Depth THEN Append(recent, entry) ELSE Append(Tail(recent), entry)

\* reply_and_commit: the reply is sent, then committed whatever the verdict.
ReplyAndCommit(seq, crc, reply) ==
  /\ window' = Commit(window, seq, crc, reply)
  /\ Remember([seq |-> seq, crc |-> crc, reply |-> reply])

\* A fresh frame is judged, possibly executed, and its reply committed.
Accept(seq, crc, reply) ==
  /\ IsFresh(window, seq)
  /\ ReplyAndCommit(seq, crc, reply)
  /\ since' = [s \in Seqs |-> IF s = seq THEN 0 ELSE Aged(s, Advance(seq))]

\* A stale frame is refused; the refusal is committed like any reply.
Reject(seq, crc) ==
  /\ IsStale(window, seq, crc)
  /\ ReplyAndCommit(seq, crc, DenyReplay)
  /\ UNCHANGED since

\* A frame that does not parse, or lacks a field, is refused and committed
\* before the window is consulted, under its number or under 0 (the number is
\* read from a freed JSON object, so even a number present may end up as 0).
Malformed(seq, crc) ==
  /\ ReplyAndCommit(seq, crc, DenyEncoding)
  /\ since' = [s \in Seqs |-> Aged(s, Advance(seq))]

Next ==
  \E seq \in Seqs, crc \in Crcs :
    \/ \E reply \in Verdicts : Accept(seq, crc, reply)
    \/ Reject(seq, crc)
    \/ Malformed(seq, crc)

Spec == Init /\ [][Next]_vars

-----------------------------------------------------------------------------

\* A number the window calls fresh has not been accepted while last_seq
\* advanced by less than half the sequence space: across the wrap of uint32,
\* and across any duplication and reordering.  Accepted means committed: a
\* number whose reply could not be built is not, and may be judged again.
FreshNotRecentlyAccepted ==
  \A s \in Seqs : IsFresh(window, s) => since[s] = Half

\* The inductive form: the window remembers the exact distance to every number
\* accepted within half the sequence space.
WindowInv ==
  \A s \in Seqs :
    since[s] < Half => window.valid /\ SeqDiff(window.last_seq, s) = since[s]

\* What a retransmission is answered from the cache is a reply given to the
\* same number and fingerprint in one of the last Depth commits, and if those
\* commits hold the number under one fingerprint only, a retransmission of it
\* is answered from the cache.
CacheServesRecentReplies ==
  \A seq \in Seqs, crc \in Crcs :
    LET kept == {k \in DOMAIN recent : recent[k].seq = seq}
    IN  /\ IsCached(window, seq, crc) =>
             \E k \in kept : recent[k].crc = crc /\ recent[k].reply = CachedReply(window, seq)
        /\ (/\ ~IsFresh(window, seq)
            /\ kept # {}
            /\ \A k \in kept : recent[k].crc = crc) => IsCached(window, seq, crc)

=============================================================================
