------------------------------ MODULE ReplayHost ------------------------------
(***************************************************************************)
(* The replay window seen from a host that numbers its commands one after  *)
(* the other, may have several of them unconfirmed, and may send any of    *)
(* its latest ones again (a reply that comes after the host's timeout      *)
(* leaves a duplicate behind).  The link may lose a frame (it is then      *)
(* never exchanged) or its reply.  Command n carries the wire number       *)
(* (Base + n) modulo the sequence space.  The device may fail to build a   *)
(* reply: what it has judged is then neither answered nor cached.  It may  *)
(* restart: nothing of the window is stored, while the host goes on        *)
(* numbering and may retransmit what an earlier life of the device judged. *)
(***************************************************************************)
EXTENDS GuardReplay, FiniteSets

CONSTANTS
  Base,         \* the number before the host's first (guard_cmd.py: the time of day)
  MaxCommands,  \* bound: commands the host issues
  Resendable,   \* how many of its latest commands the host may still retransmit
  Window,       \* commands the host leaves unconfirmed before it issues another
  MaxReboots,   \* bound: restarts of the device
  MaxLostReplies \* bound: replies the device cannot build

ASSUME BaseAssumption == Base \in Seqs
ASSUME BoundsAssumption == MaxCommands \in Nat /\ MaxReboots \in Nat /\ MaxLostReplies \in Nat
\* What a restarted device sees first may lie this far behind what comes next.
ASSUME ResendableAssumption == Resendable \in Nat \ {0} /\ Window \in Nat /\ Resendable + Window <= Half

Commands == 1 .. MaxCommands

Wire(n) == (Base + n) % (2 * Half)

\* Replies: a verdict names the command it was given for, so that the reply to
\* one command is never mistaken for the reply to another.
VerdictFor(n) == [for |-> n, verdict |-> "JUDGED"]
DenyReplay(n) == [for |-> n, verdict |-> "DENY_REPLAY"]
NoReply == [for |-> 0, verdict |-> "NONE"]
Replies == [for : Commands, verdict : {"JUDGED", "DENY_REPLAY"}]

VARIABLES
  window,     \* s_replay on the device
  issued,     \* the host's latest command
  confirmed,  \* commands whose reply has reached the host
  judged,     \* history: how often the device judged each command since it started
  answered,   \* history: commands whose judgement was answered since it started
  lastReply,  \* the reply the device sent last since it started
  reboots,    \* history: restarts of the device
  lostReplies \* history: replies that could not be built

vars == <<window, issued, confirmed, judged, answered, lastReply, reboots, lostReplies>>

TypeOK ==
  /\ window \in Windows(Commands, Replies)
  /\ issued \in 0 .. MaxCommands
  /\ confirmed \in SUBSET (1 .. issued)
  /\ judged \in [Commands -> Nat]
  /\ answered \in SUBSET {n \in Commands : judged[n] > 0}
  /\ lastReply \in Replies \cup {NoReply}
  /\ reboots \in 0 .. MaxReboots
  /\ lostReplies \in 0 .. MaxLostReplies

Init ==
  /\ window = InitialWindow
  /\ issued = 0
  /\ confirmed = {}
  /\ judged = [n \in Commands |-> 0]
  /\ answered = {}
  /\ lastReply = NoReply
  /\ reboots = 0
  /\ lostReplies = 0

-----------------------------------------------------------------------------

\* reply_and_commit built the reply: it is sent ...
Answer(n, reply) == lastReply' = reply /\ UNCHANGED lostReplies

Judge(n) ==
  /\ IsFresh(window, Wire(n))
  /\ window' = Commit(window, Wire(n), n, VerdictFor(n))
  /\ judged' = [judged EXCEPT ![n] = @ + 1]
  /\ answered' = answered \cup {n}
  /\ Answer(n, VerdictFor(n))

\* hex4_guard.c:144: the cached reply goes out, nothing is committed.
Resend(n) ==
  /\ IsCached(window, Wire(n), n)
  /\ Answer(n, CachedReply(window, Wire(n)))
  /\ UNCHANGED <<window, judged, answered>>

\* hex4_guard.c:151: the refusal goes through reply_and_commit.
Refuse(n) ==
  /\ IsStale(window, Wire(n), n)
  /\ window' = Commit(window, Wire(n), n, DenyReplay(n))
  /\ Answer(n, DenyReplay(n))
  /\ UNCHANGED <<judged, answered>>

\* ... or the reply cannot be built (hex4_guard.c:92), to a verdict or to a
\* refusal: what was done is done, nothing is sent and nothing is committed.
LoseReply(n) ==
  /\ lostReplies < MaxLostReplies
  /\ lostReplies' = lostReplies + 1
  /\ \/ IsFresh(window, Wire(n)) /\ judged' = [judged EXCEPT ![n] = @ + 1]
     \/ IsStale(window, Wire(n), n) /\ UNCHANGED judged
  /\ UNCHANGED <<window, answered, lastReply>>

\* The reply reaches the host, or the link loses it.
Reaches(n) == confirmed' \in {confirmed, confirmed \cup {n}}

Handle(n) ==
  \/ (Judge(n) \/ Resend(n) \/ Refuse(n)) /\ Reaches(n)
  \/ LoseReply(n) /\ UNCHANGED confirmed

Issue ==
  /\ issued < MaxCommands
  /\ Cardinality((1 .. issued) \ confirmed) < Window
  /\ issued' = issued + 1
  /\ UNCHANGED <<window, confirmed, judged, answered, lastReply, reboots, lostReplies>>

Exchange(n) ==
  /\ n \in Commands
  /\ issued - Resendable < n /\ n <= issued
  /\ Handle(n)
  /\ UNCHANGED <<issued, reboots>>

\* The device restarts and initialises its window; the host notices nothing.
Reboot ==
  /\ reboots < MaxReboots
  /\ reboots' = reboots + 1
  /\ window' = InitialWindow
  /\ judged' = [n \in Commands |-> 0]
  /\ answered' = {}
  /\ lastReply' = NoReply
  /\ UNCHANGED <<issued, confirmed, lostReplies>>

Next == Issue \/ Reboot \/ \E n \in Commands : Exchange(n)

Spec == Init /\ [][Next]_vars

-----------------------------------------------------------------------------

\* However often a command is retransmitted, and across the wrap of the
\* numbers, one life of the device does not judge again what it has answered
\* (hex4_guard.c:140).  A judgement whose reply could not be built left no
\* trace in the window: such a command is judged anew when it comes again.
AnsweredNotJudgedAgain ==
  [][\A n \in Commands : judged'[n] > judged[n] => n \notin answered]_vars

\* One life of the device judges nothing that was issued before a command it
\* has answered, whichever of them reaches it first after a restart.
AnsweredNotOvertaken ==
  [][\A n \in Commands : judged'[n] > judged[n] => \A m \in answered : m <= n]_vars

\* Idempotence: whatever the device sends for a command whose verdict it has
\* sent in this life is the very reply it gave then (hex4_guard.c:70: all
\* replies enter the cache, a retransmission is given the same one).
RetransmissionGetsItsReply ==
  [][\A n \in answered : lastReply'.for = n => lastReply' = VerdictFor(n)]_vars

=============================================================================
