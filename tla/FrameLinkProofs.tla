--------------------------- MODULE FrameLinkProofs ---------------------------
(***************************************************************************)
(* The command link, proved for every set of frames, every noise, every    *)
(* time-out, every width of a time's low word, and every bound: however    *)
(* the UART task and the guard task interleave on what they share without  *)
(* a lock.                                                                 *)
(***************************************************************************)
EXTENDS FrameLink, SequenceTheorems, WellFoundedInduction, TLAPS

\* A read byte is being worked on.
Feeding == uart.pc \in {"fetch", "body", "dataDone", "compare", "stamp", "rearm", "handOver"}

\* Where the program can be: a driver that is not installed holds nothing, and
\* the task that feeds has a byte to feed.
Places ==
  /\ boot = "off" => line = <<>> /\ uart = IdleUart /\ guard = IdleGuard
  /\ Feeding => uart.chunk # <<>>

\* Before its high byte comes, a 16-bit field holds a byte.
LowBytes ==
  /\ rx.state = "LEN1" \/ (uart.pc = "body" /\ uart.st = "LEN1") => rx.len \in Bytes
  /\ rx.state = "CRC1" \/ (uart.pc = "body" /\ uart.st = "CRC1") => rx.crcRx \in Bytes

\* No time is ahead of the clock.
Clocks ==
  /\ lastByte <= clock /\ uart.now <= clock /\ guard.now <= clock
  /\ ghost.acceptedAt <= clock /\ ghost.before <= ghost.acceptedAt

\* The stored time is that of the last accepted frame, or about to be; the time
\* of the last byte only grows.
Stamped ==
  /\ uart.pc = "stamp" => uart.now = ghost.acceptedAt /\ ghost.before <= lastFrame
  /\ uart.pc # "stamp" => lastFrame = ghost.acceptedAt
  /\ uart.pc \in {"stamp", "rearm"} => ghost.crossed
  /\ uart.pc = "endChunk" => lastByte <= uart.now

\* A decision to report holds good until the report, whatever is accepted meanwhile.
Earned ==
  \/ guard.now - ghost.acceptedAt > LinkLost
  \/ ghost.crossed /\ guard.now - ghost.before > LinkLost
  \/ ghost.torn

\* The report that is under way was decided on a silence.
LossInv == guard.pc \in {"fire", "report"} => Earned

\* The flag stands for a report that was made or is under way since the last frame.
FiredInv ==
  fired => ghost.reported \/ guard.pc = "report" \/ uart.pc \in {"stamp", "rearm"}

\* A tick is over: the silence it began in was reported.
SilenceInv ==
  guard.pc = "receive" /\ guard.now - ghost.acceptedAt > LinkLost
    => ghost.reported \/ ghost.crossed

\* After the gap check the parser searches, unless bytes came later than the tick.
QuietInv ==
  guard.pc = "loss" =>
    /\ uart.pc = "wait" /\ guard.now - lastByte > FrameGap => rx.state = "SYNC0" \/ ghost.torn
    /\ uart.pc = "endChunk" /\ guard.now - uart.now > FrameGap
         => rx.state = "SYNC0" \/ ghost.torn

\* The inductive invariant: the types and what each label knows of the values it
\* carries, then what the times mean.
TypeInv == TypeOK /\ Places /\ LowBytes
TimeInv == Clocks /\ Stamped /\ LossInv /\ FiredInv /\ SilenceInv /\ QuietInv
IInv == TypeInv /\ TimeInv

-----------------------------------------------------------------------------
(* What the parser makes of the bytes of one frame.                           *)

\* What the CRC of a frame covers, and the register after n bytes of it.
Covered(f) == LowHigh(Len(f.payload)) \o f.payload
Register(f, n) == CrcSteps(Covered(f))[n]

\* The parser has taken the first m bytes of a frame.
Fed(r, f, m) ==
  LET L == Len(f.payload)
  IN  /\ m = 1 => r.state = "SYNC1"
      /\ m = 2 => r.state = "VER"
      /\ m = 3 => r.state = "TYPE"
      /\ m = 4 => r.state = "LEN0"
      /\ m = 5 => r.state = "LEN1" /\ r.len = L % 256 /\ r.crc = Register(f, 1)
      /\ m \in 6 .. L + 5 => /\ r.state = "DATA" /\ r.len = L
                             /\ Len(r.payload) = m - 6 /\ r.crc = Register(f, m - 4)
      /\ m = L + 6 => r.state = "CRC0" /\ r.crc = Crc(Covered(f))
      /\ m = L + 7 => r.state = "CRC1" /\ r.crc = Crc(Covered(f))
                        /\ r.crcRx = Crc(Covered(f)) % 256
      /\ m = L + 8 => r.state = "SYNC0"

\* It has stored a byte of the payload and not yet asked whether it was the last.
Storing(r, f, m) ==
  /\ m \in 7 .. Len(f.payload) + 6
  /\ r.state = "DATA" /\ r.len = Len(f.payload)
  /\ Len(r.payload) = m - 6 /\ r.crc = Register(f, m - 4)

\* A byte on the line is noise or of a frame the host sent.
Genuine(b, s) ==
  IF b.of = 0 THEN b.pos = 0
  ELSE /\ b.of \in DOMAIN s
       /\ b.pos \in DOMAIN Packed[s[b.of]] /\ b.val = Packed[s[b.of]][b.pos]

AllGenuine(q, s) == \A i \in DOMAIN q : Genuine(q[i], s)

\* Where the UART task has fed a byte and not yet left the parser's code.
InParser == {"body", "dataDone", "compare"}

\* How far the parser has followed the first m bytes of a frame, at each label of
\* the UART task.
FollowsFrame(u, r, f, m) ==
  /\ m \in 1 .. Len(f.payload) + 8
  /\ u.pc \notin InParser => Fed(r, f, m)
  /\ u.pc = "body" => /\ u.st = r.state /\ Head(u.chunk).val = Packed[f][m]
                      /\ IF m = 1 THEN r.state \in {"SYNC0", "SYNC1"} ELSE Fed(r, f, m - 1)
  /\ u.pc = "dataDone" => Storing(r, f, m)
  /\ u.pc = "compare" => m = Len(f.payload) + 8 /\ CrcHolds(r) /\ r.state = "SYNC0"

\* A frame with a payload: the parser never leaves the payload of an empty one.
Bodied == {f \in Frames : f.payload # <<>>}

Follows(u, r, run, s) ==
  run[1] # 0 => /\ run[1] \in DOMAIN s
                /\ s[run[1]] \in Bodied => FollowsFrame(u, r, s[run[1]], run[2])

\* The inductive invariant of whole frames.
FrameInv ==
  /\ AllGenuine(line, sent) /\ AllGenuine(uart.chunk, sent)
  /\ Follows(uart, rx, ghost.run, sent)

-----------------------------------------------------------------------------
(* The words of the format.                                                   *)

\* An interval from zero.
LEMMA Interval ==
  ASSUME NEW m \in Nat
  PROVE  \A n : n \in 0 .. m <=> n \in Nat /\ n < m + 1
  OBVIOUS

\* What the two widths mean.
LEMMA Widths ==
  /\ \A n : n \in Words <=> n \in Nat /\ n < 65536
  /\ \A n : n \in Bytes <=> n \in Nat /\ n < 256
<1>1. MaxWord \in Nat /\ MaxByte \in Nat /\ MaxWord + 1 = 65536 /\ MaxByte + 1 = 256
  BY DEF MaxWord, MaxByte
<1>2. \A n : n \in 0 .. MaxWord <=> n \in Nat /\ n < MaxWord + 1
  BY <1>1, Interval
<1>3. \A n : n \in 0 .. MaxByte <=> n \in Nat /\ n < MaxByte + 1
  BY <1>1, Interval
<1> QED BY <1>1, <1>2, <1>3 DEF Words, Bytes

\* Exclusive or of one bit is one bit.
LEMMA Xor1Type ==
  ASSUME NEW x \in Nat, NEW y \in Nat
  PROVE  Xor1(x, y) \in Nat /\ Xor1(x, y) < 2
  BY DEF Xor1

\* Exclusive or of 2 bits, from that of 1.
LEMMA Xor2Type ==
  ASSUME NEW x \in Nat, NEW y \in Nat, x < 4, y < 4
  PROVE  Xor2(x, y) \in Nat /\ Xor2(x, y) < 4
<1> DEFINE xh == x \div 2  xl == x % 2
           yh == y \div 2  yl == y % 2
<1>1. /\ xh \in Nat /\ xh < 2 /\ xl \in Nat /\ xl < 2
      /\ yh \in Nat /\ yh < 2 /\ yl \in Nat /\ yl < 2
  OBVIOUS
<1>2. Xor2(x, y) = 2 * Xor1(xh, yh) + Xor1(xl, yl)
  BY DEF Xor2
<1> HIDE DEF xh, xl, yh, yl
<1>3. /\ Xor1(xh, yh) \in Nat /\ Xor1(xh, yh) < 2
      /\ Xor1(xl, yl) \in Nat /\ Xor1(xl, yl) < 2
  BY <1>1, Xor1Type
<1> QED BY <1>2, <1>3

\* Exclusive or of 4 bits, from that of 2.
LEMMA Xor4Type ==
  ASSUME NEW x \in Nat, NEW y \in Nat, x < 16, y < 16
  PROVE  Xor4(x, y) \in Nat /\ Xor4(x, y) < 16
<1> DEFINE xh == x \div 4  xl == x % 4
           yh == y \div 4  yl == y % 4
<1>1. /\ xh \in Nat /\ xh < 4 /\ xl \in Nat /\ xl < 4
      /\ yh \in Nat /\ yh < 4 /\ yl \in Nat /\ yl < 4
  OBVIOUS
<1>2. Xor4(x, y) = 4 * Xor2(xh, yh) + Xor2(xl, yl)
  BY DEF Xor4
<1> HIDE DEF xh, xl, yh, yl
<1>3. /\ Xor2(xh, yh) \in Nat /\ Xor2(xh, yh) < 4
      /\ Xor2(xl, yl) \in Nat /\ Xor2(xl, yl) < 4
  BY <1>1, Xor2Type
<1> QED BY <1>2, <1>3

\* Exclusive or of 8 bits, from that of 4.
LEMMA Xor8Type ==
  ASSUME NEW x \in Bytes, NEW y \in Bytes
  PROVE  Xor8(x, y) \in Bytes
<1> DEFINE xh == x \div 16  xl == x % 16
           yh == y \div 16  yl == y % 16
<1>1. /\ xh \in Nat /\ xh < 16 /\ xl \in Nat /\ xl < 16
      /\ yh \in Nat /\ yh < 16 /\ yl \in Nat /\ yl < 16
  BY Widths
<1>2. Xor8(x, y) = 16 * Xor4(xh, yh) + Xor4(xl, yl)
  BY DEF Xor8
<1> HIDE DEF xh, xl, yh, yl
<1>3. /\ Xor4(xh, yh) \in Nat /\ Xor4(xh, yh) < 16
      /\ Xor4(xl, yl) \in Nat /\ Xor4(xl, yl) < 16
  BY <1>1, Xor4Type
<1> QED BY <1>2, <1>3, Widths

\* Exclusive or of 16 bits, from that of 8.
LEMMA Xor16Type ==
  ASSUME NEW x \in Words, NEW y \in Words
  PROVE  Xor16(x, y) \in Words
<1> DEFINE xh == x \div 256  xl == x % 256
           yh == y \div 256  yl == y % 256
<1>1. xh \in Bytes /\ xl \in Bytes /\ yh \in Bytes /\ yl \in Bytes
  BY Widths
<1>2. Xor16(x, y) = 256 * Xor8(xh, yh) + Xor8(xl, yl)
  BY DEF Xor16
<1> HIDE DEF xh, xl, yh, yl
<1>3. Xor8(xh, yh) \in Bytes /\ Xor8(xl, yl) \in Bytes
  BY <1>1, Xor8Type
<1> QED BY <1>2, <1>3, Widths

\* One shift of the CRC register.
LEMMA ShiftType ==
  ASSUME NEW c \in Words
  PROVE  Shift(c) \in Words
<1>1. c \in Nat /\ c < 65536
  BY Widths
<1>2. (2 * c) % 65536 \in Words /\ 4129 \in Words
  BY <1>1, Widths
<1>3. Xor16((2 * c) % 65536, 4129) \in Words
  BY <1>2, Xor16Type
<1>4. c < 32768 => 2 * c \in Words
  BY <1>1, Widths
<1> QED BY <1>1, <1>3, <1>4 DEF Shift

\* The CRC register is sixteen bits wide after every byte.
LEMMA CrcType ==
  ASSUME NEW crc \in Words, NEW byte \in Bytes
  PROVE  CrcUpdate(crc, byte) \in Words
<1>1. ASSUME NEW c \in Words PROVE Shift4(c) \in Words
  BY ShiftType DEF Shift2, Shift4
<1>2. Xor16(crc, 256 * byte) \in Words
  <2>1. 256 * byte \in Words
    BY Widths
  <2> QED BY <2>1, Xor16Type
<1> QED BY <1>1, <1>2 DEF CrcUpdate

\* A length and a CRC go out as two bytes.
LEMMA LowHighType ==
  ASSUME NEW n \in Words
  PROVE  LowHigh(n) \in Seq(Bytes)
<1>1. n % 256 \in Bytes /\ n \div 256 \in Bytes
  BY Widths
<1> QED BY <1>1 DEF LowHigh

\* A set of numbers that is not empty has a least one.
LEMMA LeastNat ==
  ASSUME NEW S \in SUBSET Nat, S # {}
  PROVE  \E i \in S : \A j \in S : i <= j
<1>1. \E i \in S : \A j \in S : <<j, i>> \notin OpToRel(<, Nat)
  BY NatLessThanWellFounded, WFMin
<1>2. PICK i \in S : \A j \in S : <<j, i>> \notin OpToRel(<, Nat)
  BY <1>1
<1>3. ASSUME NEW j \in S PROVE i <= j
  <2>1. i \in Nat /\ j \in Nat
    OBVIOUS
  <2>2. ~(j < i)
    <3>1. <<j, i>> \in Nat \X Nat /\ <<j, i>>[1] = j /\ <<j, i>>[2] = i
      BY <2>1
    <3> QED BY <1>2, <3>1, Zenon DEF OpToRel
  <2> QED BY <2>1, <2>2
<1> QED BY <1>3

\* What the loop of guard_crc16 has computed after n bytes, from the bytes before.
Register0(s, crc, n) == IF n = 0 THEN 0 ELSE CrcUpdate(crc[n - 1], s[n])

\* The loop can run to any length.
LEMMA LoopRuns ==
  ASSUME NEW s, NEW k \in Nat
  PROVE  \E g : g = [n \in 0 .. k |-> Register0(s, g, n)]
<1> DEFINE B == {n \in Nat : ~ \E g : g = [i \in 0 .. n |-> Register0(s, g, i)]}
<1>1. SUFFICES ASSUME B # {} PROVE FALSE
  OBVIOUS
<1>2. PICK n \in B : \A m \in B : n <= m
  <2>1. B \in SUBSET Nat
    OBVIOUS
  <2> HIDE DEF B
  <2> QED BY <1>1, <2>1, LeastNat
<1>3. n \in Nat
  OBVIOUS
<1>4. n # 0
  <2>1. ASSUME n = 0 PROVE FALSE
    <3> DEFINE g == [i \in 0 .. 0 |-> 0]
    <3>1. \A i \in 0 .. 0 : Register0(s, g, i) = 0
      BY DEF Register0
    <3>2. g = [i \in 0 .. 0 |-> Register0(s, g, i)]
      BY <3>1
    <3> HIDE DEF g
    <3> QED BY <2>1, <3>2
  <2> QED BY <2>1
<1>5. n - 1 \in Nat /\ n - 1 \notin B
  BY <1>2, <1>3, <1>4
<1>6. PICK g : g = [i \in 0 .. (n - 1) |-> Register0(s, g, i)]
  BY <1>5
<1> DEFINE h == [i \in 0 .. n |-> Register0(s, g, i)]
<1>7. ASSUME NEW i \in 0 .. n PROVE Register0(s, g, i) = Register0(s, h, i)
  <2>1. CASE i = 0
    BY <2>1 DEF Register0
  <2>2. CASE i # 0
    <3>1. i - 1 \in 0 .. (n - 1) /\ i - 1 \in 0 .. n
      BY <1>3, <2>2
    <3>2. g[i - 1] = Register0(s, g, i - 1)
      BY <1>6, <3>1, Zenon
    <3>3. h[i - 1] = Register0(s, g, i - 1)
      BY <3>1
    <3>4. g[i - 1] = h[i - 1]
      BY <3>2, <3>3
    <3> HIDE DEF h
    <3> QED BY <3>4 DEF Register0
  <2> QED BY <2>1, <2>2
<1>8. h = [i \in 0 .. n |-> Register0(s, h, i)]
  <2>1. \A i \in 0 .. n : h[i] = Register0(s, h, i)
    BY <1>7
  <2>2. h = [i \in 0 .. n |-> h[i]]
    OBVIOUS
  <2> HIDE DEF h
  <2> QED BY <2>1, <2>2
<1>9. n \notin B
  <2> HIDE DEF h
  <2> QED BY <1>8
<1> QED BY <1>9

\* The register starts at 0, and each byte updates what the bytes before it left.
LEMMA CrcLoop ==
  ASSUME NEW S, NEW s \in Seq(S)
  PROVE  /\ CrcSteps(s)[0] = 0
         /\ \A n \in 1 .. Len(s) : CrcSteps(s)[n] = CrcUpdate(CrcSteps(s)[n - 1], s[n])
<1> DEFINE crc == CrcSteps(s)
<1>1. Len(s) \in Nat
  BY LenProperties
<1>2. crc = [n \in 0 .. Len(s) |-> Register0(s, crc, n)]
  <2>1. CrcSteps(s) = CHOOSE g : g = [n \in 0 .. Len(s) |-> Register0(s, g, n)]
    BY Zenon DEF CrcSteps, Register0
  <2>2. \E g : g = [n \in 0 .. Len(s) |-> Register0(s, g, n)]
    BY <1>1, LoopRuns
  <2> QED BY <2>1, <2>2
<1> HIDE DEF crc
<1>3. \A n \in 0 .. Len(s) : crc[n] = Register0(s, crc, n)
  BY <1>2, Zenon
<1>4. crc[0] = 0
  <2>1. 0 \in 0 .. Len(s)
    BY <1>1
  <2> QED BY <1>3, <2>1 DEF Register0
<1>5. ASSUME NEW n \in 1 .. Len(s) PROVE crc[n] = CrcUpdate(crc[n - 1], s[n])
  <2>1. n \in 0 .. Len(s) /\ n # 0
    BY <1>1
  <2> QED BY <1>3, <2>1 DEF Register0
<1> QED BY <1>4, <1>5 DEF crc

\* The register is sixteen bits wide after every number of bytes.
LEMMA RegisterType ==
  ASSUME NEW s \in Seq(Bytes), NEW n \in 0 .. Len(s)
  PROVE  CrcSteps(s)[n] \in Words
<1> DEFINE B == {k \in 0 .. Len(s) : CrcSteps(s)[k] \notin Words}
<1>1. SUFFICES ASSUME B # {} PROVE FALSE
  OBVIOUS
<1>2. Len(s) \in Nat
  BY LenProperties
<1>3. PICK k \in B : \A m \in B : k <= m
  <2>1. B \in SUBSET Nat
    BY <1>2
  <2> HIDE DEF B
  <2> QED BY <1>1, <2>1, LeastNat
<1>4. k # 0
  <2>1. 0 \in Words
    BY Widths
  <2> QED BY <2>1, CrcLoop
<1>5. k - 1 \in 0 .. Len(s) /\ k \in 1 .. Len(s) /\ ~(k <= k - 1)
  BY <1>2, <1>4
<1>6. CrcSteps(s)[k - 1] \in Words
  BY <1>3, <1>5
<1>7. s[k] \in Bytes
  BY <1>5, ElementOfSeq
<1>8. CrcSteps(s)[k] \in Words
  BY <1>5, <1>6, <1>7, CrcLoop, CrcType
<1> QED BY <1>3, <1>8

\* guard_crc16 returns sixteen bits.
LEMMA CrcIsWord ==
  ASSUME NEW s \in Seq(Bytes)
  PROVE  Crc(s) \in Words
<1>1. Len(s) \in 0 .. Len(s)
  BY LenProperties
<1> QED BY <1>1, RegisterType DEF Crc

\* guard_frame_pack writes bytes.
LEMMA PackedType ==
  ASSUME NEW f \in Frames
  PROVE  Packed[f] \in Seq(Bytes)
<1> DEFINE body == LowHigh(Len(f.payload)) \o f.payload
<1>1. /\ f.type \in Bytes /\ f.payload \in Seq(Bytes) /\ Len(f.payload) \in Words
  BY FramesAssumption, MaxPayloadAssumption, Widths DEF CMD, REPLY, Words
<1>2. body \in Seq(Bytes)
  BY <1>1, LowHighType
<1>3. LowHigh(Crc(body)) \in Seq(Bytes)
  BY <1>2, CrcIsWord, LowHighType
<1>4. <<MagicH, MagicL, Version, f.type>> \in Seq(Bytes)
  BY <1>1, Widths DEF MagicH, MagicL, Version
<1> HIDE DEF body
<1>5. <<MagicH, MagicL, Version, f.type>> \o body \o LowHigh(Crc(body)) \in Seq(Bytes)
  BY <1>2, <1>3, <1>4
<1> QED BY <1>5 DEF Packed, Pack, body

-----------------------------------------------------------------------------
(* What the CRC of guard_crc16 notices.                                       *)

\* Exclusive or with the same bit takes different bits to different bits.
LEMMA Xor1Cancel ==
  ASSUME NEW x \in Nat, NEW y \in Nat, NEW z \in Nat, x < 2, y < 2, z < 2,
         Xor1(x, z) = Xor1(y, z) \/ Xor1(z, x) = Xor1(z, y)
  PROVE  x = y
BY DEF Xor1

\* Exclusive or with the same word of 2 bits takes different words to different words.
LEMMA Xor2Cancel ==
  ASSUME NEW x \in Nat, NEW y \in Nat, NEW z \in Nat, x < 4, y < 4, z < 4,
         Xor2(x, z) = Xor2(y, z) \/ Xor2(z, x) = Xor2(z, y)
  PROVE  x = y
<1> DEFINE xh == x \div 2  xl == x % 2
           yh == y \div 2  yl == y % 2
           zh == z \div 2  zl == z % 2
<1>1. /\ xh \in Nat /\ xh < 2 /\ xl \in Nat /\ xl < 2 /\ x = 2 * xh + xl
      /\ yh \in Nat /\ yh < 2 /\ yl \in Nat /\ yl < 2 /\ y = 2 * yh + yl
      /\ zh \in Nat /\ zh < 2 /\ zl \in Nat /\ zl < 2
  OBVIOUS
<1>2. /\ Xor2(x, z) = 2 * Xor1(xh, zh) + Xor1(xl, zl)
      /\ Xor2(y, z) = 2 * Xor1(yh, zh) + Xor1(yl, zl)
      /\ Xor2(z, x) = 2 * Xor1(zh, xh) + Xor1(zl, xl)
      /\ Xor2(z, y) = 2 * Xor1(zh, yh) + Xor1(zl, yl)
  BY DEF Xor2
<1> HIDE DEF xh, xl, yh, yl, zh, zl
<1>3. CASE Xor2(x, z) = Xor2(y, z)
  <2> DEFINE a == Xor1(xh, zh)  b == Xor1(xl, zl)
             c == Xor1(yh, zh)  d == Xor1(yl, zl)
  <2>1. /\ a \in Nat /\ a < 2 /\ b \in Nat /\ b < 2
        /\ c \in Nat /\ c < 2 /\ d \in Nat /\ d < 2
    BY <1>1, Xor1Type
  <2>2. 2 * a + b = 2 * c + d
    BY <1>2, <1>3
  <2>3. a = c /\ b = d
    <3> HIDE DEF a, b, c, d
    <3> QED BY <2>1, <2>2
  <2> QED BY <1>1, <2>3, Xor1Cancel
<1>4. CASE Xor2(z, x) = Xor2(z, y)
  <2> DEFINE a == Xor1(zh, xh)  b == Xor1(zl, xl)
             c == Xor1(zh, yh)  d == Xor1(zl, yl)
  <2>1. /\ a \in Nat /\ a < 2 /\ b \in Nat /\ b < 2
        /\ c \in Nat /\ c < 2 /\ d \in Nat /\ d < 2
    BY <1>1, Xor1Type
  <2>2. 2 * a + b = 2 * c + d
    BY <1>2, <1>4
  <2>3. a = c /\ b = d
    <3> HIDE DEF a, b, c, d
    <3> QED BY <2>1, <2>2
  <2> QED BY <1>1, <2>3, Xor1Cancel
<1> QED BY <1>3, <1>4

\* Exclusive or with the same word of 4 bits takes different words to different words.
LEMMA Xor4Cancel ==
  ASSUME NEW x \in Nat, NEW y \in Nat, NEW z \in Nat, x < 16, y < 16, z < 16,
         Xor4(x, z) = Xor4(y, z) \/ Xor4(z, x) = Xor4(z, y)
  PROVE  x = y
<1> DEFINE xh == x \div 4  xl == x % 4
           yh == y \div 4  yl == y % 4
           zh == z \div 4  zl == z % 4
<1>1. /\ xh \in Nat /\ xh < 4 /\ xl \in Nat /\ xl < 4 /\ x = 4 * xh + xl
      /\ yh \in Nat /\ yh < 4 /\ yl \in Nat /\ yl < 4 /\ y = 4 * yh + yl
      /\ zh \in Nat /\ zh < 4 /\ zl \in Nat /\ zl < 4
  OBVIOUS
<1>2. /\ Xor4(x, z) = 4 * Xor2(xh, zh) + Xor2(xl, zl)
      /\ Xor4(y, z) = 4 * Xor2(yh, zh) + Xor2(yl, zl)
      /\ Xor4(z, x) = 4 * Xor2(zh, xh) + Xor2(zl, xl)
      /\ Xor4(z, y) = 4 * Xor2(zh, yh) + Xor2(zl, yl)
  BY DEF Xor4
<1> HIDE DEF xh, xl, yh, yl, zh, zl
<1>3. CASE Xor4(x, z) = Xor4(y, z)
  <2> DEFINE a == Xor2(xh, zh)  b == Xor2(xl, zl)
             c == Xor2(yh, zh)  d == Xor2(yl, zl)
  <2>1. /\ a \in Nat /\ a < 4 /\ b \in Nat /\ b < 4
        /\ c \in Nat /\ c < 4 /\ d \in Nat /\ d < 4
    BY <1>1, Xor2Type
  <2>2. 4 * a + b = 4 * c + d
    BY <1>2, <1>3
  <2>3. a = c /\ b = d
    <3> HIDE DEF a, b, c, d
    <3> QED BY <2>1, <2>2
  <2> QED BY <1>1, <2>3, Xor2Cancel
<1>4. CASE Xor4(z, x) = Xor4(z, y)
  <2> DEFINE a == Xor2(zh, xh)  b == Xor2(zl, xl)
             c == Xor2(zh, yh)  d == Xor2(zl, yl)
  <2>1. /\ a \in Nat /\ a < 4 /\ b \in Nat /\ b < 4
        /\ c \in Nat /\ c < 4 /\ d \in Nat /\ d < 4
    BY <1>1, Xor2Type
  <2>2. 4 * a + b = 4 * c + d
    BY <1>2, <1>4
  <2>3. a = c /\ b = d
    <3> HIDE DEF a, b, c, d
    <3> QED BY <2>1, <2>2
  <2> QED BY <1>1, <2>3, Xor2Cancel
<1> QED BY <1>3, <1>4

\* Exclusive or with the same word of 8 bits takes different words to different words.
LEMMA Xor8Cancel ==
  ASSUME NEW x \in Bytes, NEW y \in Bytes, NEW z \in Bytes,
         Xor8(x, z) = Xor8(y, z) \/ Xor8(z, x) = Xor8(z, y)
  PROVE  x = y
<1> DEFINE xh == x \div 16  xl == x % 16
           yh == y \div 16  yl == y % 16
           zh == z \div 16  zl == z % 16
<1>1. /\ xh \in Nat /\ xh < 16 /\ xl \in Nat /\ xl < 16 /\ x = 16 * xh + xl
      /\ yh \in Nat /\ yh < 16 /\ yl \in Nat /\ yl < 16 /\ y = 16 * yh + yl
      /\ zh \in Nat /\ zh < 16 /\ zl \in Nat /\ zl < 16
  BY Widths
<1>2. /\ Xor8(x, z) = 16 * Xor4(xh, zh) + Xor4(xl, zl)
      /\ Xor8(y, z) = 16 * Xor4(yh, zh) + Xor4(yl, zl)
      /\ Xor8(z, x) = 16 * Xor4(zh, xh) + Xor4(zl, xl)
      /\ Xor8(z, y) = 16 * Xor4(zh, yh) + Xor4(zl, yl)
  BY DEF Xor8
<1> HIDE DEF xh, xl, yh, yl, zh, zl
<1>3. CASE Xor8(x, z) = Xor8(y, z)
  <2> DEFINE a == Xor4(xh, zh)  b == Xor4(xl, zl)
             c == Xor4(yh, zh)  d == Xor4(yl, zl)
  <2>1. /\ a \in Nat /\ a < 16 /\ b \in Nat /\ b < 16
        /\ c \in Nat /\ c < 16 /\ d \in Nat /\ d < 16
    BY <1>1, Xor4Type
  <2>2. 16 * a + b = 16 * c + d
    BY <1>2, <1>3
  <2>3. a = c /\ b = d
    <3> HIDE DEF a, b, c, d
    <3> QED BY <2>1, <2>2
  <2> QED BY <1>1, <2>3, Xor4Cancel
<1>4. CASE Xor8(z, x) = Xor8(z, y)
  <2> DEFINE a == Xor4(zh, xh)  b == Xor4(zl, xl)
             c == Xor4(zh, yh)  d == Xor4(zl, yl)
  <2>1. /\ a \in Nat /\ a < 16 /\ b \in Nat /\ b < 16
        /\ c \in Nat /\ c < 16 /\ d \in Nat /\ d < 16
    BY <1>1, Xor4Type
  <2>2. 16 * a + b = 16 * c + d
    BY <1>2, <1>4
  <2>3. a = c /\ b = d
    <3> HIDE DEF a, b, c, d
    <3> QED BY <2>1, <2>2
  <2> QED BY <1>1, <2>3, Xor4Cancel
<1> QED BY <1>3, <1>4

\* Exclusive or with the same word of 16 bits takes different words to different words.
LEMMA Xor16Cancel ==
  ASSUME NEW x \in Words, NEW y \in Words, NEW z \in Words,
         Xor16(x, z) = Xor16(y, z) \/ Xor16(z, x) = Xor16(z, y)
  PROVE  x = y
<1> DEFINE xh == x \div 256  xl == x % 256
           yh == y \div 256  yl == y % 256
           zh == z \div 256  zl == z % 256
<1>1. /\ xh \in Bytes /\ xl \in Bytes /\ x = 256 * xh + xl
      /\ yh \in Bytes /\ yl \in Bytes /\ y = 256 * yh + yl
      /\ zh \in Bytes /\ zl \in Bytes
  BY Widths
<1>2. /\ Xor16(x, z) = 256 * Xor8(xh, zh) + Xor8(xl, zl)
      /\ Xor16(y, z) = 256 * Xor8(yh, zh) + Xor8(yl, zl)
      /\ Xor16(z, x) = 256 * Xor8(zh, xh) + Xor8(zl, xl)
      /\ Xor16(z, y) = 256 * Xor8(zh, yh) + Xor8(zl, yl)
  BY DEF Xor16
<1> HIDE DEF xh, xl, yh, yl, zh, zl
<1>3. CASE Xor16(x, z) = Xor16(y, z)
  <2> DEFINE a == Xor8(xh, zh)  b == Xor8(xl, zl)
             c == Xor8(yh, zh)  d == Xor8(yl, zl)
  <2>1. /\ a \in Bytes /\ b \in Bytes
        /\ c \in Bytes /\ d \in Bytes
    BY <1>1, Xor8Type
  <2>2. 256 * a + b = 256 * c + d
    BY <1>2, <1>3
  <2>3. a = c /\ b = d
    <3> HIDE DEF a, b, c, d
    <3>1. /\ a \in Nat /\ b \in Nat /\ b < 256
          /\ c \in Nat /\ d \in Nat /\ d < 256
      BY <2>1, Widths
    <3> QED BY <2>2, <3>1, SMT
  <2> QED BY <1>1, <2>3, Xor8Cancel
<1>4. CASE Xor16(z, x) = Xor16(z, y)
  <2> DEFINE a == Xor8(zh, xh)  b == Xor8(zl, xl)
             c == Xor8(zh, yh)  d == Xor8(zl, yl)
  <2>1. /\ a \in Bytes /\ b \in Bytes
        /\ c \in Bytes /\ d \in Bytes
    BY <1>1, Xor8Type
  <2>2. 256 * a + b = 256 * c + d
    BY <1>2, <1>4
  <2>3. a = c /\ b = d
    <3> HIDE DEF a, b, c, d
    <3>1. /\ a \in Nat /\ b \in Nat /\ b < 256
          /\ c \in Nat /\ d \in Nat /\ d < 256
      BY <2>1, Widths
    <3> QED BY <2>2, <3>1, SMT
  <2> QED BY <1>1, <2>3, Xor8Cancel
<1> QED BY <1>3, <1>4

\* Exclusive or of 2 bits keeps the parity.
LEMMA Xor2Parity ==
  ASSUME NEW x \in Nat, NEW y \in Nat, x < 4, y < 4
  PROVE  Xor2(x, y) % 2 = (x + y) % 2
BY DEF Xor2, Xor1

\* Exclusive or of 4 bits keeps the parity.
LEMMA Xor4Parity ==
  ASSUME NEW x \in Nat, NEW y \in Nat, x < 16, y < 16
  PROVE  Xor4(x, y) % 2 = (x + y) % 2
<1> DEFINE xh == x \div 4  xl == x % 4
           yh == y \div 4  yl == y % 4
           a == Xor2(xh, yh)  b == Xor2(xl, yl)
<1>1. /\ xh \in Nat /\ xh < 4 /\ xl \in Nat /\ xl < 4 /\ x = 4 * xh + xl
      /\ yh \in Nat /\ yh < 4 /\ yl \in Nat /\ yl < 4 /\ y = 4 * yh + yl
  OBVIOUS
<1>2. Xor4(x, y) = 4 * a + b
  BY DEF Xor4
<1> HIDE DEF xh, xl, yh, yl
<1>3. a \in Nat /\ a < 4 /\ b \in Nat /\ b < 4 /\ b % 2 = (xl + yl) % 2
  BY <1>1, Xor2Type, Xor2Parity
<1> HIDE DEF a, b
<1> QED BY <1>1, <1>2, <1>3

\* Exclusive or of 8 bits keeps the parity.
LEMMA Xor8Parity ==
  ASSUME NEW x \in Bytes, NEW y \in Bytes
  PROVE  Xor8(x, y) % 2 = (x + y) % 2
<1> DEFINE xh == x \div 16  xl == x % 16
           yh == y \div 16  yl == y % 16
           a == Xor4(xh, yh)  b == Xor4(xl, yl)
<1>1. /\ xh \in Nat /\ xh < 16 /\ xl \in Nat /\ xl < 16 /\ x = 16 * xh + xl
      /\ yh \in Nat /\ yh < 16 /\ yl \in Nat /\ yl < 16 /\ y = 16 * yh + yl
  BY Widths
<1>2. Xor8(x, y) = 16 * a + b
  BY DEF Xor8
<1> HIDE DEF xh, xl, yh, yl
<1>3. a \in Nat /\ a < 16 /\ b \in Nat /\ b < 16 /\ b % 2 = (xl + yl) % 2
  BY <1>1, Xor4Type, Xor4Parity
<1> HIDE DEF a, b
<1> QED BY <1>1, <1>2, <1>3

\* Exclusive or of 16 bits keeps the parity.
LEMMA Xor16Parity ==
  ASSUME NEW x \in Words, NEW y \in Words
  PROVE  Xor16(x, y) % 2 = (x + y) % 2
<1> DEFINE xh == x \div 256  xl == x % 256
           yh == y \div 256  yl == y % 256
           a == Xor8(xh, yh)  b == Xor8(xl, yl)
<1>1. /\ xh \in Bytes /\ xl \in Bytes /\ x = 256 * xh + xl
      /\ yh \in Bytes /\ yl \in Bytes /\ y = 256 * yh + yl
  BY Widths
<1>2. Xor16(x, y) = 256 * a + b
  BY DEF Xor16
<1> HIDE DEF xh, xl, yh, yl
<1>3. a \in Bytes /\ b \in Bytes /\ b % 2 = (xl + yl) % 2
  BY <1>1, Xor8Type, Xor8Parity
<1> HIDE DEF a, b
<1> QED BY <1>1, <1>2, <1>3, Widths

\* One shift takes different registers to different registers: the polynomial is odd,
\* so that a result tells by its parity whether the polynomial went into it.
LEMMA ShiftInjective ==
  ASSUME NEW c \in Words, NEW d \in Words, Shift(c) = Shift(d)
  PROVE  c = d
<1> DEFINE H == 32768
           M == 65536
           poly == 4129
           c2 == (2 * c) % M
           d2 == (2 * d) % M
<1>1. /\ c \in Nat /\ c < M /\ d \in Nat /\ d < M
      /\ H \in Nat /\ poly \in Words /\ poly % 2 = 1 /\ M = 2 * H
  BY Widths, SMT
<1>2. /\ c2 \in Words /\ d2 \in Words
      /\ c >= H => c2 = 2 * c - M
      /\ d >= H => d2 = 2 * d - M
  BY <1>1, Widths, SMT
<1>3. /\ c >= H => Shift(c) = Xor16(c2, poly)
      /\ d >= H => Shift(d) = Xor16(d2, poly)
      /\ ~(c >= H) => Shift(c) = 2 * c
      /\ ~(d >= H) => Shift(d) = 2 * d
  BY SMT DEF Shift
<1> HIDE DEF c2, d2, H, M, poly
<1>4. ASSUME NEW x \in Words, NEW y \in Nat, NEW z \in Nat, x = 2 * z, Xor16(x, poly) = 2 * y
      PROVE  FALSE
  <2>1. (x + poly) % 2 = (2 * y) % 2
    BY <1>1, <1>4, Xor16Parity
  <2>2. x \in Nat /\ poly \in Nat
    BY <1>1, Widths
  <2> QED BY <1>1, <1>4, <2>1, <2>2
<1>5. CASE c >= H /\ d >= H
  <2>1. c2 = d2
    BY <1>1, <1>2, <1>3, <1>5, Xor16Cancel
  <2> QED BY <1>1, <1>2, <1>5, <2>1
<1>6. CASE ~(c >= H) /\ ~(d >= H)
  BY <1>1, <1>3, <1>6
<1>7. ASSUME c >= H, ~(d >= H) PROVE FALSE
  <2>1. Xor16(c2, poly) = 2 * d /\ c2 = 2 * (c - H) /\ c - H \in Nat
    BY <1>1, <1>2, <1>3, <1>7
  <2> QED BY <1>1, <1>2, <1>4, <2>1
<1>8. ASSUME d >= H, ~(c >= H) PROVE FALSE
  <2>1. Xor16(d2, poly) = 2 * c /\ d2 = 2 * (d - H) /\ d - H \in Nat
    BY <1>1, <1>2, <1>3, <1>8
  <2> QED BY <1>1, <1>2, <1>4, <2>1
<1> QED BY <1>5, <1>6, <1>7, <1>8

\* guard_crc16 on one byte more: different registers stay different under the same
\* byte, and different bytes make the same register different.
LEMMA CrcInjective ==
  ASSUME NEW c \in Words, NEW d \in Words, NEW a \in Bytes, NEW b \in Bytes,
         CrcUpdate(c, a) = CrcUpdate(d, b)
  PROVE  (a = b => c = d) /\ (c = d => a = b)
<1> DEFINE a2 == 256 * a
           b2 == 256 * b
<1>1. a2 \in Words /\ b2 \in Words /\ (a2 = b2 => a = b)
  BY Widths
<1>2. ASSUME NEW x \in Words, NEW y \in Words, Shift4(x) = Shift4(y) PROVE x = y
  BY <1>2, ShiftType, ShiftInjective DEF Shift2, Shift4
<1>3. ASSUME NEW x \in Words PROVE Shift4(x) \in Words
  BY ShiftType DEF Shift2, Shift4
<1>4. /\ CrcUpdate(c, a) = Shift4(Shift4(Xor16(c, a2)))
      /\ CrcUpdate(d, b) = Shift4(Shift4(Xor16(d, b2)))
  BY DEF CrcUpdate
<1> HIDE DEF a2, b2
<1>5. Xor16(c, a2) \in Words /\ Xor16(d, b2) \in Words
  BY <1>1, Xor16Type
<1>6. Xor16(c, a2) = Xor16(d, b2)
  BY <1>2, <1>3, <1>4, <1>5
<1>7. a = b => c = d
  <2>1. ASSUME a = b PROVE Xor16(c, a2) = Xor16(d, a2)
    BY <1>6, <2>1 DEF a2, b2
  <2> QED BY <1>1, <2>1, Xor16Cancel
<1>8. c = d => a = b
  <2>1. ASSUME c = d PROVE a2 = b2
    BY <1>1, <1>6, <2>1, Xor16Cancel
  <2> QED BY <1>1, <2>1
<1> QED BY <1>7, <1>8

\* Two runs of bytes that differ in one byte only: the registers agree up to it and
\* differ from it on.
LEMMA RegistersDiffer ==
  ASSUME NEW s \in Seq(Bytes), NEW t \in Seq(Bytes), Len(t) = Len(s), NEW k \in 1 .. Len(s),
         s[k] # t[k], \A i \in 1 .. Len(s) : i # k => s[i] = t[i],
         NEW n \in 0 .. Len(s)
  PROVE  (n < k => CrcSteps(s)[n] = CrcSteps(t)[n]) /\ (n >= k => CrcSteps(s)[n] # CrcSteps(t)[n])
<1> DEFINE x == CrcSteps(s)
           y == CrcSteps(t)
           N == Len(s)
           Wrong(j) == ~((j < k => x[j] = y[j]) /\ (j >= k => x[j] # y[j]))
           B == {j \in 0 .. N : Wrong(j)}
<1>1. N \in Nat
  BY LenProperties
<1>2. /\ x[0] = 0 /\ y[0] = 0
      /\ \A j \in 1 .. N : /\ x[j] = CrcUpdate(x[j - 1], s[j])
                            /\ y[j] = CrcUpdate(y[j - 1], t[j])
                            /\ x[j - 1] \in Words /\ y[j - 1] \in Words
                            /\ s[j] \in Bytes /\ t[j] \in Bytes
  <2>1. \A j \in 1 .. N : j - 1 \in 0 .. N
    BY <1>1
  <2> QED BY <2>1, CrcLoop, RegisterType, ElementOfSeq
<1> SUFFICES ASSUME B # {} PROVE FALSE
  OBVIOUS
<1> HIDE DEF x, y, N
<1>3. PICK j \in B : \A m \in B : j <= m
  <2>1. B \in SUBSET Nat
    BY <1>1
  <2> HIDE DEF B
  <2> QED BY <2>1, LeastNat
<1>4. j \in 0 .. N /\ Wrong(j)
  OBVIOUS
<1>5. j # 0
  BY <1>2, <1>4 DEF N
<1>6. j \in 1 .. N /\ j - 1 \in 0 .. N /\ ~(j <= j - 1)
  BY <1>1, <1>4, <1>5
<1>7. ~Wrong(j - 1)
  BY <1>3, <1>6
<1>8. k \in 1 .. N /\ j \in Nat
  BY <1>4 DEF N
<1>9. CASE j < k
  <2>1. x[j - 1] = y[j - 1] /\ s[j] = t[j]
    BY <1>6, <1>7, <1>8, <1>9 DEF N
  <2> QED BY <1>2, <1>4, <1>6, <1>8, <1>9, <2>1
<1>10. CASE j = k
  <2>1. x[j - 1] = y[j - 1] /\ s[j] # t[j]
    BY <1>6, <1>7, <1>8, <1>10
  <2>2. x[j] = y[j]
    BY <1>4, <1>8, <1>10
  <2>3. CrcUpdate(x[j - 1], s[j]) = CrcUpdate(y[j - 1], t[j])
    BY <1>2, <1>6, <2>2
  <2> QED BY <1>2, <1>6, <2>1, <2>3, CrcInjective
<1>11. CASE j > k
  <2>1. x[j - 1] # y[j - 1] /\ s[j] = t[j]
    BY <1>6, <1>7, <1>8, <1>11 DEF N
  <2>2. x[j] = y[j]
    BY <1>4, <1>8, <1>11
  <2>3. CrcUpdate(x[j - 1], s[j]) = CrcUpdate(y[j - 1], t[j])
    BY <1>2, <1>6, <2>2
  <2> QED BY <1>2, <1>6, <2>1, <2>3, CrcInjective
<1> QED BY <1>8, <1>9, <1>10, <1>11

\* guard_crc16 tells apart any two strings of bytes, of whatever equal length, that
\* differ in a single byte, however the byte was changed.
THEOREM CrcSeesOneByte ==
  ASSUME NEW s \in Seq(Bytes), NEW t \in Seq(Bytes), Len(t) = Len(s), NEW k \in 1 .. Len(s),
         s[k] # t[k], \A i \in 1 .. Len(s) : i # k => s[i] = t[i]
  PROVE  Crc(s) # Crc(t)
<1>1. Len(s) \in 0 .. Len(s) /\ Len(s) >= k
  BY LenProperties
<1> QED BY <1>1, RegistersDiffer DEF Crc

-----------------------------------------------------------------------------
(* The parser and the lists of bytes.                                         *)

\* Every case of guard_frame_rx_feed keeps the parser a parser, and a field that
\* has got its low byte only is a byte.
LEMMA FeedType ==
  ASSUME NEW st \in ParserStates, NEW r \in Parsers, NEW b \in Bytes,
         r.state = "LEN1" \/ st = "LEN1" => r.len \in Bytes,
         r.state = "CRC1" \/ st = "CRC1" => r.crcRx \in Bytes
  PROVE  /\ FeedByte(st, r, b) \in Parsers
         /\ FeedByte(st, r, b).state = "LEN1" => FeedByte(st, r, b).len \in Bytes
         /\ FeedByte(st, r, b).state = "CRC1" => FeedByte(st, r, b).crcRx \in Bytes
<1>1. /\ r.crc \in Words /\ r.len \in Words /\ r.crcRx \in Words /\ r.type \in Bytes
      /\ r.payload \in Seq(Bytes) /\ r.state \in ParserStates
  BY DEF Parsers
<1>2. CrcUpdate(r.crc, b) \in Words /\ CrcUpdate(0, b) \in Words
  <2>1. 0 \in Words
    BY Widths
  <2> QED BY <1>1, <2>1, CrcType
<1>3. b \in Words
  BY Widths
<1>4. ASSUME NEW n \in Bytes PROVE n + 256 * b \in Words
  BY Widths
<1>5. Append(r.payload, b) \in Seq(Bytes) /\ <<>> \in Seq(Bytes)
  BY <1>1, AppendProperties, EmptySeq
<1> HIDE DEF Words, Bytes
<1>6. CASE st = "SYNC0"
  BY <1>1, <1>6 DEF FeedByte, Sync0, Parsers, ParserStates
<1>7. CASE st = "SYNC1"
  BY <1>1, <1>7 DEF FeedByte, Sync1, Parsers, ParserStates
<1>8. CASE st = "VER"
  BY <1>1, <1>8 DEF FeedByte, Ver, Parsers, ParserStates
<1>9. CASE st = "TYPE"
  BY <1>1, <1>9 DEF FeedByte, Type, Parsers, ParserStates
<1>10. CASE st = "LEN0"
  BY <1>1, <1>2, <1>3, <1>10 DEF FeedByte, Len0, Parsers, ParserStates
<1>11. CASE st = "LEN1"
  <2>1. r.len + 256 * b \in Words
    BY <1>4, <1>11
  <2> DEFINE l == r.len + 256 * b
             next == [r EXCEPT !.len = l, !.crc = CrcUpdate(@, b)]
  <2>2. next \in Parsers
    BY <1>1, <1>2, <2>1 DEF Parsers
  <2>3. FeedByte(st, r, b) = IF l > MaxPayload
                             THEN [next EXCEPT !.state = "SYNC0"]
                             ELSE [next EXCEPT !.payload = <<>>, !.state = "DATA"]
    BY <1>11 DEF FeedByte, Len1
  <2> HIDE DEF next, l
  <2> QED BY <1>5, <2>2, <2>3 DEF Parsers, ParserStates
<1>12. CASE st = "DATA"
  BY <1>1, <1>2, <1>5, <1>12 DEF FeedByte, Data, Parsers, ParserStates
<1>13. CASE st = "CRC0"
  BY <1>1, <1>3, <1>13 DEF FeedByte, Crc0, Parsers, ParserStates
<1>14. CASE st = "CRC1"
  <2>1. r.crcRx + 256 * b \in Words
    BY <1>4, <1>14
  <2> QED BY <1>1, <1>14, <2>1 DEF FeedByte, Crc1, Parsers, ParserStates
<1> QED BY <1>6, <1>7, <1>8, <1>9, <1>10, <1>11, <1>12, <1>13, <1>14 DEF ParserStates

\* The parser after guard_frame_rx_init.
LEMMA ClearedType ==
  /\ Cleared \in Parsers /\ Cleared.state = "SYNC0"
  /\ Cleared.len = 0 /\ Len(Cleared.payload) <= MaxPayload
<1>1. 0 \in Bytes /\ 0 \in Words
  BY Widths
<1>2. <<>> \in Seq(Bytes)
  BY EmptySeq
<1>3. Len(Cleared.payload) = 0 /\ MaxPayload \in Nat
  BY MaxPayloadAssumption DEF Cleared, MaxWord
<1> QED BY <1>1, <1>2, <1>3 DEF Cleared, Parsers, ParserStates

\* The bytes a host's frame puts on the line.
LEMMA WireType ==
  ASSUME NEW f \in Frames, NEW n \in 1 .. MaxSent
  PROVE  [i \in DOMAIN Packed[f] |-> [val |-> Packed[f][i], of |-> n, pos |-> i]]
           \in Seq(LineBytes)
<1> DEFINE p == Packed[f]
           w == [i \in DOMAIN p |-> [val |-> p[i], of |-> n, pos |-> i]]
<1>1. p \in Seq(Bytes)
  BY PackedType
<1>2. Len(p) \in Nat /\ DOMAIN p = 1 .. Len(p) /\ p \in [1 .. Len(p) -> Bytes]
  BY <1>1, LenProperties
<1> HIDE DEF p
<1>3. n \in 0 .. MaxSent
  BY BoundsAssumption
<1>4. ASSUME NEW i \in DOMAIN p
      PROVE  [val |-> p[i], of |-> n, pos |-> i] \in LineBytes
  <2>1. p[i] \in Bytes /\ i \in Nat
    BY <1>2
  <2> QED BY <1>3, <2>1 DEF LineBytes
<1>5. w \in [1 .. Len(p) -> LineBytes]
  BY <1>2, <1>4
<1>6. w \in Seq(LineBytes)
  BY <1>2, <1>5, SeqDef
<1> QED BY <1>6 DEF p

\* Part of a list, and how long it is.
LEMMA SubSeqType ==
  ASSUME NEW S, NEW s, NEW m \in Int, NEW n \in Int, \A i \in m .. n : s[i] \in S
  PROVE  SubSeq(s, m, n) \in Seq(S) /\ Len(SubSeq(s, m, n)) = IF m <= n THEN n - m + 1 ELSE 0
  BY SMT

\* Part of a list of bytes is a list of bytes.
LEMMA CutType ==
  ASSUME NEW S, NEW s \in Seq(S), NEW n \in 1 .. Len(s)
  PROVE  /\ SubSeq(s, 1, n) \in Seq(S) /\ SubSeq(s, 1, n) # <<>>
         /\ SubSeq(s, n + 1, Len(s)) \in Seq(S)
<1>1. Len(s) \in Nat /\ n \in Nat /\ n >= 1 /\ n <= Len(s)
  BY LenProperties
<1>2. \A i \in 1 .. Len(s) : s[i] \in S
  BY ElementOfSeq
<1>3. SubSeq(s, 1, n) \in Seq(S) /\ Len(SubSeq(s, 1, n)) = n
  <2>1. \A i \in 1 .. n : s[i] \in S
    BY <1>1, <1>2
  <2>2. 1 \in Int /\ n \in Int /\ 1 <= n /\ n - 1 + 1 = n
    BY <1>1
  <2> QED BY <2>1, <2>2, SubSeqType
<1>4. SubSeq(s, n + 1, Len(s)) \in Seq(S)
  <2>1. \A i \in n + 1 .. Len(s) : s[i] \in S
    BY <1>1, <1>2
  <2>2. n + 1 \in Int /\ Len(s) \in Int
    BY <1>1
  <2> QED BY <2>1, <2>2, SubSeqType
<1>5. Len(<<>>) = 0
  BY EmptySeq
<1> QED BY <1>1, <1>3, <1>4, <1>5

\* What the loop of guard_uart_feed goes on with.
LEMMA NextByteType ==
  ASSUME NEW u, u.chunk \in Seq(LineBytes), u.chunk # <<>>
  PROVE  /\ NextByte(u) \in Uarts
         /\ NextByte(u).pc \in {"fetch", "stampByte"} /\ NextByte(u).now = 0
         /\ NextByte(u).pc = "fetch" => NextByte(u).chunk # <<>>
<1>1. Tail(u.chunk) \in Seq(LineBytes) /\ Len(Tail(u.chunk)) = Len(u.chunk) - 1
  BY HeadTailProperties
<1>2. Len(u.chunk) # 1 => Tail(u.chunk) # <<>>
  <2>1. Len(u.chunk) \in Nat
    BY LenProperties
  <2>2. Len(u.chunk) # 1 => Len(Tail(u.chunk)) # 0
    BY <1>1, <2>1
  <2>3. Len(<<>>) = 0
    OBVIOUS
  <2> QED BY <2>2, <2>3
<1>3. 0 \in Bytes /\ 0 \in Nat /\ 0 \in Times
  BY Widths, BoundsAssumption DEF Times
<1> DEFINE pc == IF Len(u.chunk) = 1 THEN "stampByte" ELSE "fetch"
           tail == Tail(u.chunk)
<1>4. /\ pc \in {"fetch", "stampByte"}
      /\ pc = "fetch" => tail # <<>>
  BY <1>2
<1>5. NextByte(u) = [IdleUart EXCEPT !.chunk = tail, !.pc = pc]
  BY DEF NextByte
<1> HIDE DEF pc, tail
<1>6. NextByte(u) = [pc |-> pc, chunk |-> tail, st |-> "SYNC0", type |-> 0, len |-> 0,
                     now |-> 0]
  BY <1>5 DEF IdleUart
<1>7. tail \in Seq(LineBytes)
  BY <1>1 DEF tail
<1> QED BY <1>3, <1>4, <1>6, <1>7 DEF Uarts, UartLabels, ParserStates

-----------------------------------------------------------------------------
(* Types, places and low bytes.                                               *)

\* What every step starts from.
LEMMA Parts ==
  ASSUME TypeInv
  PROVE  /\ uart.pc \in UartLabels /\ uart.chunk \in Seq(LineBytes)
         /\ uart.st \in ParserStates /\ uart.type \in Bytes /\ uart.len \in Nat
         /\ uart.now \in Times
         /\ guard.pc \in GuardLabels /\ guard.now \in Times
         /\ rx.state \in ParserStates /\ rx.type \in Bytes /\ rx.len \in Words
         /\ rx.payload \in Seq(Bytes) /\ Len(rx.payload) <= MaxPayload
         /\ ghost.run \in Nat \X Nat /\ ghost.disturbed \in BOOLEAN
         /\ ghost.acceptedAt \in Times /\ ghost.before \in Times
         /\ ghost.reported \in BOOLEAN /\ ghost.torn \in BOOLEAN /\ ghost.crossed \in BOOLEAN
         /\ clock \in Times /\ lastByte \in Times /\ lastFrame \in Times
         /\ fired \in BOOLEAN
  BY DEF TypeInv, TypeOK, Uarts, Guards, Parsers, Ghosts

\* What both tasks start from, and the time there is.
LEMMA IdleType ==
  /\ 0 \in Times /\ IdleUart \in Uarts /\ IdleGuard \in Guards
  /\ \A t \in Times : Fresh(t) \in Ghosts
  /\ <<0, 0>> \in Nat \X Nat
<1>1. 0 \in Times
  BY BoundsAssumption DEF Times
<1>2. 0 \in Bytes
  BY Widths
<1>3. <<>> \in Seq(LineBytes)
  BY EmptySeq
<1>4. IdleUart \in Uarts
  BY <1>1, <1>2, <1>3 DEF IdleUart, Uarts, UartLabels, ParserStates
<1>5. IdleGuard \in Guards
  BY <1>1 DEF IdleGuard, Guards, GuardLabels
<1>6. <<0, 0>> \in Nat \X Nat
  OBVIOUS
<1>7. ASSUME NEW t \in Times PROVE Fresh(t) \in Ghosts
  BY <1>6 DEF Fresh, Ghosts
<1> QED BY <1>1, <1>4, <1>5, <1>6, <1>7

\* The device as it starts satisfies the types and the places of the labels.
LEMMA TypeInit == Init => TypeInv
<1> SUFFICES ASSUME Init PROVE TypeInv
  OBVIOUS
<1>1. TypeOK
  <2>1. sent \in Seq(Frames) /\ Len(sent) <= MaxSent /\ faults \in 0 .. MaxFaults
    <3>1. sent = <<>> /\ faults = 0
      BY DEF Init
    <3>2. <<>> \in Seq(Frames) /\ Len(<<>>) = 0
      BY EmptySeq
    <3> QED BY <3>1, <3>2, BoundsAssumption
  <2>2. queue \in Seq(Items) /\ Len(queue) <= QueueLen
    <3>1. queue = <<>>
      BY DEF Init
    <3>2. <<>> \in Seq(Items) /\ Len(<<>>) = 0
      BY EmptySeq
    <3> QED BY <3>1, <3>2, BoundsAssumption
  <2>3. line \in Seq(LineBytes)
    BY EmptySeq DEF Init
  <2> QED BY <2>1, <2>2, <2>3, IdleType, ClearedType DEF Init, TypeOK
<1>2. Places
  BY DEF Init, Places, Feeding, IdleUart
<1>3. LowBytes
  BY ClearedType DEF Init, LowBytes, IdleUart
<1> QED BY <1>1, <1>2, <1>3 DEF TypeInv

\* The time passes, and bytes come, go and are lost on the line.
LEMMA EnvironmentTypes ==
  ASSUME TypeInv, Environment
  PROVE  TypeInv'
<1>1. CASE PassTime
  <2>1. clock' \in Times
    BY <1>1, Parts, BoundsAssumption DEF PassTime, Times
  <2> QED BY <1>1, <2>1
          DEF PassTime, device, TypeInv, TypeOK, Places, LowBytes, Feeding
<1>2. ASSUME NEW f \in Frames, Send(f)
      PROVE  TypeInv'
  <2>1. sent' \in Seq(Frames) /\ Len(sent') = Len(sent) + 1 /\ Len(sent) \in Nat
    <3>1. sent \in Seq(Frames)
      BY DEF TypeInv, TypeOK
    <3> QED BY <1>2, <3>1, AppendProperties, LenProperties DEF Send
  <2>2. Len(sent') \in 1 .. MaxSent
    BY <1>2, <2>1, BoundsAssumption DEF Send
  <2>3. line' \in Seq(LineBytes)
    <3> DEFINE wire == [i \in DOMAIN Packed[f] |->
                          [val |-> Packed[f][i], of |-> Len(sent'), pos |-> i]]
    <3>1. wire \in Seq(LineBytes)
      BY <2>2, WireType
    <3>2. line' = IF boot = "off" THEN line ELSE line \o wire
      BY <1>2 DEF Send
    <3>3. line \in Seq(LineBytes)
      BY DEF TypeInv, TypeOK
    <3> HIDE DEF wire
    <3> QED BY <3>1, <3>2, <3>3, ConcatProperties
  <2>4. UNCHANGED <<clock, device, faults, ghost>> /\ (boot = "off" => line' = line)
    BY <1>2 DEF Send
  <2>5. Len(sent') <= MaxSent
    BY <2>2
  <2> QED BY <2>1, <2>3, <2>4, <2>5
          DEF device, TypeInv, TypeOK, Places, LowBytes, Feeding
<1>3. CASE LoseByte
  <2>1. line' \in Seq(LineBytes) /\ line # <<>>
    BY <1>3, HeadTailProperties DEF LoseByte, TypeInv, TypeOK
  <2>2. faults' \in 0 .. MaxFaults
    BY <1>3, BoundsAssumption DEF LoseByte, TypeInv, TypeOK
  <2> QED BY <1>3, <2>1, <2>2
          DEF LoseByte, device, TypeInv, TypeOK, Places, LowBytes, Feeding
<1>4. ASSUME NEW b \in Noise, InsertByte(b)
      PROVE  TypeInv'
  <2>1. line' \in Seq(LineBytes)
    <3>1. [val |-> b, of |-> 0, pos |-> 0] \in LineBytes
      BY NoiseAssumption, BoundsAssumption DEF LineBytes
    <3>2. line \in Seq(LineBytes)
      BY DEF TypeInv, TypeOK
    <3>3. line' = <<[val |-> b, of |-> 0, pos |-> 0]>> \o line
      BY <1>4 DEF InsertByte
    <3> QED BY <3>1, <3>2, <3>3
  <2>2. faults' \in 0 .. MaxFaults
    BY <1>4, BoundsAssumption DEF InsertByte, TypeInv, TypeOK
  <2> QED BY <1>4, <2>1, <2>2
          DEF InsertByte, device, TypeInv, TypeOK, Places, LowBytes, Feeding
<1> QED BY <1>1, <1>2, <1>3, <1>4 DEF Environment

\* The main task brings the driver and the guard task up.
LEMMA MainTypes ==
  ASSUME TypeInv, MainTask
  PROVE  TypeInv'
<1>1. CASE UartInit
  <2>1. ghost' \in Ghosts
    BY <1>1, IdleType, Parts DEF UartInit
  <2>2. boot' # "off" /\ boot' \in {"off", "uart", "running"} /\ fired' \in BOOLEAN
    BY <1>1 DEF UartInit
  <2> QED BY <1>1, <2>1, <2>2, ClearedType, Parts
          DEF UartInit, TypeInv, TypeOK, Places, LowBytes, Feeding, IdleUart
<1>2. CASE GuardStart
  BY <1>2 DEF GuardStart, shared, TypeInv, TypeOK, Places, LowBytes, Feeding
<1> QED BY <1>1, <1>2 DEF MainTask

\* The guard task only clears the parser, sets the flag and takes from the queue.
LEMMA GuardTypes ==
  ASSUME TypeInv, GuardTask
  PROVE  TypeInv'
<1>1. CASE Tick
  <2>1. queue' \in Seq(Items) /\ Len(queue') <= QueueLen
    <3>1. queue \in Seq(Items) /\ Len(queue) <= QueueLen
      BY DEF TypeInv, TypeOK
    <3>2. queue' = IF queue = <<>> THEN queue ELSE Tail(queue)
      BY <1>1 DEF Tick
    <3>3. Len(queue) \in Nat
      BY <3>1, LenProperties
    <3>4. queue # <<>> => /\ Tail(queue) \in Seq(Items)
                          /\ Len(Tail(queue)) = Len(queue) - 1
      BY <3>1, HeadTailProperties
    <3> QED BY <3>1, <3>2, <3>3, <3>4, BoundsAssumption
  <2>2. guard' \in Guards
    BY <1>1, Parts DEF Tick, Guards, GuardLabels
  <2>3. ghost' \in Ghosts
    <3> DEFINE crossed == uart.pc \in {"stamp", "rearm"}
    <3>1. crossed \in BOOLEAN
      OBVIOUS
    <3>2. ghost' = [ghost EXCEPT !.torn = FALSE, !.crossed = crossed,
                                 !.before = IF crossed THEN @ ELSE 0]
      BY <1>1 DEF Tick
    <3>3. ghost \in Ghosts
      BY DEF TypeInv, TypeOK
    <3> HIDE DEF crossed
    <3> QED BY <3>1, <3>2, <3>3, IdleType DEF Ghosts
  <2>4. boot = "running" /\ boot' = boot
    BY <1>1 DEF Tick, guardOnly
  <2> QED BY <1>1, <2>1, <2>2, <2>3, <2>4
          DEF Tick, guardOnly, TypeInv, TypeOK, Places, LowBytes, Feeding
<1>2. ASSUME CheckGap \/ ResetGap \/ CheckLoss \/ Fire \/ Report
      PROVE  TypeInv'
  <2>1. guard' \in Guards
    <3>1. PICK label \in GuardLabels : GoTo(label)
      BY <1>2 DEF CheckGap, ResetGap, CheckLoss, Fire, Report, GuardLabels
    <3>2. guard \in Guards
      BY DEF TypeInv, TypeOK
    <3> QED BY <3>1, <3>2 DEF GoTo, Guards
  <2>2. ghost' \in Ghosts
    <3>1. ghost \in Ghosts
      BY DEF TypeInv, TypeOK
    <3>2. ASSUME NEW P \in BOOLEAN, ghost' = [ghost EXCEPT !.torn = P]
          PROVE  ghost' \in Ghosts
      BY <3>1, <3>2 DEF Ghosts
    <3>3. CASE CheckGap
      BY <3>2, <3>3 DEF CheckGap
    <3>4. CASE CheckLoss
      BY <3>2, <3>4 DEF CheckLoss
    <3>5. CASE ClearParser
      <4> DEFINE d == ghost.disturbed \/ uart.pc # "wait"
                 r == ghost.reported \/ guard.pc = "report"
      <4>1. d \in BOOLEAN /\ r \in BOOLEAN
        OBVIOUS
      <4>2. ghost' = [ghost EXCEPT !.run = <<0, 0>>, !.disturbed = d, !.reported = r]
        BY <3>5 DEF ClearParser
      <4> HIDE DEF d, r
      <4> QED BY <3>1, <4>1, <4>2, IdleType DEF Ghosts
    <3> QED BY <1>2, <3>1, <3>3, <3>4, <3>5 DEF ResetGap, Fire, Report
  <2>3. /\ rx' \in Parsers /\ Len(rx'.payload) <= MaxPayload
        /\ rx' = rx \/ rx' = Cleared
    BY <1>2, ClearedType DEF CheckGap, ResetGap, CheckLoss, Fire, Report, ClearParser,
                             TypeInv, TypeOK
  <2>4. fired' \in BOOLEAN
    BY <1>2 DEF CheckGap, ResetGap, CheckLoss, Fire, Report, TypeInv, TypeOK
  <2>5. UNCHANGED <<clock, boot, sent, faults, line, uart, lastByte, lastFrame, queue>>
    BY <1>2 DEF CheckGap, ResetGap, CheckLoss, Fire, Report, guardOnly
  <2>6. boot # "off"
    BY <1>2 DEF CheckGap, ResetGap, CheckLoss, Fire, Report, TypeInv, Places, IdleGuard
  <2>7. LowBytes'
    <3>1. CASE rx' = rx
      BY <2>5, <3>1 DEF TypeInv, LowBytes
    <3>2. CASE rx' = Cleared
      <4>1. 0 \in Bytes
        BY Widths
      <4> QED BY <3>2, <4>1 DEF LowBytes, Cleared
    <3> QED BY <2>3, <3>1, <3>2
  <2> QED BY <2>1, <2>2, <2>3, <2>4, <2>5, <2>6, <2>7
          DEF TypeInv, TypeOK, Places, Feeding
<1> QED BY <1>1, <1>2 DEF GuardTask

\* The steps of the UART task that leave the parser and the queue alone.
LEMMA UartTypes ==
  ASSUME TypeInv,
         Read \/ Fetch \/ Accept \/ Discard \/ Stamp \/ Rearm \/ StampByte \/ EndChunk
  PROVE  TypeInv'
<1>1. UNCHANGED <<clock, boot, sent, faults, guard, rx, queue>>
  BY DEF Read, Fetch, Accept, Discard, Stamp, Rearm, StampByte, EndChunk, uartOnly, shared
<1>2. boot # "off"
  <2>1. CASE boot = "off"
    <3>1. line = <<>> /\ uart.pc = "wait"
      BY <2>1 DEF TypeInv, Places, IdleUart
    <3>2. Read
      BY <3>1 DEF Fetch, Accept, Discard, Stamp, Rearm, StampByte, EndChunk
    <3>3. 1 .. Len(line) = {}
      <4>1. Len(line) = 0
        BY <3>1
      <4> QED BY <4>1
    <3> QED BY <3>2, <3>3 DEF Read
  <2> QED BY <2>1
<1>3. /\ uart \in Uarts /\ ghost \in Ghosts /\ line \in Seq(LineBytes)
      /\ uart.chunk \in Seq(LineBytes) /\ (Feeding => uart.chunk # <<>>)
  BY Parts DEF TypeInv, TypeOK, Places
<1>4. /\ line' \in Seq(LineBytes)
      /\ uart' \in Uarts /\ (Feeding' => uart'.chunk # <<>>)
      /\ uart'.pc = "body" => uart'.st = rx.state
      /\ ghost' \in Ghosts
      /\ lastByte' \in Times /\ lastFrame' \in Times /\ fired' \in BOOLEAN
  <2>1. CASE Read
    <3>1. PICK n \in 1 .. Len(line) :
            /\ uart' = [uart EXCEPT !.pc = "fetch", !.chunk = SubSeq(line, 1, n)]
            /\ line' = SubSeq(line, n + 1, Len(line))
      BY <2>1 DEF Read
    <3>2. /\ SubSeq(line, 1, n) \in Seq(LineBytes) /\ SubSeq(line, 1, n) # <<>>
          /\ SubSeq(line, n + 1, Len(line)) \in Seq(LineBytes)
      BY <1>3, CutType
    <3>3. uart' \in Uarts
      BY <1>3, <3>1, <3>2 DEF Uarts, UartLabels
    <3>4. uart'.chunk # <<>> /\ uart'.pc = "fetch"
      BY <1>3, <3>1, <3>2 DEF Uarts
    <3>5. UNCHANGED <<ghost, lastByte, lastFrame, fired>>
      BY <2>1 DEF Read, shared
    <3> QED BY <1>3, <3>1, <3>2, <3>3, <3>4, <3>5, Parts
  <2>2. CASE Fetch
    <3>1. uart' = [uart EXCEPT !.pc = "body", !.st = rx.state] /\ uart.pc = "fetch"
      BY <2>2 DEF Fetch
    <3>2. uart' \in Uarts /\ uart'.chunk = uart.chunk /\ uart'.st = rx.state
      BY <1>3, <3>1, Parts DEF Uarts, UartLabels
    <3>3. uart.chunk # <<>>
      BY <1>3, <3>1 DEF Feeding
    <3> DEFINE b == Head(uart.chunk)
               inOrder == b.pos = ghost.run[2] + 1 /\ (b.of = ghost.run[1] \/ b.pos = 1)
               run == IF b.pos = 1
                      THEN (IF rx.state \in {"SYNC0", "SYNC1"} THEN <<b.of, 1>> ELSE <<0, 0>>)
                      ELSE IF b.of # 0 /\ inOrder THEN <<b.of, b.pos>> ELSE <<0, 0>>
               disturbed == ghost.disturbed /\ rx.state # "SYNC0"
    <3>4. b \in LineBytes
      BY <1>3, <3>3, HeadTailProperties
    <3>5. b.of \in Nat /\ b.pos \in Nat
      BY <3>4, BoundsAssumption DEF LineBytes
    <3>6. run \in Nat \X Nat
      <4> HIDE DEF b, inOrder
      <4> QED BY <3>5
    <3>7. disturbed \in BOOLEAN
      OBVIOUS
    <3>8. ghost' = [ghost EXCEPT !.run = run, !.disturbed = disturbed]
      BY <2>2 DEF Fetch
    <3> HIDE DEF b, inOrder, run, disturbed
    <3>9. ghost' \in Ghosts
      BY <1>3, <3>6, <3>7, <3>8 DEF Ghosts
    <3>10. UNCHANGED <<line, lastByte, lastFrame, fired>>
      BY <2>2 DEF Fetch, shared
    <3> QED BY <1>3, <3>2, <3>3, <3>9, <3>10, Parts
  <2>3. CASE Accept
    <3>1. /\ uart.pc = "compare"
          /\ uart' = [uart EXCEPT !.pc = "stamp", !.type = rx.type, !.len = rx.len,
                                  !.now = clock]
      BY <2>3 DEF Accept
    <3>2. uart.chunk # <<>>
      BY <1>3, <3>1 DEF Feeding
    <3>3. rx.len \in Nat
      BY Parts, Widths
    <3>4. uart' \in Uarts /\ uart'.chunk = uart.chunk /\ uart'.pc = "stamp"
      BY <1>3, <3>1, <3>3, Parts DEF Uarts, UartLabels
    <3>5. ghost' \in Ghosts
      <4> DEFINE before == IF ghost.crossed THEN ghost.before ELSE ghost.acceptedAt
      <4>1. before \in Times
        BY Parts
      <4>2. ghost' = [ghost EXCEPT !.acceptedAt = clock, !.before = before,
                                   !.reported = FALSE, !.crossed = TRUE]
        BY <1>3, <2>3 DEF Accept, Ghosts
      <4> HIDE DEF before
      <4> QED BY <1>3, <4>1, <4>2, Parts DEF Ghosts
    <3>6. UNCHANGED <<line, lastByte, lastFrame, fired>>
      BY <2>3 DEF Accept, shared
    <3> QED BY <1>3, <3>2, <3>4, <3>5, <3>6, Parts
  <2>4. CASE Discard
    <3>1. uart' = NextByte(uart) /\ uart.chunk # <<>>
      BY <1>3, <2>4 DEF Discard, Feeding
    <3>2. UNCHANGED <<line, ghost, lastByte, lastFrame, fired>>
      BY <2>4 DEF Discard, shared
    <3> QED BY <1>3, <3>1, <3>2, NextByteType, Parts DEF Feeding
  <2>5. CASE Stamp \/ Rearm
    <3>1. PICK label \in {"rearm", "handOver"} : uart' = [uart EXCEPT !.pc = label]
      BY <2>5 DEF Stamp, Rearm
    <3>2. uart' \in Uarts /\ uart'.chunk = uart.chunk /\ uart'.pc = label
      BY <1>3, <3>1 DEF Uarts, UartLabels
    <3>3. uart.chunk # <<>>
      BY <1>3, <2>5 DEF Stamp, Rearm, Feeding
    <3>4. lastFrame' \in {lastFrame, uart.now} /\ fired' \in {fired, FALSE}
      BY <2>5 DEF Stamp, Rearm
    <3>5. UNCHANGED <<line, ghost, lastByte>>
      BY <2>5 DEF Stamp, Rearm, uartOnly
    <3> QED BY <1>3, <3>2, <3>3, <3>4, <3>5, Parts
  <2>6. CASE StampByte
    <3>1. uart' = [uart EXCEPT !.pc = "endChunk", !.now = clock]
      BY <2>6 DEF StampByte
    <3>2. uart' \in Uarts /\ uart'.pc = "endChunk"
      BY <1>3, <3>1, Parts DEF Uarts, UartLabels
    <3>3. UNCHANGED <<line, ghost, lastByte, lastFrame, fired>>
      BY <2>6 DEF StampByte, shared
    <3> QED BY <1>3, <3>2, <3>3, Parts DEF Feeding
  <2>7. CASE EndChunk
    <3>1. uart' = IdleUart /\ lastByte' = uart.now
      BY <2>7 DEF EndChunk
    <3>2. uart' \in Uarts /\ uart'.pc = "wait"
      BY <3>1, IdleType DEF IdleUart
    <3>3. UNCHANGED <<line, ghost, lastFrame, fired>>
      BY <2>7 DEF EndChunk
    <3> QED BY <1>3, <3>1, <3>2, <3>3, Parts DEF Feeding
  <2> QED BY <2>1, <2>2, <2>3, <2>4, <2>5, <2>6, <2>7
<1>5. TypeOK'
  BY <1>1, <1>4 DEF TypeInv, TypeOK
<1>6. Places'
  BY <1>1, <1>2, <1>4 DEF Places
<1>7. LowBytes'
  BY <1>1, <1>4 DEF TypeInv, LowBytes
<1> QED BY <1>5, <1>6, <1>7 DEF TypeInv

\* A payload byte that has room in the array is the only one that lengthens it.
LEMMA FeedFits ==
  ASSUME NEW st, NEW r \in Parsers, NEW b \in Bytes, Len(r.payload) <= MaxPayload,
         ~Overruns(st, r)
  PROVE  Len(FeedByte(st, r, b).payload) <= MaxPayload
<1>1. r.payload \in Seq(Bytes) /\ MaxPayload \in Nat /\ Len(<<>>) = 0
  <2>1. r.payload \in Seq(Bytes)
    BY DEF Parsers
  <2>2. MaxPayload \in Nat
    BY MaxPayloadAssumption DEF MaxWord
  <2>3. Len(<<>>) = 0
    BY EmptySeq
  <2> QED BY <2>1, <2>2, <2>3
<1>2. Len(r.payload) \in Nat /\ Len(Append(r.payload, b)) = Len(r.payload) + 1
  BY <1>1, AppendProperties, LenProperties
<1> DEFINE q == FeedByte(st, r, b)
<1>3. CASE st = "DATA"
  <2>1. q.payload = Append(r.payload, b)
    BY <1>3 DEF FeedByte, Data, Parsers
  <2> QED BY <1>1, <1>2, <1>3, <2>1 DEF Overruns
<1>4. CASE st = "LEN1"
  <2> DEFINE next == [r EXCEPT !.len = r.len + 256 * b, !.crc = CrcUpdate(@, b)]
  <2>1. next.payload = r.payload
    BY DEF Parsers
  <2>2. DOMAIN next = DOMAIN r
    OBVIOUS
  <2>3. \/ q = [next EXCEPT !.state = "SYNC0"]
        \/ q = [next EXCEPT !.payload = <<>>, !.state = "DATA"]
    BY <1>4 DEF FeedByte, Len1
  <2> HIDE DEF next
  <2>4. q.payload = r.payload \/ q.payload = <<>>
    BY <2>1, <2>2, <2>3 DEF Parsers
  <2> QED BY <1>1, <2>4
<1>5. CASE st \notin {"DATA", "LEN1"}
  <2>1. q.payload = r.payload
    BY <1>5 DEF FeedByte, Sync0, Sync1, Ver, Type, Len0, Crc0, Crc1, Parsers
  <2> QED BY <2>1
<1> QED BY <1>3, <1>4, <1>5

\* The steps that feed the parser.
LEMMA FeedTypes ==
  ASSUME TypeInv, Body \/ TestDone
  PROVE  TypeInv'
<1>1. /\ UNCHANGED <<clock, boot, sent, faults, guard, line, lastByte, lastFrame,
                     fired, queue, ghost>>
      /\ boot # "off"
  BY DEF Body, TestDone, uartOnly, TypeInv, Places, IdleUart
<1>2. uart \in Uarts /\ uart.chunk \in Seq(LineBytes) /\ uart.chunk # <<>> /\ rx \in Parsers
  BY Parts DEF Body, TestDone, TypeInv, TypeOK, Places, Feeding
<1>3. NextByte(uart) \in Uarts
      /\ NextByte(uart).pc \in {"fetch", "stampByte"}
      /\ (NextByte(uart).pc = "fetch" => NextByte(uart).chunk # <<>>)
  BY <1>2, NextByteType
<1>4. uart' \in Uarts /\ uart'.pc # "body" /\ (Feeding' => uart'.chunk # <<>>)
  <2>1. CASE uart' = NextByte(uart)
    BY <1>3, <2>1 DEF Feeding
  <2>2. ASSUME NEW label \in {"dataDone", "compare"}, uart' = [uart EXCEPT !.pc = label]
        PROVE  uart' \in Uarts /\ uart'.pc = label /\ uart'.chunk = uart.chunk
    BY <1>2, <2>2 DEF Uarts, UartLabels
  <2> QED BY <1>2, <2>1, <2>2 DEF Body, TestDone
<1>5. /\ rx' \in Parsers /\ Len(rx'.payload) <= MaxPayload
      /\ rx'.state = "LEN1" => rx'.len \in Bytes
      /\ rx'.state = "CRC1" => rx'.crcRx \in Bytes
  <2>1. CASE Body
    <3>1. Head(uart.chunk) \in LineBytes
      BY <1>2, HeadTailProperties
    <3>2. Head(uart.chunk).val \in Bytes
      BY <3>1 DEF LineBytes
    <3>3. /\ rx.state = "LEN1" \/ uart.st = "LEN1" => rx.len \in Bytes
          /\ rx.state = "CRC1" \/ uart.st = "CRC1" => rx.crcRx \in Bytes
      BY <2>1 DEF Body, TypeInv, LowBytes
    <3>4. rx' = FeedByte(uart.st, rx, Head(uart.chunk).val) /\ uart.st \in ParserStates
      BY <2>1, Parts DEF Body
    <3>5. Len(rx.payload) <= MaxPayload /\ ~Overruns(uart.st, rx)
      BY <2>1, Parts DEF Body
    <3>6. Len(rx'.payload) <= MaxPayload
      BY <1>2, <3>2, <3>4, <3>5, FeedFits
    <3> QED BY <1>2, <3>2, <3>3, <3>4, <3>6, FeedType
  <2>2. CASE TestDone
    <3>1. rx' = rx \/ rx' = [rx EXCEPT !.state = "CRC0"]
      BY <2>2 DEF TestDone, DataDone
    <3>2. Len(rx'.payload) <= MaxPayload
      <4>1. rx'.payload = rx.payload
        BY <1>2, <3>1 DEF Parsers
      <4> QED BY <4>1, Parts
    <3> QED BY <1>2, <3>1, <3>2 DEF Parsers, ParserStates, TypeInv, LowBytes
  <2> QED BY <2>1, <2>2
<1> QED BY <1>1, <1>4, <1>5 DEF TypeInv, TypeOK, Places, LowBytes

\* A frame is handed over, or the chip panics.
LEMMA HandOverTypes ==
  ASSUME TypeInv, HandOver \/ Panic
  PROVE  TypeInv'
<1>1. CASE HandOver
  <2>1. /\ UNCHANGED <<clock, boot, sent, faults, guard, line, rx, lastByte, lastFrame,
                       fired, ghost>>
        /\ boot # "off"
    BY <1>1 DEF HandOver, uartOnly, TypeInv, Places, IdleUart
  <2>2. uart.chunk \in Seq(LineBytes) /\ uart.chunk # <<>> /\ uart' = NextByte(uart)
    BY <1>1, Parts DEF HandOver, TypeInv, Places, Feeding
  <2>3. uart' \in Uarts /\ uart'.pc # "body" /\ (Feeding' => uart'.chunk # <<>>)
    BY <2>2, NextByteType DEF Feeding
  <2>4. Item \in Items
    <3> DEFINE byte(i) == IF i <= Len(rx.payload) THEN rx.payload[i] ELSE 0
               payload == [i \in 1 .. uart.len |-> byte(i)]
    <3>1. ASSUME NEW i \in 1 .. uart.len
          PROVE  byte(i) \in Bytes
      <4>1. i \in Nat /\ i >= 1 /\ rx.payload \in Seq(Bytes) /\ Len(rx.payload) \in Nat
        BY Parts, LenProperties
      <4>2. i <= Len(rx.payload) => rx.payload[i] \in Bytes
        BY <4>1, ElementOfSeq
      <4>3. 0 \in Bytes
        BY Widths
      <4> QED BY <4>2, <4>3
    <3>2. payload \in [1 .. uart.len -> Bytes]
      BY <3>1
    <3>3. payload \in Seq(Bytes)
      <4>1. uart.len \in Nat /\ Seq(Bytes) = UNION {[1 .. n -> Bytes] : n \in Nat}
        BY Parts, SeqDef
      <4> HIDE DEF payload
      <4> QED BY <3>2, <4>1
    <3>4. Item = [type |-> uart.type, payload |-> payload, disturbed |-> ghost.disturbed]
      BY DEF Item
    <3> HIDE DEF payload
    <3> QED BY <3>3, <3>4, Parts DEF Items
  <2>5. queue' \in Seq(Items) /\ Len(queue') <= QueueLen
    <3>1. queue \in Seq(Items) /\ Len(queue) <= QueueLen /\ Len(queue) \in Nat
      BY LenProperties DEF TypeInv, TypeOK
    <3>2. Append(queue, Item) \in Seq(Items) /\ Len(Append(queue, Item)) = Len(queue) + 1
      BY <2>4, <3>1, AppendProperties
    <3>3. queue' = queue \/ (Len(queue) < QueueLen /\ queue' = Append(queue, Item))
      BY <1>1 DEF HandOver, Enqueue
    <3> QED BY <3>1, <3>2, <3>3, BoundsAssumption
  <2> QED BY <2>1, <2>3, <2>5 DEF TypeInv, TypeOK, Places, LowBytes
<1>2. CASE Panic
  <2>1. /\ boot' = "off" /\ uart' = IdleUart /\ rx' = Cleared /\ lastByte' = 0
        /\ lastFrame' = 0 /\ fired' = FALSE /\ guard' = IdleGuard /\ queue' = <<>>
        /\ line' = <<>> /\ clock' = 0 /\ ghost' = Fresh(0)
        /\ UNCHANGED <<sent, faults>>
    BY <1>2 DEF Panic, Off
  <2>2. queue' \in Seq(Items) /\ Len(queue') <= QueueLen
    <3>1. <<>> \in Seq(Items) /\ Len(<<>>) = 0
      BY EmptySeq
    <3> QED BY <2>1, <3>1, BoundsAssumption
  <2>3. line' \in Seq(LineBytes)
    BY <2>1, EmptySeq
  <2>4. TypeOK'
    BY <2>1, <2>2, <2>3, IdleType, ClearedType DEF TypeInv, TypeOK
  <2> QED BY <2>1, <2>4, ClearedType DEF TypeInv, Places, LowBytes, Feeding, IdleUart
<1> QED BY <1>1, <1>2

\* A byte past the array: the model ends there.
LEMMA OverrunTypes ==
  ASSUME TypeInv, Overrun
  PROVE  TypeInv' /\ uart'.pc = "overrun" /\ uart'.now = uart.now /\ uart'.chunk = uart.chunk
<1>1. /\ uart' = [uart EXCEPT !.pc = "overrun"] /\ uart \in Uarts /\ uart.pc = "body"
      /\ UNCHANGED <<clock, boot, sent, faults, guard, line, shared, ghost>>
  BY DEF Overrun, uartOnly, TypeInv, TypeOK
<1>2. uart' \in Uarts /\ uart'.pc = "overrun" /\ uart'.now = uart.now /\ uart'.chunk = uart.chunk
  BY <1>1 DEF Uarts, UartLabels
<1>3. boot # "off"
  BY <1>1 DEF TypeInv, Places, IdleUart
<1> QED BY <1>1, <1>2, <1>3 DEF shared, TypeInv, TypeOK, Places, LowBytes, Feeding

\* Every step keeps the types.
LEMMA TypeStep ==
  ASSUME TypeInv, [Next]_vars
  PROVE  TypeInv'
<1>1. CASE UNCHANGED vars
  BY <1>1 DEF vars, TypeInv, TypeOK, Places, LowBytes, Feeding
<1>2. CASE Next
  BY <1>2, EnvironmentTypes, MainTypes, GuardTypes, UartTypes, FeedTypes, HandOverTypes,
     OverrunTypes
     DEF Next, UartTask
<1> QED BY <1>1, <1>2

-----------------------------------------------------------------------------
(* The times and what is concluded from them.                                 *)

\* The parts of the history a conclusion rests on.
Conclusions == <<ghost.acceptedAt, ghost.before, ghost.reported, ghost.torn, ghost.crossed>>

\* Every time is a number.
LEMMA Numbers ==
  ASSUME TypeInv
  PROVE  /\ clock \in Nat /\ lastByte \in Nat /\ lastFrame \in Nat
         /\ uart.now \in Nat /\ guard.now \in Nat
         /\ ghost.acceptedAt \in Nat /\ ghost.before \in Nat
         /\ LinkLost \in Nat /\ LinkLost > 0 /\ FrameGap \in Nat /\ FrameGap > 0
<1>1. LinkLost \in Nat /\ LinkLost > 0 /\ FrameGap \in Nat /\ FrameGap > 0
  BY TimesAssumption
<1>2. \A t \in Times : t \in Nat
  BY BoundsAssumption DEF Times
<1> QED BY <1>1, <1>2, Parts

\* Before any clock has moved, all times are equal and nothing is late.
LEMMA TimeInit == Init => TimeInv
<1> SUFFICES ASSUME Init PROVE TimeInv
  OBVIOUS
<1>1. LinkLost \in Nat /\ LinkLost > 0
  BY TimesAssumption
<1>2. /\ clock = 0 /\ lastByte = 0 /\ lastFrame = 0 /\ fired = FALSE
      /\ uart.pc = "wait" /\ uart.now = 0 /\ guard.pc = "receive" /\ guard.now = 0
      /\ ghost.acceptedAt = 0 /\ ghost.before = 0
  BY DEF Init, IdleUart, IdleGuard, Fresh
<1> QED BY <1>1, <1>2
        DEF TimeInv, Clocks, Stamped, LossInv, FiredInv, SilenceInv, QuietInv

\* A step that touches none of the shared times, while no time is being stored.
LEMMA StepElsewhere ==
  ASSUME TypeInv, TypeInv', TimeInv,
         clock' >= clock, UNCHANGED <<lastByte, lastFrame, fired, guard, Conclusions>>,
         \/ UNCHANGED <<uart, rx>>
         \/ /\ uart.pc \notin {"stamp", "rearm"}
            /\ uart'.pc \notin {"stamp", "rearm", "wait", "endChunk"}
            /\ uart'.now \in {uart.now, 0}
  PROVE  TimeInv'
<1>1. Conclusions' = Conclusions
  OBVIOUS
<1>2. /\ ghost'.acceptedAt = ghost.acceptedAt /\ ghost'.before = ghost.before
      /\ ghost'.reported = ghost.reported /\ ghost'.torn = ghost.torn
      /\ ghost'.crossed = ghost.crossed
  BY <1>1 DEF Conclusions
<1>3. Clocks'
  <2>1. clock' \in Nat
    BY BoundsAssumption DEF TypeInv, TypeOK, Times
  <2> QED BY <1>2, <2>1, Numbers DEF TimeInv, Clocks
<1>4. Stamped'
  BY <1>2 DEF TimeInv, Stamped
<1>5. LossInv'
  BY <1>2 DEF TimeInv, LossInv, Earned
<1>6. FiredInv' /\ SilenceInv'
  BY <1>2 DEF TimeInv, FiredInv, SilenceInv
<1>7. QuietInv'
  BY <1>2 DEF TimeInv, QuietInv
<1> QED BY <1>3, <1>4, <1>5, <1>6, <1>7 DEF TimeInv

\* The steps of which that holds.
LEMMA ElsewhereTimes ==
  ASSUME TypeInv, TypeInv', TimeInv,
         \/ Environment \/ GuardStart
         \/ Read \/ Fetch \/ Body \/ Overrun \/ TestDone \/ Discard \/ HandOver
  PROVE  TimeInv'
<1>1. CASE Environment \/ GuardStart
  <2>1. clock' >= clock
    <3>1. clock' = clock \/ clock' = clock + 1
      BY <1>1 DEF Environment, PassTime, Send, LoseByte, InsertByte, GuardStart
    <3> QED BY <3>1, Numbers
  <2>2. UNCHANGED <<uart, rx, lastByte, lastFrame, fired, guard, ghost>>
    BY <1>1 DEF Environment, PassTime, Send, LoseByte, InsertByte, GuardStart, device, shared
  <2> QED BY <2>1, <2>2, StepElsewhere DEF Conclusions
<1>2. CASE Read \/ Fetch \/ Body \/ Overrun \/ TestDone \/ Discard \/ HandOver
  <2>1. clock' >= clock
    <3>1. clock' = clock
      BY <1>2 DEF Read, Fetch, Body, Overrun, TestDone, Discard, HandOver, uartOnly
    <3> QED BY <3>1, Numbers
  <2>2. UNCHANGED <<lastByte, lastFrame, fired, guard>>
    BY <1>2 DEF Read, Fetch, Body, Overrun, TestDone, Discard, HandOver, uartOnly, shared
  <2>3. Conclusions' = Conclusions
    <3>1. CASE Fetch
      <4>1. PICK r, d : ghost' = [ghost EXCEPT !.run = r, !.disturbed = d]
        BY <3>1 DEF Fetch
      <4>2. ghost \in Ghosts
        BY DEF TypeInv, TypeOK
      <4> QED BY <4>1, <4>2 DEF Conclusions, Ghosts
    <3>2. CASE ghost' = ghost
      BY <3>2 DEF Conclusions
    <3> QED BY <1>2, <3>1, <3>2 DEF Read, Body, Overrun, TestDone, Discard, HandOver
  <2>4. uart.pc \notin {"stamp", "rearm"}
    BY <1>2 DEF Read, Fetch, Body, Overrun, TestDone, Discard, HandOver
  <2>5. /\ uart'.pc \notin {"stamp", "rearm", "wait", "endChunk"}
        /\ uart'.now \in {uart.now, 0}
    <3>1. uart \in Uarts
      BY DEF TypeInv, TypeOK
    <3>2. CASE uart' = NextByte(uart)
      BY <3>2 DEF NextByte, IdleUart
    <3>3. CASE Read \/ Fetch
      BY <3>1, <3>3 DEF Read, Fetch, Uarts
    <3>4. CASE Body /\ uart' # NextByte(uart)
      BY <3>1, <3>4 DEF Body, Uarts
    <3>5. CASE Overrun
      BY <3>5, OverrunTypes
    <3> QED BY <1>2, <3>2, <3>3, <3>4, <3>5 DEF TestDone, Discard, HandOver
  <2> QED BY <2>1, <2>2, <2>3, <2>4, <2>5, StepElsewhere
<1> QED BY <1>1, <1>2

\* The steps that start the history afresh.
LEMMA FreshTimes ==
  ASSUME TypeInv, TypeInv', TimeInv, UartInit \/ Panic
  PROVE  TimeInv'
<1>1. /\ uart'.pc = "wait" /\ uart'.now = 0 /\ guard'.pc = "receive" /\ guard'.now = 0
      /\ lastByte' = clock' /\ lastFrame' = clock' /\ fired' = FALSE
      /\ ghost'.acceptedAt = clock' /\ ghost'.before = clock'
  <2>1. CASE UartInit
    BY <2>1 DEF UartInit, Fresh, IdleUart, IdleGuard, TypeInv, Places
  <2>2. CASE Panic
    BY <2>2 DEF Panic, Off, Fresh, IdleUart, IdleGuard
  <2> QED BY <2>1, <2>2
<1>2. clock' \in Nat /\ LinkLost \in Nat
  BY BoundsAssumption, Numbers DEF TypeInv, TypeOK, Times
<1>3. Clocks'
  BY <1>1, <1>2 DEF Clocks
<1>4. Stamped' /\ LossInv' /\ FiredInv' /\ QuietInv'
  BY <1>1 DEF Stamped, LossInv, FiredInv, QuietInv
<1>5. SilenceInv'
  <2>1. ASSUME NEW c \in Nat, NEW l \in Nat PROVE ~(0 - c > l)
    OBVIOUS
  <2>2. ~(0 - clock' > LinkLost)
    BY <1>2, <2>1
  <2> QED BY <1>1, <2>2 DEF SilenceInv
<1> QED BY <1>3, <1>4, <1>5 DEF TimeInv

\* A frame is accepted and its time is read.
LEMMA AcceptTimes ==
  ASSUME TypeInv, TypeInv', TimeInv, Accept
  PROVE  TimeInv'
<1>1. /\ uart.pc = "compare" /\ uart'.pc = "stamp" /\ uart'.now = clock
      /\ UNCHANGED <<clock, guard, lastByte, lastFrame, fired>>
  BY DEF Accept, uartOnly, shared, TypeInv, TypeOK, Uarts
<1>2. /\ ghost'.acceptedAt = clock
      /\ ghost'.before = IF ghost.crossed THEN ghost.before ELSE ghost.acceptedAt
      /\ ghost'.crossed = TRUE /\ ghost'.torn = ghost.torn
  BY DEF Accept, TypeInv, TypeOK, Ghosts
<1>3. Clocks'
  BY <1>1, <1>2, Numbers DEF TimeInv, Clocks
<1>4. Stamped'
  BY <1>1, <1>2, Numbers DEF TimeInv, Clocks, Stamped
<1>5. LossInv'
  BY <1>1, <1>2, Numbers DEF TimeInv, Clocks, LossInv, Earned
<1>6. FiredInv' /\ SilenceInv' /\ QuietInv'
  BY <1>1, <1>2 DEF FiredInv, SilenceInv, QuietInv
<1> QED BY <1>3, <1>4, <1>5, <1>6 DEF TimeInv

\* The time of the frame is stored, and the link is armed again.
LEMMA StampTimes ==
  ASSUME TypeInv, TypeInv', TimeInv, Stamp \/ Rearm
  PROVE  TimeInv'
<1>1. /\ uart'.now = uart.now /\ UNCHANGED <<clock, guard, lastByte, ghost, rx>>
      /\ \/ uart.pc = "stamp" /\ uart'.pc = "rearm" /\ lastFrame' = uart.now /\ fired' = fired
         \/ /\ uart.pc = "rearm" /\ uart'.pc = "handOver" /\ lastFrame' = lastFrame
            /\ fired' = FALSE
  BY DEF Stamp, Rearm, uartOnly, TypeInv, TypeOK, Uarts
<1>2. Clocks' /\ Stamped'
  BY <1>1 DEF TimeInv, Clocks, Stamped
<1>3. LossInv'
  BY <1>1 DEF TimeInv, LossInv, Earned
<1>4. FiredInv' /\ SilenceInv' /\ QuietInv'
  BY <1>1 DEF TimeInv, FiredInv, SilenceInv, QuietInv
<1> QED BY <1>2, <1>3, <1>4 DEF TimeInv

\* The time of the last byte is read and stored.
LEMMA ByteTimes ==
  ASSUME TypeInv, TypeInv', TimeInv, StampByte \/ EndChunk
  PROVE  TimeInv'
<1>1. /\ UNCHANGED <<clock, guard, lastFrame, fired, ghost, rx>>
      /\ \/ /\ uart.pc = "stampByte" /\ uart'.pc = "endChunk" /\ uart'.now = clock
            /\ lastByte' = lastByte
         \/ uart.pc = "endChunk" /\ uart'.pc = "wait" /\ uart'.now = 0 /\ lastByte' = uart.now
  <2>1. uart \in Uarts
    BY DEF TypeInv, TypeOK
  <2>2. CASE StampByte
    BY <2>1, <2>2 DEF StampByte, uartOnly, shared, Uarts
  <2>3. CASE EndChunk
    BY <2>3 DEF EndChunk, IdleUart, uartOnly
  <2> QED BY <2>2, <2>3
<1>2. Clocks' /\ Stamped'
  BY <1>1, Numbers DEF TimeInv, Clocks, Stamped
<1>3. LossInv'
  BY <1>1 DEF TimeInv, LossInv, Earned
<1>4. FiredInv' /\ SilenceInv'
  BY <1>1 DEF TimeInv, FiredInv, SilenceInv
<1>5. QuietInv'
  BY <1>1, Numbers DEF TimeInv, Clocks, QuietInv
<1> QED BY <1>2, <1>3, <1>4, <1>5 DEF TimeInv

\* The guard task's tick.
LEMMA TickTimes ==
  ASSUME TypeInv, TypeInv', TimeInv, GuardTask
  PROVE  TimeInv'
<1>1. UNCHANGED <<clock, uart, lastByte, lastFrame>>
  BY DEF GuardTask, Tick, CheckGap, ResetGap, CheckLoss, Fire, Report, guardOnly
<1>2. guard \in Guards /\ ghost \in Ghosts
  BY DEF TypeInv, TypeOK
<1>3. CASE Tick
  <2>1. /\ guard.pc = "receive" /\ guard'.pc = "gap" /\ guard'.now = clock
        /\ UNCHANGED <<rx, fired>>
    BY <1>3 DEF Tick
  <2>2. /\ ghost'.acceptedAt = ghost.acceptedAt /\ ghost'.reported = ghost.reported
        /\ ghost'.crossed = (uart.pc \in {"stamp", "rearm"})
        /\ ghost'.before = IF uart.pc \in {"stamp", "rearm"} THEN ghost.before ELSE 0
    BY <1>2, <1>3 DEF Tick, Ghosts
  <2>3. Clocks'
    BY <1>1, <2>1, <2>2, Numbers DEF TimeInv, Clocks
  <2>4. Stamped'
    BY <1>1, <2>1, <2>2 DEF TimeInv, Stamped
  <2>5. LossInv' /\ FiredInv' /\ SilenceInv' /\ QuietInv'
    BY <1>1, <2>1, <2>2 DEF TimeInv, LossInv, FiredInv, SilenceInv, QuietInv
  <2> QED BY <2>3, <2>4, <2>5 DEF TimeInv
<1>4. CASE CheckGap
  <2>1. PICK t \in SeenByteTimes :
          /\ GoTo(IF guard.now - t > FrameGap /\ rx.state # "SYNC0" THEN "resetGap"
                  ELSE "loss")
          /\ ghost' = [ghost EXCEPT !.torn = t \notin {lastByte, uart.now}]
    BY <1>4 DEF CheckGap
  <2>2. /\ guard.pc = "gap" /\ guard'.now = guard.now /\ guard'.pc \in {"resetGap", "loss"}
        /\ (guard'.pc = "loss" => ~(guard.now - t > FrameGap) \/ rx.state = "SYNC0")
        /\ UNCHANGED <<rx, fired>>
    BY <1>2, <1>4, <2>1 DEF CheckGap, GoTo, Guards
  <2>3. /\ ghost'.acceptedAt = ghost.acceptedAt /\ ghost'.reported = ghost.reported
        /\ ghost'.crossed = ghost.crossed /\ ghost'.before = ghost.before
        /\ ghost'.torn = (t \notin {lastByte, uart.now})
    BY <1>2, <2>1 DEF Ghosts
  <2>4. Clocks' /\ Stamped'
    BY <1>1, <2>2, <2>3 DEF TimeInv, Clocks, Stamped
  <2>5. LossInv' /\ FiredInv' /\ SilenceInv'
    BY <1>1, <2>2, <2>3 DEF TimeInv, LossInv, FiredInv, SilenceInv
  <2>6. QuietInv'
    <3>1. CASE uart.pc = "wait"
      <4>1. t = lastByte
        BY <3>1 DEF SeenByteTimes
      <4> QED BY <1>1, <2>2, <2>3, <3>1, <4>1 DEF QuietInv
    <3>2. CASE uart.pc = "endChunk"
      <4>1. lastByte <= uart.now
        BY <3>2 DEF TimeInv, Stamped
      <4>2. t \in {lastByte, uart.now} /\ guard.now - uart.now > FrameGap
              => guard.now - t > FrameGap
        BY <4>1, Numbers
      <4> QED BY <1>1, <2>2, <2>3, <3>2, <4>2 DEF QuietInv
    <3> QED BY <1>1, <3>1, <3>2 DEF QuietInv
  <2> QED BY <2>4, <2>5, <2>6 DEF TimeInv
<1>5. CASE ResetGap \/ Report
  <2>1. /\ guard'.now = guard.now /\ rx'.state = "SYNC0" /\ fired' = fired
        /\ \/ guard.pc = "resetGap" /\ guard'.pc = "loss" /\ ghost'.reported = ghost.reported
           \/ guard.pc = "report" /\ guard'.pc = "receive" /\ ghost'.reported = TRUE
    BY <1>2, <1>5, ClearedType DEF ResetGap, Report, ClearParser, GoTo, Guards, Ghosts
  <2>2. /\ ghost'.acceptedAt = ghost.acceptedAt /\ ghost'.torn = ghost.torn
        /\ ghost'.crossed = ghost.crossed /\ ghost'.before = ghost.before
    BY <1>2, <1>5 DEF ResetGap, Report, ClearParser, Ghosts
  <2>3. Clocks' /\ Stamped'
    BY <1>1, <2>1, <2>2 DEF TimeInv, Clocks, Stamped
  <2>4. LossInv' /\ FiredInv' /\ SilenceInv' /\ QuietInv'
    BY <1>1, <2>1, <2>2 DEF TimeInv, LossInv, FiredInv, SilenceInv, QuietInv
  <2> QED BY <2>3, <2>4 DEF TimeInv
<1>6. CASE CheckLoss
  <2>1. PICK t \in SeenFrameTimes :
          /\ GoTo(IF guard.now - t > LinkLost /\ ~fired THEN "fire" ELSE "receive")
          /\ ghost' = [ghost EXCEPT !.torn = t \notin {lastFrame, uart.now}]
    BY <1>6 DEF CheckLoss
  <2>2. /\ guard.pc = "loss" /\ guard'.now = guard.now /\ guard'.pc \in {"fire", "receive"}
        /\ (guard'.pc = "fire" => guard.now - t > LinkLost)
        /\ (guard'.pc = "receive" => ~(guard.now - t > LinkLost) \/ fired)
        /\ UNCHANGED <<rx, fired>>
    BY <1>2, <1>6, <2>1 DEF CheckLoss, GoTo, Guards
  <2>3. /\ ghost'.acceptedAt = ghost.acceptedAt /\ ghost'.reported = ghost.reported
        /\ ghost'.crossed = ghost.crossed /\ ghost'.before = ghost.before
        /\ ghost'.torn = (t \notin {lastFrame, uart.now})
    BY <1>2, <2>1 DEF Ghosts
  <2>4. Clocks' /\ Stamped'
    BY <1>1, <2>2, <2>3 DEF TimeInv, Clocks, Stamped
  <2>5. FiredInv' /\ QuietInv'
    BY <1>1, <2>2, <2>3 DEF TimeInv, FiredInv, QuietInv
  <2>6. LossInv' /\ SilenceInv'
    <3>1. CASE uart.pc = "stamp"
      <4>1. uart.now = ghost.acceptedAt /\ ghost.before <= lastFrame /\ ghost.crossed
        BY <3>1 DEF TimeInv, Stamped
      <4>2. t = lastFrame /\ guard.now - t > LinkLost => guard.now - ghost.before > LinkLost
        BY <4>1, Numbers
      <4> QED BY <1>1, <2>2, <2>3, <4>1, <4>2 DEF LossInv, Earned, SilenceInv
    <3>2. CASE uart.pc # "stamp"
      <4>1. t = ghost.acceptedAt
        BY <3>2 DEF SeenFrameTimes, TimeInv, Stamped
      <4>2. fired => ghost.reported \/ ghost.crossed
        BY <2>2 DEF TimeInv, FiredInv, Stamped
      <4> QED BY <1>1, <2>2, <2>3, <4>1, <4>2 DEF LossInv, Earned, SilenceInv
    <3> QED BY <3>1, <3>2
  <2> QED BY <2>4, <2>5, <2>6 DEF TimeInv
<1>7. CASE Fire
  <2>1. /\ guard.pc = "fire" /\ guard'.pc = "report" /\ guard'.now = guard.now
        /\ UNCHANGED <<rx, ghost>>
    BY <1>2, <1>7 DEF Fire, GoTo, Guards
  <2>2. Clocks' /\ Stamped'
    BY <1>1, <2>1 DEF TimeInv, Clocks, Stamped
  <2>3. LossInv' /\ FiredInv' /\ SilenceInv' /\ QuietInv'
    BY <1>1, <2>1 DEF TimeInv, LossInv, Earned, FiredInv, SilenceInv, QuietInv
  <2> QED BY <2>2, <2>3 DEF TimeInv
<1> QED BY <1>3, <1>4, <1>5, <1>6, <1>7 DEF GuardTask

\* Every step keeps the times in order.
LEMMA TimeStep ==
  ASSUME TypeInv, TypeInv', TimeInv, [Next]_vars
  PROVE  TimeInv'
<1>1. CASE UNCHANGED vars
  BY <1>1 DEF vars, TimeInv, Clocks, Stamped, LossInv, Earned, FiredInv, SilenceInv, QuietInv
<1>2. CASE Next
  BY <1>2, ElsewhereTimes, FreshTimes, AcceptTimes, StampTimes, ByteTimes, TickTimes
     DEF Next, MainTask, UartTask
<1> QED BY <1>1, <1>2

-----------------------------------------------------------------------------
(* Whole frames: the parser follows a frame whose bytes come in order.        *)

\* Where a frame of a payload of length L has its parts.
Layout(f, L) ==
  /\ L \in Nat /\ L >= 1 /\ L \in Words /\ L <= MaxPayload
  /\ Covered(f) \in Seq(Bytes) /\ Len(Covered(f)) = L + 2
  /\ DOMAIN Packed[f] = 1 .. L + 8
  /\ Packed[f][1] = MagicH /\ Packed[f][2] = MagicL /\ Packed[f][3] = Version
  /\ Packed[f][4] = f.type /\ f.type \in {CMD, REPLY}
  /\ Packed[f][5] = LowHigh(L)[1] /\ Packed[f][6] = LowHigh(L)[2]
  /\ \A n \in 1 .. L + 2 : Packed[f][n + 4] = Covered(f)[n]
  /\ \A n \in 1 .. L : Packed[f][n + 6] = f.payload[n]
  /\ Packed[f][L + 7] = LowHigh(Crc(Covered(f)))[1]
  /\ Packed[f][L + 8] = LowHigh(Crc(Covered(f)))[2]

\* s is four bytes, k more, and two, one after the other.
Joined(a, b, c, k, s) ==
  /\ DOMAIN s = 1 .. k + 6
  /\ s[1] = a[1] /\ s[2] = a[2] /\ s[3] = a[3] /\ s[4] = a[4]
  /\ \A n \in 1 .. k : s[n + 4] = b[n]
  /\ s[k + 5] = c[1] /\ s[k + 6] = c[2]

\* It is so when they are written one after the other.
LEMMA ThreeParts ==
  ASSUME NEW a \in Seq(Bytes), NEW b \in Seq(Bytes), NEW c \in Seq(Bytes),
         Len(a) = 4, Len(c) = 2
  PROVE  Joined(a, b, c, Len(b), a \o b \o c)
<1> DEFINE front == a \o b
           s == front \o c
           k == Len(b)
<1> SUFFICES Joined(a, b, c, k, s)
  OBVIOUS
<1>8. k \in Nat
  BY LenProperties
<1> HIDE DEF k
<1>0. /\ front \in Seq(Bytes) /\ Len(front) = Len(a) + Len(b)
      /\ \A i \in 1 .. Len(a) + Len(b) :
           front[i] = IF i <= Len(a) THEN a[i] ELSE b[i - Len(a)]
  BY ConcatProperties, Zenon
<1>1. /\ front \in Seq(Bytes) /\ Len(front) = 4 + k
      /\ \A i \in 1 .. 4 + k : front[i] = IF i <= 4 THEN a[i] ELSE b[i - 4]
  BY <1>0, Zenon DEF k
<1> HIDE DEF front
<1>2. /\ s \in Seq(Bytes) /\ Len(s) = 4 + k + 2
      /\ \A i \in 1 .. 4 + k + 2 : s[i] = IF i <= 4 + k THEN front[i] ELSE c[i - (4 + k)]
  <2>1. /\ s \in Seq(Bytes) /\ Len(s) = Len(front) + Len(c)
        /\ \A i \in 1 .. Len(front) + Len(c) :
             s[i] = IF i <= Len(front) THEN front[i] ELSE c[i - Len(front)]
    BY <1>1, ConcatProperties, Zenon
  <2> HIDE DEF s
  <2> QED BY <1>1, <2>1, Zenon
<1> HIDE DEF s
<1>3. DOMAIN s = 1 .. k + 6
  <2>1. DOMAIN s = 1 .. Len(s)
    BY <1>2, LenProperties
  <2>2. 4 + k + 2 = k + 6
    BY <1>8
  <2> QED BY <1>2, <2>1, <2>2
<1>4. \A i \in 1 .. 4 : s[i] = a[i]
  <2>1. \A i \in 1 .. 4 : i \in 1 .. 4 + k /\ i \in 1 .. 4 + k + 2 /\ i <= 4 /\ i <= 4 + k
    BY <1>8
  <2> QED BY <1>1, <1>2, <2>1
<1>5. \A n \in 1 .. k : s[n + 4] = b[n]
  <2>1. \A n \in 1 .. k : /\ n + 4 \in 1 .. 4 + k /\ n + 4 \in 1 .. 4 + k + 2
                          /\ ~(n + 4 <= 4) /\ n + 4 <= 4 + k /\ (n + 4) - 4 = n
    BY <1>8
  <2> QED BY <1>1, <1>2, <2>1
<1>6. s[k + 5] = c[1] /\ s[k + 6] = c[2]
  <2>1. /\ k + 5 \in 1 .. 4 + k + 2 /\ ~(k + 5 <= 4 + k) /\ (k + 5) - (4 + k) = 1
        /\ k + 6 \in 1 .. 4 + k + 2 /\ ~(k + 6 <= 4 + k) /\ (k + 6) - (4 + k) = 2
    BY <1>8
  <2> QED BY <1>2, <2>1
<1>7. 1 \in 1 .. 4 /\ 2 \in 1 .. 4 /\ 3 \in 1 .. 4 /\ 4 \in 1 .. 4
  OBVIOUS
<1> QED BY <1>3, <1>4, <1>5, <1>6, <1>7 DEF Joined

\* guard_frame_pack puts a frame's parts there.
LEMMA FrameBytes ==
  ASSUME NEW f \in Bodied
  PROVE  Layout(f, Len(f.payload))
<1> DEFINE L == Len(f.payload)
           body == Covered(f)
           head == <<MagicH, MagicL, Version, f.type>>
           tail == LowHigh(Crc(body))
<1>1. /\ f.type \in {CMD, REPLY} /\ f.payload \in Seq(Bytes) /\ L \in 1 .. MaxPayload
      /\ MaxPayload \in 1 .. MaxWord
  <2>1. /\ f.type \in {CMD, REPLY} /\ f.payload \in Seq(Bytes) /\ f.payload # <<>>
        /\ L \in 0 .. MaxPayload /\ MaxPayload \in 1 .. MaxWord
    BY FramesAssumption, MaxPayloadAssumption DEF Bodied
  <2>2. L # 0
    BY <2>1, EmptySeq
  <2> HIDE DEF L
  <2> QED BY <2>1, <2>2
<1>2. L \in Nat /\ L >= 1 /\ L <= MaxPayload /\ L \in Words
  <2>1. MaxWord \in Nat
    BY DEF MaxWord
  <2> HIDE DEF L
  <2> QED BY <1>1, <2>1 DEF Words
<1> DEFINE front == LowHigh(L)
<1>3. front \in Seq(Bytes) /\ Len(front) = 2
  BY <1>2, LowHighType DEF LowHigh
<1>4. body = front \o f.payload
  BY DEF Covered
<1> HIDE DEF L, body, front
<1>5. /\ body \in Seq(Bytes) /\ Len(body) = 2 + L
      /\ \A i \in 1 .. 2 + L : body[i] = IF i <= 2 THEN front[i] ELSE f.payload[i - 2]
  <2> DEFINE both == front \o f.payload
  <2>1. /\ both \in Seq(Bytes) /\ Len(both) = Len(front) + Len(f.payload)
        /\ \A i \in 1 .. Len(front) + Len(f.payload) :
             both[i] = IF i <= Len(front) THEN front[i] ELSE f.payload[i - Len(front)]
    <3> DEFINE q == f.payload
    <3>1. q \in Seq(Bytes)
      BY <1>1
    <3> HIDE DEF q
    <3>2. /\ front \o q \in Seq(Bytes) /\ Len(front \o q) = Len(front) + Len(q)
          /\ \A i \in 1 .. Len(front) + Len(q) :
               (front \o q)[i] = IF i <= Len(front) THEN front[i] ELSE q[i - Len(front)]
      BY <1>3, <3>1, ConcatProperties, Zenon
    <3> QED BY <3>2 DEF q
  <2>2. body = both
    BY <1>4
  <2> HIDE DEF both
  <2> QED BY <1>3, <2>1, <2>2, Zenon DEF L
<1>6. body[1] = front[1] /\ body[2] = front[2]
  <2>1. 1 \in 1 .. 2 + L /\ 2 \in 1 .. 2 + L
    BY <1>2
  <2> QED BY <1>3, <1>5, <2>1
<1>7. head \in Seq(Bytes) /\ Len(head) = 4
      /\ head[1] = MagicH /\ head[2] = MagicL /\ head[3] = Version /\ head[4] = f.type
  <2>1. f.type \in Bytes /\ MagicH \in Bytes /\ MagicL \in Bytes /\ Version \in Bytes
    BY <1>1, Widths DEF CMD, REPLY, MagicH, MagicL, Version
  <2> QED BY <2>1
<1>8. tail \in Seq(Bytes) /\ Len(tail) = 2
  <2>1. Crc(body) \in Words
    BY <1>5, CrcIsWord
  <2> QED BY <2>1, LowHighType DEF LowHigh
<1>9. Packed[f] = head \o body \o tail
  <2>1. f \in Frames
    BY DEF Bodied
  <2> QED BY <2>1 DEF Packed, Pack, Covered, body
<1> HIDE DEF head, tail
<1>10. L + 2 \in Nat /\ Len(body) = L + 2
  BY <1>2, <1>5
<1> DEFINE P == Packed[f]
           k == L + 2
<1>11. k \in Nat /\ Len(body) = k /\ P = head \o body \o tail
  BY <1>9, <1>10
<1> HIDE DEF P, k
<1>12. /\ DOMAIN P = 1 .. k + 6
       /\ P[1] = head[1] /\ P[2] = head[2] /\ P[3] = head[3] /\ P[4] = head[4]
       /\ \A n \in 1 .. k : P[n + 4] = body[n]
       /\ P[k + 5] = tail[1] /\ P[k + 6] = tail[2]
  <2>1. /\ head \in Seq(Bytes) /\ body \in Seq(Bytes) /\ tail \in Seq(Bytes)
        /\ Len(head) = 4 /\ Len(tail) = 2
    BY <1>5, <1>7, <1>8
  <2>2. Joined(head, body, tail, Len(body), head \o body \o tail)
    BY <2>1, ThreeParts, Zenon
  <2>3. Joined(head, body, tail, k, P)
    BY <1>11, <2>2, Zenon
  <2> QED BY <2>3, Zenon DEF Joined
<1>13. k + 5 = L + 7 /\ k + 6 = L + 8 /\ 1 \in 1 .. k /\ 2 \in 1 .. k /\ 1 + 4 = 5 /\ 2 + 4 = 6
  BY <1>2 DEF k
<1>14. P[5] = front[1] /\ P[6] = front[2]
  <2>1. P[1 + 4] = body[1] /\ P[2 + 4] = body[2]
    BY <1>12, <1>13
  <2>2. P[5] = body[1] /\ P[6] = body[2]
    BY <1>13, <2>1
  <2> QED BY <1>6, <2>2
<1>15. /\ DOMAIN P = 1 .. L + 8
       /\ P[L + 7] = tail[1] /\ P[L + 8] = tail[2]
  BY <1>12, <1>13
<1>16. /\ P[1] = MagicH /\ P[2] = MagicL /\ P[3] = Version
       /\ P[4] = f.type /\ f.type \in {CMD, REPLY}
  BY <1>1, <1>7, <1>12
<1>17. \A n \in 1 .. L + 2 : P[n + 4] = body[n]
  BY <1>12 DEF k
<1>18. \A n \in 1 .. L : P[n + 6] = f.payload[n]
  <2>1. \A n \in 1 .. L : /\ n + 2 \in 1 .. L + 2 /\ n + 2 \in 1 .. 2 + L /\ ~(n + 2 <= 2)
                          /\ (n + 2) - 2 = n /\ (n + 2) + 4 = n + 6
    BY <1>2
  <2> QED BY <1>5, <1>17, <2>1
<1>19. Layout(f, L)
  <2> HIDE DEF P
  <2> QED BY <1>2, <1>5, <1>10, <1>14, <1>15, <1>16, <1>17, <1>18, Zenon DEF Layout, P, body, front, tail
<1> QED BY <1>19 DEF L

\* The register after each byte that the CRC covers, from the bytes of the frame.
LEMMA FrameRegister ==
  ASSUME NEW f \in Bodied
  PROVE  /\ Register(f, 1) = CrcUpdate(0, Packed[f][5])
         /\ \A n \in 2 .. Len(f.payload) + 2 :
              Register(f, n) = CrcUpdate(Register(f, n - 1), Packed[f][n + 4])
         /\ Register(f, Len(f.payload) + 2) = Crc(Covered(f))
<1> DEFINE L == Len(f.payload)
<1>0. Layout(f, Len(f.payload))
  BY FrameBytes
<1>1. /\ L \in Nat /\ L >= 1
      /\ Covered(f) \in Seq(Bytes) /\ Len(Covered(f)) = L + 2
      /\ \A n \in 1 .. L + 2 : Packed[f][n + 4] = Covered(f)[n]
  BY <1>0, Zenon DEF Layout
<1> HIDE DEF L
<1>2. /\ Register(f, 0) = 0
      /\ \A n \in 1 .. L + 2 : Register(f, n) = CrcUpdate(Register(f, n - 1), Covered(f)[n])
  BY <1>1, CrcLoop DEF Register
<1>3. Register(f, 1) = CrcUpdate(0, Packed[f][5])
  <2>1. 1 \in 1 .. L + 2 /\ 1 - 1 = 0 /\ 1 + 4 = 5
    BY <1>1
  <2> QED BY <1>1, <1>2, <2>1
<1>4. \A n \in 2 .. L + 2 : Register(f, n) = CrcUpdate(Register(f, n - 1), Packed[f][n + 4])
  <2>1. \A n \in 2 .. L + 2 : n \in 1 .. L + 2
    BY <1>1
  <2> QED BY <1>1, <1>2, <2>1
<1>5. Register(f, L + 2) = Crc(Covered(f))
  BY <1>1 DEF Register, Crc
<1> QED BY <1>3, <1>4, <1>5 DEF L

\* The first byte of a frame, met by a searching parser.
LEMMA FeedsFirst ==
  ASSUME NEW f \in Bodied, NEW r \in Parsers, r.state \in {"SYNC0", "SYNC1"}
  PROVE  Fed(FeedByte(r.state, r, Packed[f][1]), f, 1)
<1> DEFINE r2 == FeedByte(r.state, r, Packed[f][1])
<1>0. Layout(f, Len(f.payload))
  BY FrameBytes
<1>1. Packed[f][1] = MagicH /\ Len(f.payload) \in Nat /\ Len(f.payload) >= 1
  BY <1>0, Zenon DEF Layout
<1>2. r2.state = "SYNC1"
  BY <1>1 DEF FeedByte, Sync0, Sync1, Parsers
<1> HIDE DEF r2
<1>3. /\ 1 \notin 6 .. Len(f.payload) + 5
      /\ 1 # Len(f.payload) + 6 /\ 1 # Len(f.payload) + 7 /\ 1 # Len(f.payload) + 8
  BY <1>1
<1>4. Fed(r2, f, 1)
  BY <1>2, <1>3 DEF Fed
<1> QED BY <1>4 DEF r2

\* Each further byte up to the length leads the parser on.
LEMMA FeedsHead ==
  ASSUME NEW f \in Bodied, NEW r \in Parsers, NEW m \in 2 .. 6, Fed(r, f, m - 1)
  PROVE  /\ r.state \notin {"DATA", "CRC1"}
         /\ Fed(FeedByte(r.state, r, Packed[f][m]), f, m)
<1> DEFINE L == Len(f.payload)
           P == Packed[f]
           r2 == FeedByte(r.state, r, P[m])
<1>0. Layout(f, Len(f.payload))
  BY FrameBytes
<1>1. /\ L \in Nat /\ L >= 1 /\ L \in Words /\ L <= MaxPayload
      /\ P[2] = MagicL /\ P[3] = Version /\ P[4] \in {CMD, REPLY}
  BY <1>0, Zenon DEF Layout
<1>2. P[5] = L % 256 /\ P[6] = L \div 256
  <2>1. P[5] = LowHigh(L)[1] /\ P[6] = LowHigh(L)[2]
    BY <1>0, Zenon DEF Layout
  <2> QED BY <2>1 DEF LowHigh
<1>3. Register(f, 1) = CrcUpdate(0, P[5]) /\ Register(f, 2) = CrcUpdate(Register(f, 1), P[6])
  <2>1. 2 \in 2 .. L + 2 /\ 2 - 1 = 1 /\ 2 + 4 = 6
    BY <1>1
  <2> QED BY <2>1, FrameRegister
<1> HIDE DEF L, P
<1>4. m \in {2, 3, 4, 5, 6}
  OBVIOUS
<1>5. ASSUME NEW q, m = 2, r.state = "SYNC1", q = FeedByte(r.state, r, P[2])
      PROVE  q.state = "VER"
  BY <1>1, <1>5 DEF FeedByte, Sync1, Parsers, MagicH, MagicL
<1>6. ASSUME NEW q, m = 3, r.state = "VER", q = FeedByte(r.state, r, P[3])
      PROVE  q.state = "TYPE"
  BY <1>1, <1>6 DEF FeedByte, Ver, Parsers
<1>7. ASSUME NEW q, m = 4, r.state = "TYPE", q = FeedByte(r.state, r, P[4])
      PROVE  q.state = "LEN0"
  BY <1>1, <1>7 DEF FeedByte, Type, Parsers
<1>8. ASSUME NEW q, m = 5, r.state = "LEN0", q = FeedByte(r.state, r, P[5])
      PROVE  q.state = "LEN1" /\ q.len = L % 256 /\ q.crc = Register(f, 1)
  BY <1>2, <1>3, <1>8 DEF FeedByte, Len0, Parsers
<1>9. ASSUME NEW q, m = 6, r.state = "LEN1", r.len = L % 256, r.crc = Register(f, 1),
             q = FeedByte(r.state, r, P[6])
      PROVE  q.state = "DATA" /\ q.len = L /\ Len(q.payload) = 0 /\ q.crc = Register(f, 2)
  <2>1. r.len + 256 * P[6] = L
    <3>1. (L % 256) + 256 * (L \div 256) = L
      BY <1>1
    <3> QED BY <1>2, <1>9, <3>1
  <2>2. ~(L > MaxPayload)
    BY <1>1, MaxPayloadAssumption
  <2> DEFINE next == [r EXCEPT !.len = L, !.crc = CrcUpdate(@, P[6])]
  <2>3. q = [next EXCEPT !.payload = <<>>, !.state = "DATA"]
    BY <1>9, <2>1, <2>2 DEF FeedByte, Len1
  <2>4. next \in [state : ParserStates, type : Bytes, len : {L}, crc : {CrcUpdate(r.crc, P[6])},
                  crcRx : Words, payload : Seq(Bytes)]
    BY DEF Parsers
  <2>5. q.state = "DATA" /\ q.len = L /\ q.payload = <<>> /\ q.crc = CrcUpdate(r.crc, P[6])
    <3> HIDE DEF next
    <3> QED BY <2>3, <2>4
  <2> QED BY <1>3, <1>9, <2>5
<1>10. CASE m = 2
  <2>1. r.state = "SYNC1"
    BY <1>10 DEF Fed
  <2>2. r2.state = "VER"
    BY <1>5, <1>10, <2>1
  <2> HIDE DEF r2
  <2>3. Fed(r2, f, 2)
    BY <1>1, <2>2 DEF Fed, L
  <2> QED BY <1>10, <2>1, <2>3 DEF r2, P
<1>11. CASE m = 3
  <2>1. r.state = "VER"
    BY <1>11 DEF Fed
  <2>2. r2.state = "TYPE"
    BY <1>6, <1>11, <2>1
  <2> HIDE DEF r2
  <2>3. Fed(r2, f, 3)
    BY <1>1, <2>2 DEF Fed, L
  <2> QED BY <1>11, <2>1, <2>3 DEF r2, P
<1>12. CASE m = 4
  <2>1. r.state = "TYPE"
    BY <1>12 DEF Fed
  <2>2. r2.state = "LEN0"
    BY <1>7, <1>12, <2>1
  <2> HIDE DEF r2
  <2>3. Fed(r2, f, 4)
    BY <1>1, <2>2 DEF Fed, L
  <2> QED BY <1>12, <2>1, <2>3 DEF r2, P
<1>13. CASE m = 5
  <2>1. r.state = "LEN0"
    BY <1>13 DEF Fed
  <2>2. r2.state = "LEN1" /\ r2.len = L % 256 /\ r2.crc = Register(f, 1)
    BY <1>8, <1>13, <2>1
  <2> HIDE DEF r2
  <2>3. Fed(r2, f, 5)
    BY <1>1, <2>2 DEF Fed, L
  <2> QED BY <1>13, <2>1, <2>3 DEF r2, P
<1>14. CASE m = 6
  <2>1. r.state = "LEN1" /\ r.len = L % 256 /\ r.crc = Register(f, 1)
    <3>1. m - 1 = 5
      BY <1>14
    <3>2. Fed(r, f, 5)
      BY <3>1
    <3> QED BY <3>2 DEF Fed, L
  <2>2. r2.state = "DATA" /\ r2.len = L /\ Len(r2.payload) = 0 /\ r2.crc = Register(f, 2)
    BY <1>9, <1>14, <2>1
  <2> HIDE DEF r2
  <2>3. Fed(r2, f, 6)
    BY <1>1, <2>2 DEF Fed, L
  <2> QED BY <1>14, <2>1, <2>3 DEF r2, P
<1> QED BY <1>4, <1>10, <1>11, <1>12, <1>13, <1>14

\* A byte of the payload is stored.
LEMMA FeedsPayload ==
  ASSUME NEW f \in Bodied, NEW r \in Parsers, NEW m \in 7 .. Len(f.payload) + 6,
         Fed(r, f, m - 1)
  PROVE  r.state = "DATA" /\ Storing(FeedByte(r.state, r, Packed[f][m]), f, m)
<1> DEFINE L == Len(f.payload)
           b == Packed[f][m]
           r2 == FeedByte(r.state, r, b)
<1>0. Layout(f, Len(f.payload))
  BY FrameBytes
<1>1. L \in Nat /\ L >= 1
  BY <1>0, Zenon DEF Layout
<1>2. /\ m - 1 \in 6 .. L + 5 /\ m - 4 \in 2 .. L + 2 /\ m - 4 - 1 = (m - 1) - 4
      /\ (m - 4) + 4 = m /\ ((m - 1) - 6) + 1 = m - 6 /\ m \in 1 .. L + 8
  BY <1>1
<1>3. r.state = "DATA" /\ r.len = L /\ Len(r.payload) = (m - 1) - 6 /\ r.crc = Register(f, (m - 1) - 4)
  BY <1>2 DEF Fed
<1>4. Register(f, m - 4) = CrcUpdate(r.crc, b)
  BY <1>2, <1>3, FrameRegister
<1>5. r.payload \in Seq(Bytes)
  BY DEF Parsers
<1>6. Len(Append(r.payload, b)) = m - 6
  <2>1. \A s \in Seq(Bytes) : Len(Append(s, b)) = Len(s) + 1
    OBVIOUS
  <2> QED BY <1>2, <1>3, <1>5, <2>1
<1>7. r2 = [r EXCEPT !.payload = Append(@, b), !.crc = CrcUpdate(@, b)]
  BY <1>3 DEF FeedByte, Data
<1> HIDE DEF r2
<1>8. r2.state = "DATA" /\ r2.len = L /\ r2.payload = Append(r.payload, b) /\ r2.crc = CrcUpdate(r.crc, b)
  BY <1>3, <1>7 DEF Parsers
<1>9. Storing(r2, f, m)
  BY <1>4, <1>6, <1>8 DEF Storing
<1> QED BY <1>3, <1>9 DEF r2

\* The test after it finds the last byte.
LEMMA StoredOn ==
  ASSUME NEW f \in Bodied, NEW r \in Parsers, NEW m, Storing(r, f, m)
  PROVE  Fed(DataDone(r), f, m)
<1> DEFINE L == Len(f.payload)
           r2 == DataDone(r)
<1>0. Layout(f, Len(f.payload))
  BY FrameBytes
<1>1. L \in Nat /\ L >= 1
  BY <1>0, Zenon DEF Layout
<1>2. /\ m \in 7 .. L + 6 /\ r.state = "DATA" /\ r.len = L /\ Len(r.payload) = m - 6
      /\ r.crc = Register(f, m - 4)
  BY DEF Storing
<1>3. CASE m = L + 6
  <2>1. r2.state = "CRC0" /\ r2.crc = r.crc
    BY <1>1, <1>2, <1>3 DEF DataDone, Parsers
  <2>2. m - 4 = L + 2
    BY <1>1, <1>3
  <2>3. r2.crc = Crc(Covered(f))
    BY <1>2, <2>1, <2>2, FrameRegister
  <2> HIDE DEF r2
  <2>4. /\ m \notin {1, 2, 3, 4, 5} /\ m \notin 6 .. L + 5 /\ m # L + 7 /\ m # L + 8
    BY <1>1, <1>3
  <2>5. Fed(r2, f, m)
    BY <2>1, <2>3, <2>4 DEF Fed
  <2> QED BY <2>5 DEF r2
<1>4. CASE m # L + 6
  <2>1. r2 = r
    BY <1>1, <1>2, <1>4 DEF DataDone
  <2>2. /\ m \notin {1, 2, 3, 4, 5} /\ m # L + 7 /\ m # L + 8
    BY <1>1, <1>2
  <2> QED BY <1>2, <1>4, <2>1, <2>2 DEF Fed
<1> QED BY <1>3, <1>4

\* The two bytes of the CRC.
LEMMA FeedsCrc ==
  ASSUME NEW f \in Bodied, NEW r \in Parsers
  PROVE  LET L == Len(f.payload)
             low == FeedByte(r.state, r, Packed[f][L + 7])
             high == FeedByte(r.state, r, Packed[f][L + 8])
         IN  /\ Fed(r, f, L + 6) => r.state = "CRC0" /\ Fed(low, f, L + 7)
             /\ Fed(r, f, L + 7) => r.state = "CRC1" /\ CrcHolds(high) /\ high.state = "SYNC0"
<1> DEFINE L == Len(f.payload)
           c == Crc(Covered(f))
           low == FeedByte(r.state, r, Packed[f][L + 7])
           high == FeedByte(r.state, r, Packed[f][L + 8])
<1>0. Layout(f, Len(f.payload))
  BY FrameBytes
<1>1. /\ L \in Nat /\ L >= 1 /\ Covered(f) \in Seq(Bytes)
      /\ Packed[f][L + 7] = c % 256 /\ Packed[f][L + 8] = c \div 256
  <2>1. /\ L \in Nat /\ L >= 1 /\ Covered(f) \in Seq(Bytes)
        /\ Packed[f][L + 7] = LowHigh(c)[1] /\ Packed[f][L + 8] = LowHigh(c)[2]
    BY <1>0, Zenon DEF Layout
  <2> QED BY <2>1 DEF LowHigh
<1>2. c \in Nat /\ (c % 256) + 256 * (c \div 256) = c
  <2>1. c \in Nat
    BY <1>1, CrcIsWord, Widths
  <2> HIDE DEF c
  <2> QED BY <2>1
<1> HIDE DEF c, L
<1>3. ASSUME Fed(r, f, L + 6) PROVE r.state = "CRC0" /\ Fed(low, f, L + 7)
  <2>1. r.state = "CRC0" /\ r.crc = c
    BY <1>3 DEF Fed, L, c
  <2>2. low = [r EXCEPT !.crcRx = c % 256, !.state = "CRC1"]
    BY <1>1, <2>1 DEF FeedByte, Crc0
  <2>3. low.state = "CRC1" /\ low.crc = c /\ low.crcRx = c % 256
    BY <2>1, <2>2 DEF Parsers
  <2> HIDE DEF low
  <2>4. /\ L + 7 \notin {1, 2, 3, 4, 5} /\ L + 7 \notin 6 .. L + 5
        /\ L + 7 # L + 6 /\ L + 7 # L + 8
    BY <1>1
  <2>5. Fed(low, f, L + 7)
    BY <2>3, <2>4 DEF Fed, L, c
  <2> QED BY <2>1, <2>5
<1>4. ASSUME Fed(r, f, L + 7) PROVE r.state = "CRC1" /\ CrcHolds(high) /\ high.state = "SYNC0"
  <2>1. r.state = "CRC1" /\ r.crc = c /\ r.crcRx = c % 256
    BY <1>4 DEF Fed, L, c
  <2>2. high = [r EXCEPT !.crcRx = @ + 256 * (c \div 256), !.state = "SYNC0"]
    BY <1>1, <2>1 DEF FeedByte, Crc1
  <2> HIDE DEF high
  <2>3. high.state = "SYNC0" /\ high.crc = c /\ high.crcRx = (c % 256) + 256 * (c \div 256)
    <3> DEFINE d == c \div 256
    <3>1. high = [r EXCEPT !.crcRx = @ + 256 * d, !.state = "SYNC0"]
      BY <2>2
    <3> HIDE DEF d
    <3>2. high.state = "SYNC0" /\ high.crc = r.crc /\ high.crcRx = r.crcRx + 256 * d
      BY <3>1 DEF Parsers
    <3> QED BY <2>1, <3>2 DEF d
  <2> QED BY <1>2, <2>1, <2>3 DEF CrcHolds
<1> QED BY <1>3, <1>4 DEF L

\* A frame more does not take away those before it.
LEMMA SentStays ==
  ASSUME NEW s \in Seq(Frames), NEW f \in Frames
  PROVE  /\ DOMAIN s \subseteq DOMAIN Append(s, f)
         /\ \A i \in DOMAIN s : Append(s, f)[i] = s[i]
         /\ Append(s, f)[Len(s) + 1] = f /\ Len(s) + 1 \in DOMAIN Append(s, f)
         /\ Len(Append(s, f)) = Len(s) + 1
<1>1. /\ Append(s, f) \in Seq(Frames) /\ Len(Append(s, f)) = Len(s) + 1
      /\ \A i \in 1 .. Len(s) : Append(s, f)[i] = s[i]
      /\ Append(s, f)[Len(s) + 1] = f
  BY AppendProperties
<1>2. Len(s) \in Nat /\ DOMAIN s = 1 .. Len(s) /\ DOMAIN Append(s, f) = 1 .. Len(s) + 1
  BY <1>1, LenProperties
<1> QED BY <1>1, <1>2

\* A byte of a frame that was sent stays one.
LEMMA GenuineStays ==
  ASSUME NEW s \in Seq(Frames), NEW f \in Frames, NEW q, AllGenuine(q, s)
  PROVE  AllGenuine(q, Append(s, f))
<1>1. ASSUME NEW b, Genuine(b, s) PROVE Genuine(b, Append(s, f))
  BY <1>1, SentStays DEF Genuine
<1> QED BY <1>1 DEF AllGenuine

\* Two lists of such bytes make one.
LEMMA GenuineJoin ==
  ASSUME NEW p \in Seq(LineBytes), NEW q \in Seq(LineBytes), NEW s,
         AllGenuine(p, s), AllGenuine(q, s)
  PROVE  AllGenuine(p \o q, s)
<1>1. /\ p \o q \in Seq(LineBytes) /\ Len(p \o q) = Len(p) + Len(q)
      /\ \A i \in 1 .. Len(p) + Len(q) :
           (p \o q)[i] = IF i <= Len(p) THEN p[i] ELSE q[i - Len(p)]
  BY ConcatProperties, Zenon
<1> DEFINE pq == p \o q
           m == Len(p)
           n == Len(q)
<1>2. /\ m \in Nat /\ n \in Nat /\ DOMAIN p = 1 .. m /\ DOMAIN q = 1 .. n
      /\ DOMAIN pq = 1 .. m + n
  BY <1>1, LenProperties
<1>3. \A i \in 1 .. m + n : pq[i] = IF i <= m THEN p[i] ELSE q[i - m]
  BY <1>1
<1> HIDE DEF pq, m, n
<1>4. ASSUME NEW i \in 1 .. m + n PROVE Genuine(pq[i], s)
  <2>1. CASE i <= m
    <3>1. i \in 1 .. m
      BY <1>2, <2>1
    <3> QED BY <1>2, <1>3, <2>1, <3>1 DEF AllGenuine
  <2>2. CASE ~(i <= m)
    <3>1. i - m \in 1 .. n
      BY <1>2, <2>2
    <3> QED BY <1>2, <1>3, <2>2, <3>1 DEF AllGenuine
  <2> QED BY <2>1, <2>2
<1>5. AllGenuine(pq, s)
  BY <1>2, <1>4 DEF AllGenuine
<1> QED BY <1>5 DEF pq

\* A part of such a list is one.
LEMMA GenuinePart ==
  ASSUME NEW q \in Seq(LineBytes), NEW s, AllGenuine(q, s), q # <<>>
  PROVE  /\ AllGenuine(Tail(q), s) /\ Genuine(Head(q), s)
         /\ \A n \in 1 .. Len(q) : /\ AllGenuine(SubSeq(q, 1, n), s)
                                   /\ AllGenuine(SubSeq(q, n + 1, Len(q)), s)
<1> DEFINE k == Len(q)
<1>1. k \in Nat /\ k >= 1 /\ DOMAIN q = 1 .. k
  <2>1. k \in Nat /\ DOMAIN q = 1 .. k
    BY LenProperties
  <2>2. k # 0
    BY EmptySeq
  <2> QED BY <2>1, <2>2
<1>2. ASSUME NEW a \in 1 .. k + 1, NEW z \in a - 1 .. k
      PROVE  AllGenuine(SubSeq(q, a, z), s)
  <2> DEFINE p == SubSeq(q, a, z)
  <2>0. a \in Int /\ z \in Int /\ \A i \in a .. z : q[i] \in LineBytes
    <3>1. a \in Int /\ z \in Int /\ \A i \in a .. z : i \in 1 .. k
      BY <1>1
    <3> QED BY <3>1, ElementOfSeq
  <2>1. /\ p \in Seq(LineBytes) /\ Len(p) = z - a + 1
        /\ \A i \in 1 .. z - a + 1 : p[i] = q[a + i - 1]
    <3>1. /\ p \in Seq(LineBytes) /\ Len(p) = IF a <= z THEN z - a + 1 ELSE 0
          /\ \A i \in 1 .. z - a + 1 : p[i] = q[a + i - 1]
      BY <2>0, SubSeqProperties
    <3> HIDE DEF p
    <3> QED BY <1>1, <3>1
  <2>2. DOMAIN p = 1 .. z - a + 1
    BY <2>1, LenProperties
  <2>3. \A i \in 1 .. z - a + 1 : a + i - 1 \in 1 .. k
    BY <1>1
  <2> HIDE DEF p, k
  <2>4. AllGenuine(p, s)
    BY <1>1, <2>1, <2>2, <2>3 DEF AllGenuine
  <2> QED BY <2>4 DEF p
<1>3. AllGenuine(Tail(q), s)
  <2> DEFINE p == Tail(q)
  <2>1. /\ p \in Seq(LineBytes) /\ Len(p) = k - 1
        /\ \A i \in 1 .. Len(p) : p[i] = q[i + 1]
    BY HeadTailProperties
  <2>2. DOMAIN p = 1 .. k - 1 /\ \A i \in 1 .. k - 1 : i + 1 \in 1 .. k
    BY <1>1, <2>1, LenProperties
  <2> HIDE DEF p, k
  <2>3. AllGenuine(p, s)
    BY <1>1, <2>1, <2>2 DEF AllGenuine
  <2> QED BY <2>3 DEF p
<1>4. Genuine(Head(q), s)
  <2>1. Head(q) = q[1]
    BY HeadTailProperties
  <2>2. 1 \in DOMAIN q
    BY <1>1
  <2> QED BY <2>1, <2>2 DEF AllGenuine
<1>5. ASSUME NEW n \in 1 .. k
      PROVE  AllGenuine(SubSeq(q, 1, n), s) /\ AllGenuine(SubSeq(q, n + 1, k), s)
  <2>1. 1 \in 1 .. k + 1 /\ n \in 1 - 1 .. k /\ n + 1 \in 1 .. k + 1 /\ k \in (n + 1) - 1 .. k
    BY <1>1
  <2> QED BY <1>2, <2>1
<1> QED BY <1>3, <1>4, <1>5

\* The bytes of a frame the host has just sent.
LEMMA GenuineWire ==
  ASSUME NEW s \in Seq(Frames), NEW f \in Frames, NEW n, n = Len(s) + 1
  PROVE  AllGenuine([i \in DOMAIN Packed[f] |-> [val |-> Packed[f][i], of |-> n, pos |-> i]],
                    Append(s, f))
<1> DEFINE s2 == Append(s, f)
           P == Packed[f]
<1>1. n \in DOMAIN s2 /\ s2[n] = f /\ n # 0
  <2>1. Len(s) \in Nat
    BY LenProperties
  <2> QED BY <2>1, SentStays
<1> HIDE DEF s2
<1>2. ASSUME NEW i \in DOMAIN P PROVE Genuine([val |-> P[i], of |-> n, pos |-> i], s2)
  BY <1>1, <1>2 DEF Genuine
<1> DEFINE wire == [i \in DOMAIN P |-> [val |-> P[i], of |-> n, pos |-> i]]
<1>3. \A i \in DOMAIN wire : Genuine(wire[i], s2)
  BY <1>2
<1> QED BY <1>3 DEF AllGenuine, s2, P

\* Steps outside the parser's code keep how far it has followed.
LEMMA FollowsOutside ==
  ASSUME NEW u, NEW v, NEW r, NEW run, NEW s,
         Follows(u, r, run, s), u.pc \notin InParser, v.pc \notin InParser
  PROVE  Follows(v, r, run, s)
BY DEF Follows, FollowsFrame, InParser

\* One frame more does not change it.
LEMMA FollowsOn ==
  ASSUME NEW u, NEW r, NEW run, NEW s \in Seq(Frames), NEW f \in Frames, Follows(u, r, run, s)
  PROVE  Follows(u, r, run, Append(s, f))
BY SentStays DEF Follows

\* What the UART task does after the switch.
AfterBody(u) ==
  IF u.st = "DATA" THEN [u EXCEPT !.pc = "dataDone"]
  ELSE IF u.st = "CRC1" THEN [u EXCEPT !.pc = "compare"] ELSE NextByte(u)

\* The switch takes the parser one byte further along the frame, and to the
\* comparison of the CRCs on its last.
LEMMA BodyFollows ==
  ASSUME NEW u \in Uarts, u.pc = "body", u.chunk # <<>>, NEW r \in Parsers,
         NEW f \in Bodied, NEW m, FollowsFrame(u, r, f, m)
  PROVE  /\ FollowsFrame(AfterBody(u), FeedByte(u.st, r, Head(u.chunk).val), f, m)
         /\ m = Len(f.payload) + 8 => AfterBody(u).pc = "compare"
<1> DEFINE L == Len(f.payload)
           v == AfterBody(u)
           q == FeedByte(u.st, r, Head(u.chunk).val)
<1>1. /\ m \in 1 .. L + 8 /\ u.st = r.state /\ Head(u.chunk).val = Packed[f][m]
      /\ m = 1 => r.state \in {"SYNC0", "SYNC1"}
      /\ m # 1 => Fed(r, f, m - 1)
  BY DEF FollowsFrame
<1>2. L \in Nat /\ L >= 1
  <2>1. Layout(f, Len(f.payload))
    BY FrameBytes
  <2> QED BY <2>1, Zenon DEF Layout
<1>3. q = FeedByte(r.state, r, Packed[f][m])
  BY <1>1
<1>4. /\ r.state = "DATA" => v.pc = "dataDone"
      /\ r.state = "CRC1" => v.pc = "compare"
      /\ r.state \notin {"DATA", "CRC1"} => v.pc \in {"fetch", "stampByte"}
  <2>1. u.chunk \in Seq(LineBytes)
    BY DEF Uarts
  <2>2. NextByte(u).pc \in {"fetch", "stampByte"}
    BY <2>1, NextByteType
  <2> QED BY <1>1, <2>2 DEF AfterBody, Uarts
<1> HIDE DEF L, v, q
<1>5. ASSUME v.pc \in {"fetch", "stampByte"}, Fed(q, f, m)
      PROVE  FollowsFrame(v, q, f, m)
  BY <1>1, <1>5 DEF FollowsFrame, InParser, L
<1>6. CASE m = 1
  <2>1. Fed(q, f, 1)
    BY <1>1, <1>3, <1>6, FeedsFirst
  <2>2. r.state \notin {"DATA", "CRC1"}
    BY <1>1, <1>6
  <2> QED BY <1>2, <1>4, <1>5, <1>6, <2>1, <2>2 DEF v, q, L
<1>7. CASE m \in 2 .. 6
  <2>1. Fed(r, f, m - 1)
    BY <1>1, <1>7
  <2>2. r.state \notin {"DATA", "CRC1"} /\ Fed(q, f, m)
    BY <1>3, <1>7, <2>1, FeedsHead
  <2>3. m # L + 8
    BY <1>2, <1>7
  <2> QED BY <1>4, <1>5, <2>2, <2>3 DEF v, q, L
<1>8. CASE m \in 7 .. L + 6
  <2>1. Fed(r, f, m - 1)
    BY <1>1, <1>8
  <2>2. r.state = "DATA" /\ Storing(q, f, m)
    BY <1>3, <1>8, <2>1, FeedsPayload DEF L
  <2>3. m # L + 8
    BY <1>2, <1>8
  <2>4. FollowsFrame(v, q, f, m)
    BY <1>1, <1>4, <2>2 DEF FollowsFrame, InParser, L
  <2> QED BY <2>3, <2>4 DEF v, q, L
<1>9. CASE m = L + 7
  <2>1. m - 1 = L + 6 /\ m # 1 /\ m # L + 8
    BY <1>2, <1>9
  <2>2. Fed(r, f, L + 6)
    BY <1>1, <2>1
  <2>3. q = FeedByte(r.state, r, Packed[f][L + 7])
    BY <1>3, <1>9
  <2>4. r.state = "CRC0" /\ Fed(q, f, L + 7)
    BY <2>2, <2>3, FeedsCrc DEF L
  <2> QED BY <1>4, <1>5, <1>9, <2>1, <2>4 DEF v, q, L
<1>10. CASE m = L + 8
  <2>1. m - 1 = L + 7 /\ m # 1
    BY <1>2, <1>10
  <2>2. Fed(r, f, L + 7)
    BY <1>1, <2>1
  <2>3. q = FeedByte(r.state, r, Packed[f][L + 8])
    BY <1>3, <1>10
  <2>4. r.state = "CRC1" /\ CrcHolds(q) /\ q.state = "SYNC0"
    BY <2>2, <2>3, FeedsCrc DEF L
  <2>5. FollowsFrame(v, q, f, m)
    BY <1>1, <1>4, <1>10, <2>4 DEF FollowsFrame, InParser, L
  <2> QED BY <1>4, <2>4, <2>5 DEF v, q, L
<1>11. m = 1 \/ m \in 2 .. 6 \/ m \in 7 .. L + 6 \/ m = L + 7 \/ m = L + 8
  BY <1>1, <1>2 DEF L
<1> QED BY <1>6, <1>7, <1>8, <1>9, <1>10, <1>11

\* The test whether a payload is complete, and the acceptance of a frame, come out
\* of the parser's code in step with the frame.
LEMMA TestFollows ==
  ASSUME NEW u, NEW v, NEW r \in Parsers, NEW f \in Bodied, NEW m, FollowsFrame(u, r, f, m),
         v.pc \notin InParser
  PROVE  /\ u.pc = "dataDone" => FollowsFrame(v, DataDone(r), f, m) /\ m # Len(f.payload) + 8
         /\ u.pc = "compare" => FollowsFrame(v, r, f, m) /\ CrcHolds(r)
<1> DEFINE L == Len(f.payload)
<1>1. L \in Nat /\ L >= 1
  <2>1. Layout(f, Len(f.payload))
    BY FrameBytes
  <2> QED BY <2>1, Zenon DEF Layout
<1>2. m \in 1 .. L + 8
  BY DEF FollowsFrame
<1>3. ASSUME NEW q, Fed(q, f, m) PROVE FollowsFrame(v, q, f, m)
  BY <1>2, <1>3 DEF FollowsFrame, InParser
<1>4. ASSUME u.pc = "dataDone" PROVE FollowsFrame(v, DataDone(r), f, m) /\ m # L + 8
  <2>1. Storing(r, f, m)
    BY <1>4 DEF FollowsFrame
  <2>2. Fed(DataDone(r), f, m)
    BY <2>1, StoredOn
  <2>3. m \in 7 .. L + 6
    BY <2>1 DEF Storing
  <2>4. m # L + 8
    <3> HIDE DEF L
    <3> QED BY <1>1, <2>3
  <2> QED BY <1>3, <2>2, <2>4
<1>5. ASSUME u.pc = "compare" PROVE FollowsFrame(v, r, f, m) /\ CrcHolds(r)
  <2>1. m = L + 8 /\ CrcHolds(r) /\ r.state = "SYNC0"
    BY <1>5 DEF FollowsFrame
  <2>2. /\ m \notin {1, 2, 3, 4, 5} /\ m \notin 6 .. L + 5
        /\ m # L + 6 /\ m # L + 7
    <3> HIDE DEF L
    <3> QED BY <1>1, <2>1
  <2>3. Fed(r, f, m)
    BY <2>1, <2>2 DEF Fed
  <2> QED BY <1>3, <2>1, <2>3
<1> QED BY <1>4, <1>5

-----------------------------------------------------------------------------
\* What the bytes of frames start from.
LEMMA FrameParts ==
  ASSUME TypeInv
  PROVE  /\ sent \in Seq(Frames) /\ line \in Seq(LineBytes) /\ uart \in Uarts
         /\ uart.chunk \in Seq(LineBytes) /\ uart.pc \in UartLabels
         /\ rx \in Parsers /\ ghost \in Ghosts
         /\ Feeding => uart.chunk # <<>>
  BY DEF TypeInv, TypeOK, Places, Uarts

\* An empty line, and a device that has just come up, satisfy it.
LEMMA FrameStart ==
  ASSUME NEW s, NEW u, NEW r, NEW run, run = <<0, 0>>
  PROVE  AllGenuine(<<>>, s) /\ Follows(u, r, run, s)
<1>1. DOMAIN <<>> = {}
  OBVIOUS
<1> QED BY <1>1 DEF AllGenuine, Follows

\* The invariant to begin with.
LEMMA FrameInit == Init => FrameInv
  BY FrameStart DEF Init, FrameInv, Fresh, IdleUart

\* The invariant survives what the environment does: frames sent, bytes lost and
\* bytes inserted.
LEMMA EnvironmentFrames ==
  ASSUME TypeInv, FrameInv, Environment
  PROVE  FrameInv'
<1>1. /\ sent \in Seq(Frames) /\ line \in Seq(LineBytes)
      /\ AllGenuine(line, sent) /\ AllGenuine(uart.chunk, sent)
      /\ Follows(uart, rx, ghost.run, sent)
  BY FrameParts DEF FrameInv
<1>2. UNCHANGED <<uart, rx, ghost>>
  BY DEF Environment, PassTime, Send, LoseByte, InsertByte, device
<1>3. CASE PassTime
  <2>1. line' = line /\ sent' = sent
    BY <1>3 DEF PassTime, device
  <2> QED BY <1>1, <1>2, <2>1 DEF FrameInv
<1>4. ASSUME NEW f \in Frames, Send(f) PROVE FrameInv'
  <2> DEFINE n == Len(sent) + 1
             wire == [i \in DOMAIN Packed[f] |-> [val |-> Packed[f][i], of |-> n, pos |-> i]]
  <2>1. sent' = Append(sent, f) /\ Len(sent') = n
    BY <1>1, <1>4, SentStays DEF Send
  <2>2. line' = line \/ line' = line \o wire
    BY <1>4, <2>1 DEF Send
  <2>3. n \in 1 .. MaxSent
    BY <1>1, <1>4, BoundsAssumption, LenProperties DEF Send
  <2>4. wire \in Seq(LineBytes)
    <3> HIDE DEF n
    <3> QED BY <2>3, WireType
  <2>5. AllGenuine(wire, sent')
    <3>1. n = Len(sent) + 1
      OBVIOUS
    <3> HIDE DEF n
    <3> QED BY <1>1, <2>1, <3>1, GenuineWire
  <2>6. AllGenuine(line, sent') /\ AllGenuine(uart.chunk, sent')
    BY <1>1, <2>1, GenuineStays
  <2>7. Follows(uart, rx, ghost.run, sent')
    BY <1>1, <2>1, FollowsOn
  <2> HIDE DEF wire, n
  <2>8. AllGenuine(line \o wire, sent')
    BY <1>1, <2>4, <2>5, <2>6, GenuineJoin
  <2> QED BY <1>2, <2>2, <2>6, <2>7, <2>8 DEF FrameInv
<1>5. CASE LoseByte
  <2>1. line # <<>> /\ line' = Tail(line) /\ sent' = sent
    BY <1>5 DEF LoseByte
  <2>2. AllGenuine(Tail(line), sent)
    BY <1>1, <2>1, GenuinePart
  <2> QED BY <1>1, <1>2, <2>1, <2>2 DEF FrameInv
<1>6. ASSUME NEW b \in Noise, InsertByte(b) PROVE FrameInv'
  <2> DEFINE byte == [val |-> b, of |-> 0, pos |-> 0]
  <2>1. line' = <<byte>> \o line /\ sent' = sent
    BY <1>6 DEF InsertByte
  <2>2. byte \in LineBytes /\ Genuine(byte, sent)
    <3>1. b \in Bytes /\ 0 \in 0 .. MaxSent /\ 0 \in Nat
      BY NoiseAssumption, BoundsAssumption
    <3> QED BY <3>1 DEF LineBytes, Genuine
  <2> HIDE DEF byte
  <2>3. <<byte>> \in Seq(LineBytes) /\ AllGenuine(<<byte>>, sent)
    <3>1. <<byte>> \in Seq(LineBytes) /\ DOMAIN <<byte>> = {1} /\ <<byte>>[1] = byte
      BY <2>2
    <3> QED BY <2>2, <3>1 DEF AllGenuine
  <2>4. AllGenuine(<<byte>> \o line, sent)
    BY <1>1, <2>3, GenuineJoin
  <2> QED BY <1>1, <1>2, <2>1, <2>4 DEF FrameInv
<1> QED BY <1>3, <1>4, <1>5, <1>6 DEF Environment

\* The main task and a restart forget what the parser followed; the guard task
\* leaves it alone or clears it.
LEMMA ClearedFrames ==
  ASSUME TypeInv, FrameInv, MainTask \/ Panic \/ GuardTask
  PROVE  FrameInv'
<1>1. /\ AllGenuine(line, sent) /\ AllGenuine(uart.chunk, sent)
      /\ Follows(uart, rx, ghost.run, sent) /\ ghost \in Ghosts
  BY FrameParts DEF FrameInv
<1>2. CASE GuardStart
  BY <1>1, <1>2 DEF GuardStart, shared, FrameInv
<1>3. CASE UartInit
  <2>1. UNCHANGED <<line, uart, sent>> /\ ghost'.run = <<0, 0>>
    BY <1>3 DEF UartInit, Fresh
  <2>2. Follows(uart', rx', ghost'.run, sent')
    BY <2>1, FrameStart
  <2> QED BY <1>1, <2>1, <2>2 DEF FrameInv
<1>4. CASE Panic
  <2>1. line' = <<>> /\ uart'.chunk = <<>> /\ ghost'.run = <<0, 0>> /\ sent' = sent
    BY <1>4 DEF Panic, Off, IdleUart, Fresh
  <2>2. Follows(uart', rx', ghost'.run, sent') /\ AllGenuine(<<>>, sent')
    BY <2>1, FrameStart
  <2> QED BY <2>1, <2>2 DEF FrameInv
<1>5. CASE GuardTask
  <2>1. UNCHANGED <<line, uart, sent>>
    BY <1>5 DEF GuardTask, Tick, CheckGap, ResetGap, CheckLoss, Fire, Report, guardOnly
  <2>2. (rx' = rx /\ ghost'.run = ghost.run) \/ ghost'.run = <<0, 0>>
    <3>1. CASE Tick
      BY <1>1, <3>1 DEF Tick, Ghosts
    <3>2. CASE CheckGap
      BY <1>1, <3>2 DEF CheckGap, Ghosts
    <3>3. CASE CheckLoss
      BY <1>1, <3>3 DEF CheckLoss, Ghosts
    <3>4. CASE Fire
      BY <3>4 DEF Fire
    <3>5. CASE ResetGap \/ Report
      BY <1>1, <3>5 DEF ResetGap, Report, ClearParser, Ghosts
    <3> QED BY <1>5, <3>1, <3>2, <3>3, <3>4, <3>5 DEF GuardTask
  <2>3. Follows(uart', rx', ghost'.run, sent')
    BY <1>1, <2>1, <2>2, FrameStart
  <2> QED BY <1>1, <2>1, <2>3 DEF FrameInv
<1> QED BY <1>2, <1>3, <1>4, <1>5 DEF MainTask

\* Steps of the UART task outside the parser's code.
LEMMA OutsideFrames ==
  ASSUME TypeInv, FrameInv, Read \/ Stamp \/ Rearm \/ HandOver \/ StampByte \/ EndChunk
  PROVE  FrameInv'
<1>1. /\ AllGenuine(line, sent) /\ AllGenuine(uart.chunk, sent)
      /\ Follows(uart, rx, ghost.run, sent)
      /\ line \in Seq(LineBytes) /\ uart \in Uarts /\ uart.chunk \in Seq(LineBytes)
  BY FrameParts DEF FrameInv
<1>2. UNCHANGED <<rx, ghost, sent>>
  BY DEF Read, Stamp, Rearm, HandOver, StampByte, EndChunk, uartOnly, shared
<1>3. CASE Read
  <2>1. PICK n \in 1 .. Len(line) :
          /\ uart' = [uart EXCEPT !.pc = "fetch", !.chunk = SubSeq(line, 1, n)]
          /\ line' = SubSeq(line, n + 1, Len(line))
    BY <1>3 DEF Read
  <2>2. line # <<>>
    <3>1. Len(<<>>) = 0
      BY EmptySeq
    <3> QED BY <2>1, <3>1
  <2>3. AllGenuine(line', sent) /\ AllGenuine(SubSeq(line, 1, n), sent)
    BY <1>1, <2>1, <2>2, GenuinePart
  <2>4. uart.pc = "wait" /\ uart'.pc = "fetch" /\ uart'.chunk = SubSeq(line, 1, n)
    BY <1>1, <1>3, <2>1 DEF Read, Uarts
  <2>5. Follows(uart', rx, ghost.run, sent)
    BY <1>1, <2>4, FollowsOutside DEF InParser
  <2> QED BY <1>2, <2>3, <2>4, <2>5 DEF FrameInv
<1>5. CASE HandOver
  <2>1. uart.pc = "handOver" /\ uart' = NextByte(uart) /\ line' = line
    BY <1>5 DEF HandOver
  <2>2. uart.chunk # <<>>
    BY <2>1, FrameParts DEF Feeding
  <2>3. uart'.pc \in {"fetch", "stampByte"}
    BY <1>1, <2>1, <2>2, NextByteType
  <2>4. uart'.chunk = Tail(uart.chunk)
    BY <2>1 DEF NextByte, IdleUart
  <2>5. AllGenuine(uart'.chunk, sent)
    BY <1>1, <2>2, <2>4, GenuinePart
  <2>6. Follows(uart', rx, ghost.run, sent)
    BY <1>1, <2>1, <2>3, FollowsOutside DEF InParser
  <2> QED BY <1>1, <1>2, <2>1, <2>5, <2>6 DEF FrameInv
<1>4. CASE Stamp \/ Rearm \/ StampByte \/ EndChunk
  <2>1. /\ line' = line /\ uart.pc \in {"stamp", "rearm", "stampByte", "endChunk"}
        /\ uart'.pc \in {"rearm", "handOver", "endChunk", "wait"}
        /\ uart'.chunk \in {uart.chunk, <<>>}
    <3>1. CASE Stamp
      BY <1>1, <3>1 DEF Stamp, Uarts
    <3>2. CASE Rearm
      BY <1>1, <3>2 DEF Rearm, Uarts
    <3>3. CASE StampByte
      BY <1>1, <3>3 DEF StampByte, Uarts, shared
    <3>4. CASE EndChunk
      BY <3>4 DEF EndChunk, IdleUart
    <3> QED BY <1>4, <3>1, <3>2, <3>3, <3>4
  <2>2. ASSUME uart'.chunk = <<>> PROVE FrameInv'
    <3>1. AllGenuine(uart'.chunk, sent)
      BY <2>2, FrameStart
    <3>2. Follows(uart', rx, ghost.run, sent)
      BY <1>1, <2>1, FollowsOutside DEF InParser
    <3> QED BY <1>1, <1>2, <2>1, <3>1, <3>2 DEF FrameInv
  <2>3. ASSUME uart'.chunk = uart.chunk PROVE FrameInv'
    <3>2. Follows(uart', rx, ghost.run, sent)
      BY <1>1, <2>1, FollowsOutside DEF InParser
    <3> QED BY <1>1, <1>2, <2>1, <2>3, <3>2 DEF FrameInv
  <2> QED BY <2>1, <2>2, <2>3
<1> QED BY <1>3, <1>4, <1>5

\* Fetching a byte: the first of a frame begins to be followed if the parser is
\* searching, the next one of the frame that is followed goes on, any other ends it.
LEMMA FetchFrames ==
  ASSUME TypeInv, FrameInv, Fetch
  PROVE  FrameInv'
<1> DEFINE b == Head(uart.chunk)
           run2 == IF b.pos = 1
                   THEN IF rx.state \in {"SYNC0", "SYNC1"} THEN <<b.of, 1>> ELSE <<0, 0>>
                   ELSE IF /\ b.of # 0 /\ b.pos = ghost.run[2] + 1
                           /\ (b.of = ghost.run[1] \/ b.pos = 1)
                        THEN <<b.of, b.pos>> ELSE <<0, 0>>
<1>1. /\ AllGenuine(line, sent) /\ AllGenuine(uart.chunk, sent)
      /\ Follows(uart, rx, ghost.run, sent) /\ sent \in Seq(Frames)
      /\ uart \in Uarts /\ ghost \in Ghosts /\ uart.chunk \in Seq(LineBytes)
  BY FrameParts DEF FrameInv
<1>2. /\ uart.pc = "fetch" /\ uart' = [uart EXCEPT !.pc = "body", !.st = rx.state]
      /\ UNCHANGED <<line, rx, sent>>
  BY DEF Fetch, uartOnly, shared
<1>3. ghost'.run = run2
  BY <1>1 DEF Fetch, Ghosts
<1>4. uart.chunk # <<>> /\ Genuine(b, sent)
  <2>1. uart.chunk # <<>>
    BY <1>2, FrameParts DEF Feeding
  <2> QED BY <1>1, <2>1, GenuinePart
<1>5. uart'.pc = "body" /\ uart'.st = rx.state /\ uart'.chunk = uart.chunk
  BY <1>1, <1>2 DEF Uarts
<1> HIDE DEF b, run2
<1>6. Follows(uart', rx, run2, sent)
  <2>1. CASE run2[1] = 0
    BY <2>1 DEF Follows
  <2>2. CASE run2[1] # 0
    <3>1. run2[1] = b.of /\ run2[2] = b.pos /\ b.of # 0
      BY <2>2 DEF run2
    <3>2. /\ b.of \in DOMAIN sent /\ b.pos \in DOMAIN Packed[sent[b.of]]
          /\ b.val = Packed[sent[b.of]][b.pos]
      BY <1>4, <3>1 DEF Genuine
    <3> DEFINE f == sent[b.of]
               m == b.pos
    <3>3. f \in Frames
      BY <1>1, <3>2, ElementOfSeq, LenProperties
    <3> SUFFICES ASSUME f \in Bodied PROVE Follows(uart', rx, run2, sent)
      <4>1. f \notin Bodied => Follows(uart', rx, run2, sent)
        BY <3>1, <3>2 DEF Follows
      <4> QED BY <4>1
    <3>4. m \in 1 .. Len(f.payload) + 8
      <4>1. Layout(f, Len(f.payload))
        BY FrameBytes
      <4> QED BY <3>2, <4>1, Zenon DEF Layout
    <3>5. m = 1 => rx.state \in {"SYNC0", "SYNC1"}
      BY <2>2 DEF run2
    <3>6. m # 1 => Fed(rx, f, m - 1)
      <4> SUFFICES ASSUME m # 1 PROVE Fed(rx, f, m - 1)
        OBVIOUS
      <4>1. m = ghost.run[2] + 1 /\ b.of = ghost.run[1] /\ b.of # 0
        BY <2>2 DEF run2
      <4>2. FollowsFrame(uart, rx, f, ghost.run[2])
        BY <1>1, <4>1 DEF Follows
      <4>3. Fed(rx, f, ghost.run[2]) /\ ghost.run[2] \in 1 .. Len(f.payload) + 8
        BY <1>2, <4>2 DEF FollowsFrame, InParser
      <4>4. ghost.run[2] = m - 1
        BY <4>1, <4>3
      <4> QED BY <4>3, <4>4
    <3>7. Head(uart'.chunk).val = Packed[f][m]
      BY <1>5, <3>2 DEF b
    <3>8. FollowsFrame(uart', rx, f, m)
      <4> HIDE DEF f, m
      <4> QED BY <1>5, <3>4, <3>5, <3>6, <3>7 DEF FollowsFrame, InParser
    <3> QED BY <3>1, <3>2, <3>8 DEF Follows
  <2> QED BY <2>1, <2>2
<1> QED BY <1>1, <1>2, <1>3, <1>5, <1>6 DEF FrameInv

\* What the UART task works on when it is in the parser's code.
LEMMA Followed ==
  ASSUME TypeInv, FrameInv, ghost.run[1] # 0
  PROVE  /\ sent[ghost.run[1]] \in Frames /\ ghost.run[1] \in DOMAIN sent
         /\ sent[ghost.run[1]] \in Bodied
              => FollowsFrame(uart, rx, sent[ghost.run[1]], ghost.run[2])
<1>1. sent \in Seq(Frames) /\ Follows(uart, rx, ghost.run, sent)
  BY FrameParts DEF FrameInv
<1> QED BY <1>1, ElementOfSeq, LenProperties DEF Follows

\* The payload of a frame that is followed has room in the array.
LEMMA FollowedFits ==
  ASSUME NEW u, NEW r, NEW f \in Bodied, NEW m, FollowsFrame(u, r, f, m), u.pc = "body"
  PROVE  ~Overruns(u.st, r)
<1> DEFINE L == Len(f.payload)
<1>1. /\ m \in 1 .. L + 8 /\ u.st = r.state
      /\ IF m = 1 THEN r.state \in {"SYNC0", "SYNC1"} ELSE Fed(r, f, m - 1)
  BY DEF FollowsFrame, InParser
<1>2. L \in Nat /\ L >= 1 /\ L <= MaxPayload /\ MaxPayload \in Nat
  <2>1. Layout(f, Len(f.payload))
    BY FrameBytes
  <2>2. L \in Nat /\ L >= 1 /\ L <= MaxPayload
    BY <2>1, Zenon DEF Layout
  <2> QED BY <2>2, MaxPayloadAssumption DEF MaxWord
<1>3. SUFFICES ASSUME r.state = "DATA" PROVE ~(Len(r.payload) >= MaxPayload)
  BY <1>1 DEF Overruns
<1>4. m # 1 /\ Fed(r, f, m - 1)
  BY <1>1, <1>3
<1>5. m - 1 \in 6 .. L + 5 /\ Len(r.payload) = (m - 1) - 6
  <2> DEFINE n == m - 1
  <2>1. n \in 1 .. L + 7
    <3> HIDE DEF L
    <3> QED BY <1>1, <1>2, <1>4
  <2>2. n \in {1, 2, 3, 4, 5} \/ n \in 6 .. L + 5 \/ n = L + 6 \/ n = L + 7
    <3> HIDE DEF L, n
    <3> QED BY <1>2, <2>1
  <2>3. Fed(r, f, n)
    BY <1>4
  <2> HIDE DEF n
  <2>4. n \in 6 .. L + 5 /\ Len(r.payload) = n - 6
    BY <1>3, <2>2, <2>3 DEF Fed
  <2> QED BY <2>4 DEF n
<1> HIDE DEF L
<1> QED BY <1>2, <1>5

\* The steps of the parser's code.
LEMMA ParserFrames ==
  ASSUME TypeInv, FrameInv, Body \/ Overrun \/ TestDone \/ Accept \/ Discard
  PROVE  FrameInv'
<1>1. /\ AllGenuine(line, sent) /\ AllGenuine(uart.chunk, sent)
      /\ uart \in Uarts /\ rx \in Parsers /\ ghost \in Ghosts /\ uart.chunk \in Seq(LineBytes)
  BY FrameParts DEF FrameInv
<1>2. uart.chunk # <<>>
  BY FrameParts DEF Feeding, Body, Overrun, TestDone, Accept, Discard
<1>3. /\ NextByte(uart).pc \in {"fetch", "stampByte"} /\ NextByte(uart).chunk = Tail(uart.chunk)
  BY <1>1, <1>2, NextByteType DEF NextByte, IdleUart
<1>4. UNCHANGED <<line, sent>> /\ ghost'.run = ghost.run
  BY <1>1 DEF Body, Overrun, TestDone, Accept, Discard, uartOnly, Ghosts
<1>5. uart'.chunk = uart.chunk \/ uart'.chunk = Tail(uart.chunk)
  BY <1>1, <1>3, OverrunTypes DEF Body, TestDone, Accept, Discard, Uarts
<1>6. AllGenuine(uart'.chunk, sent)
  BY <1>1, <1>2, <1>5, GenuinePart
<1> DEFINE f == sent[ghost.run[1]]
           m == ghost.run[2]
<1>7. Follows(uart', rx', ghost.run, sent)
  <2>0. ghost.run[1] # 0 => ghost.run[1] \in DOMAIN sent
    BY Followed
  <2> SUFFICES ASSUME ghost.run[1] # 0, f \in Bodied
               PROVE  FollowsFrame(uart', rx', f, m)
    BY <2>0 DEF Follows
  <2>1. f \in Bodied /\ FollowsFrame(uart, rx, f, m)
    BY Followed
  <2> HIDE DEF f, m
  <2>2. CASE Body
    <3>1. uart.pc = "body" /\ uart' = AfterBody(uart)
          /\ rx' = FeedByte(uart.st, rx, Head(uart.chunk).val)
      BY <2>2 DEF Body, AfterBody
    <3> QED BY <1>1, <1>2, <2>1, <3>1, BodyFollows
  <2>3. CASE TestDone
    <3>1. uart.pc = "dataDone" /\ rx' = DataDone(rx) /\ uart'.pc \notin InParser
      BY <1>3, <2>3 DEF TestDone, InParser
    <3> QED BY <1>1, <2>1, <3>1, TestFollows
  <2>4. CASE Accept \/ Discard
    <3>1. uart.pc = "compare" /\ rx' = rx /\ uart'.pc \notin InParser
      BY <1>1, <1>3, <2>4 DEF Accept, Discard, InParser, shared, Uarts
    <3> QED BY <1>1, <2>1, <3>1, TestFollows
  <2>5. CASE Overrun
    BY <2>1, <2>5, FollowedFits DEF Overrun
  <2> QED BY <2>1, <2>2, <2>3, <2>4, <2>5
<1> QED BY <1>1, <1>4, <1>6, <1>7 DEF FrameInv

\* Every step keeps how far the parser has followed a frame.
LEMMA FrameStep ==
  ASSUME TypeInv, FrameInv, [Next]_vars
  PROVE  FrameInv'
<1>1. CASE UNCHANGED vars
  BY <1>1 DEF vars, FrameInv
<1>2. CASE Next
  BY <1>2, EnvironmentFrames, ClearedFrames, OutsideFrames, FetchFrames, ParserFrames
     DEF Next, UartTask
<1> QED BY <1>1, <1>2

\* A frame all of whose bytes were fed is on its way through the parser's code to
\* its acceptance.
LEMMA WholeFrameStep ==
  ASSUME TypeInv, FrameInv, [Next]_vars, WholeFrameFed,
         sent[ghost.run[1]].payload # <<>>, uart.pc \in InParser,
         uart'.pc # uart.pc
  PROVE  uart'.pc \in {"dataDone", "compare", "stamp"}
<1> DEFINE f == sent[ghost.run[1]]
           m == ghost.run[2]
<1>1. f \in Bodied /\ f \in Frames /\ FollowsFrame(uart, rx, f, m) /\ m = Len(Packed[f])
  BY Followed DEF WholeFrameFed, Bodied
<1>2. Len(Packed[f]) = Len(f.payload) + 8
  <2>1. Layout(f, Len(f.payload))
    BY <1>1, FrameBytes
  <2>2. DOMAIN Packed[f] = 1 .. Len(f.payload) + 8 /\ Len(f.payload) \in Nat
    BY <2>1, Zenon DEF Layout
  <2>3. Packed[f] \in Seq(Bytes)
    BY <1>1, PackedType
  <2>4. Len(Packed[f]) \in Nat /\ DOMAIN Packed[f] = 1 .. Len(Packed[f])
    BY <2>3, LenProperties
  <2> QED BY <2>2, <2>4
<1>3. /\ uart \in Uarts /\ rx \in Parsers /\ uart.chunk \in Seq(LineBytes)
      /\ uart.chunk # <<>>
  BY FrameParts DEF Feeding, InParser
<1> HIDE DEF f, m
<1>4. Body \/ Overrun \/ TestDone \/ Accept \/ Discard \/ uart'.pc \in {"dataDone", "compare", "stamp"}
  <2>1. uart' # uart
    OBVIOUS
  <2>2. UartTask
    BY <2>1 DEF Next, Defined, vars, Environment, PassTime, Send, LoseByte, InsertByte, device, MainTask,
                UartInit, GuardStart, GuardTask, Tick, CheckGap, ResetGap, CheckLoss, Fire,
                Report, guardOnly
  <2> QED BY <2>2 DEF UartTask, Read, Fetch, Stamp, Rearm, HandOver, Panic, StampByte,
                      EndChunk, InParser
<1>5. CASE Body
  <2>1. uart.pc = "body" /\ uart' = AfterBody(uart)
    BY <1>5 DEF Body, AfterBody
  <2> QED BY <1>1, <1>2, <1>3, <2>1, BodyFollows
<1>6. CASE TestDone
  <2>1. uart.pc = "dataDone" /\ uart'.pc \notin InParser
    BY <1>3, <1>6, NextByteType DEF TestDone, InParser
  <2> QED BY <1>1, <1>2, <1>3, <2>1, TestFollows
<1>7. CASE Accept
  BY <1>3, <1>7 DEF Accept, Uarts
<1>8. CASE Discard
  <2>1. uart.pc = "compare" /\ ~CrcHolds(rx) /\ uart'.pc \notin InParser
    BY <1>3, <1>8, NextByteType DEF Discard, InParser
  <2> QED BY <1>1, <1>3, <2>1, TestFollows
<1>9. CASE Overrun
  BY <1>1, <1>9, FollowedFits DEF Overrun
<1> QED BY <1>4, <1>5, <1>6, <1>7, <1>8, <1>9

-----------------------------------------------------------------------------
(* What the buffer holds of a frame, and what is handed over.                 *)

\* What the parser's buffer holds after m bytes of a frame: its type, its length and
\* the part of its payload that has come.
Holds(r, f, m) ==
  LET L == Len(f.payload)
  IN  /\ m \in 4 .. L + 8 => r.type = f.type
      /\ m \in 6 .. L + 8 => /\ r.len = L
                             /\ Len(r.payload) = IF m <= L + 6 THEN m - 6 ELSE L
                             /\ \A i \in 1 .. Len(r.payload) : r.payload[i] = f.payload[i]

\* A frame was accepted and has not been handed over.
HandingOver == {"stamp", "rearm", "handOver"}

\* The buffer holds what was fed of a frame, and what is handed over are that
\* frame's type and length.
Held(u, r, f, m) ==
  /\ Holds(r, f, IF u.pc = "body" THEN m - 1 ELSE m)
  /\ u.pc \in HandingOver =>
       m = Len(f.payload) + 8 /\ u.type = f.type /\ u.len = Len(f.payload)

HeldRun(u, r, run, s) ==
  run[1] # 0 /\ s[run[1]] \in Bodied => Held(u, r, s[run[1]], run[2])

\* The inductive invariant of the content of whole frames.
HeldInv == HeldRun(uart, rx, ghost.run, sent)

\* Each byte of a frame goes to its place in the buffer.
LEMMA FeedHolds ==
  ASSUME NEW f \in Bodied, NEW r \in Parsers, NEW m \in 1 .. Len(f.payload) + 8,
         m # 1 => Fed(r, f, m - 1), Holds(r, f, m - 1)
  PROVE  Holds(FeedByte(r.state, r, Packed[f][m]), f, m)
<1> DEFINE L == Len(f.payload)
           P == Packed[f]
           q == FeedByte(r.state, r, P[m])
<1>0. Layout(f, Len(f.payload))
  BY FrameBytes
<1>1. /\ L \in Nat /\ L >= 1 /\ L \in Words /\ L <= MaxPayload
      /\ P[4] = f.type /\ f.type \in {CMD, REPLY}
      /\ \A n \in 1 .. L : P[n + 6] = f.payload[n]
  BY <1>0, Zenon DEF Layout
<1>2. P[6] = L \div 256
  <2>1. P[6] = LowHigh(L)[2]
    BY <1>0, Zenon DEF Layout
  <2> QED BY <2>1 DEF LowHigh
<1> HIDE DEF P, q
<1>3. CASE m \in 1 .. 3
  <2>1. m \notin 4 .. L + 8 /\ m \notin 6 .. L + 8
    BY <1>3
  <2> QED BY <2>1 DEF Holds, L, q, P
<1>4. CASE m = 4
  <2>1. r.state = "TYPE"
    BY <1>4 DEF Fed
  <2>2. q.type = f.type
    BY <1>1, <1>4, <2>1 DEF q, FeedByte, Type, Parsers
  <2>3. m \notin 6 .. L + 8
    BY <1>4
  <2> QED BY <2>2, <2>3 DEF Holds, L, q, P
<1>5. CASE m = 5
  <2>1. r.state = "LEN0"
    BY <1>5 DEF Fed
  <2>2. q.type = r.type
    BY <2>1 DEF q, FeedByte, Len0, Parsers
  <2>3. m - 1 \in 4 .. L + 8 /\ m \notin 6 .. L + 8
    BY <1>1, <1>5
  <2>4. r.type = f.type
    BY <2>3 DEF Holds, L
  <2> QED BY <2>2, <2>3, <2>4 DEF Holds, L, q, P
<1>6. CASE m = 6
  <2>1. r.state = "LEN1" /\ r.len = L % 256
    <3>1. m - 1 = 5
      BY <1>6
    <3>2. Fed(r, f, 5)
      BY <3>1
    <3> QED BY <3>2 DEF Fed, L
  <2>2. r.len + 256 * P[6] = L /\ ~(L > MaxPayload)
    <3> HIDE DEF L
    <3>1. (L % 256) + 256 * (L \div 256) = L
      BY <1>1
    <3> QED BY <1>1, <1>2, <2>1, <3>1, MaxPayloadAssumption
  <2> DEFINE next == [r EXCEPT !.len = L, !.crc = CrcUpdate(@, P[6])]
  <2>3. q = [next EXCEPT !.payload = <<>>, !.state = "DATA"]
    BY <1>6, <2>1, <2>2 DEF q, FeedByte, Len1
  <2>4. next \in [state : ParserStates, type : {r.type}, len : {L}, crc : {CrcUpdate(r.crc, P[6])},
                  crcRx : Words, payload : Seq(Bytes)]
    BY DEF Parsers
  <2>5. q.type = r.type /\ q.len = L /\ q.payload = <<>>
    <3> HIDE DEF next
    <3> QED BY <2>3, <2>4
  <2>6. m - 1 \in 4 .. L + 8 /\ m <= L + 6 /\ m - 6 = 0
    BY <1>1, <1>6
  <2>7. r.type = f.type
    BY <2>6 DEF Holds, L
  <2>8. Len(q.payload) = 0 /\ 1 .. 0 = {}
    BY <2>5, EmptySeq
  <2> HIDE DEF L
  <2>9. \A i \in 1 .. Len(q.payload) : q.payload[i] = f.payload[i]
    BY <2>8
  <2> QED BY <2>5, <2>6, <2>7, <2>8, <2>9 DEF Holds, L, q, P
<1>7. CASE m \in 7 .. L + 6
  <2>1. /\ m - 1 \in 6 .. L + 5 /\ m - 1 \in 6 .. L + 8 /\ m - 1 \in 4 .. L + 8
        /\ m - 1 <= L + 6 /\ m <= L + 6 /\ m # 1
    BY <1>1, <1>7
  <2>2. r.state = "DATA"
    BY <2>1 DEF Fed, L
  <2>3. /\ r.type = f.type /\ r.len = L /\ Len(r.payload) = (m - 1) - 6
        /\ \A i \in 1 .. Len(r.payload) : r.payload[i] = f.payload[i]
    BY <2>1 DEF Holds, L
  <2>4. /\ q.type = r.type /\ q.len = r.len /\ q.payload = Append(r.payload, P[m])
    BY <2>2 DEF q, FeedByte, Data, Parsers
  <2> DEFINE k == m - 6
             old == r.payload
  <2>5. k \in 1 .. L /\ m = k + 6 /\ (m - 1) - 6 = k - 1
    BY <1>1, <1>7
  <2>6. P[m] = f.payload[k]
    BY <1>1, <2>5
  <2>7. old \in Seq(Bytes) /\ Len(old) = k - 1 /\ \A i \in 1 .. k - 1 : old[i] = f.payload[i]
    BY <2>3, <2>5 DEF Parsers
  <2>8. P[m] \in Bytes
    <3>1. P \in Seq(Bytes)
      BY PackedType DEF P, Bodied
    <3>2. m \in DOMAIN P
      <4>1. DOMAIN P = 1 .. L + 8
        BY <1>0, Zenon DEF Layout, P, L
      <4> QED BY <4>1
    <3> QED BY <3>1, <3>2, ElementOfSeq, LenProperties
  <2> HIDE DEF old, k
  <2>9. /\ Len(Append(old, P[m])) = k
        /\ \A i \in 1 .. k - 1 : Append(old, P[m])[i] = old[i]
        /\ Append(old, P[m])[k] = P[m]
    <3>1. /\ Len(Append(old, P[m])) = Len(old) + 1
          /\ \A i \in 1 .. Len(old) : Append(old, P[m])[i] = old[i]
          /\ Append(old, P[m])[Len(old) + 1] = P[m]
      BY <2>7, <2>8, AppendProperties
    <3>2. Len(old) + 1 = k
      BY <2>5, <2>7
    <3> QED BY <2>7, <3>1, <3>2
  <2>10. \A i \in 1 .. k : Append(old, P[m])[i] = f.payload[i]
    <3>1. \A i \in 1 .. k : i \in 1 .. k - 1 \/ i = k
      BY <2>5
    <3> QED BY <2>6, <2>7, <2>9, <3>1
  <2>11. Len(q.payload) = k /\ \A i \in 1 .. Len(q.payload) : q.payload[i] = f.payload[i]
    BY <2>4, <2>9, <2>10 DEF old
  <2> QED BY <2>1, <2>3, <2>4, <2>11 DEF Holds, L, q, P, k
<1>8. CASE m \in {L + 7, L + 8}
  <2>1. /\ m - 1 \in 6 .. L + 8 /\ m - 1 \in 4 .. L + 8 /\ m # 1 /\ ~(m <= L + 6)
        /\ (IF m - 1 <= L + 6 THEN (m - 1) - 6 ELSE L) = L
    BY <1>1, <1>8
  <2>2. /\ r.type = f.type /\ r.len = L /\ Len(r.payload) = L
        /\ \A i \in 1 .. Len(r.payload) : r.payload[i] = f.payload[i]
    BY <2>1 DEF Holds, L
  <2>3. r.state \in {"CRC0", "CRC1"}
    <3>1. m - 1 = L + 6 \/ m - 1 = L + 7
      BY <1>1, <1>8
    <3> QED BY <2>1, <3>1 DEF Fed, L
  <2>4. q.type = r.type /\ q.len = r.len /\ q.payload = r.payload
    BY <2>3 DEF q, FeedByte, Crc0, Crc1, Parsers
  <2> QED BY <2>1, <2>2, <2>4 DEF Holds, L, q, P
<1>9. m \in 1 .. 3 \/ m = 4 \/ m = 5 \/ m = 6 \/ m \in 7 .. L + 6 \/ m \in {L + 7, L + 8}
  BY <1>1
<1> QED BY <1>3, <1>4, <1>5, <1>6, <1>7, <1>8, <1>9
\* The test whether the payload is complete leaves the buffer as it is.
LEMMA DoneHolds ==
  ASSUME NEW r \in Parsers, NEW f, NEW m, Holds(r, f, m)
  PROVE  Holds(DataDone(r), f, m)
<1> DEFINE q == DataDone(r)
<1>1. q.type = r.type /\ q.len = r.len /\ q.payload = r.payload
  BY DEF DataDone, Parsers
<1> HIDE DEF q
<1>2. Holds(q, f, m)
  BY <1>1 DEF Holds
<1> QED BY <1>2 DEF q

\* Nothing is held of a frame that is not followed.
LEMMA HeldStart ==
  ASSUME NEW u, NEW r, NEW run, NEW s, run = <<0, 0>>
  PROVE  HeldRun(u, r, run, s)
BY DEF HeldRun

\* The content to begin with.
LEMMA HeldInit == Init => HeldInv
  BY HeldStart DEF Init, HeldInv, Fresh

\* Every step keeps what the buffer holds of the frame that is followed.
LEMMA HeldStep ==
  ASSUME TypeInv, FrameInv, HeldInv, [Next]_vars
  PROVE  HeldInv'
<1> DEFINE f == sent[ghost.run[1]]
           m == ghost.run[2]
<1>1. /\ uart \in Uarts /\ rx \in Parsers /\ ghost \in Ghosts /\ sent \in Seq(Frames)
      /\ uart.chunk \in Seq(LineBytes)
      /\ Feeding => uart.chunk # <<>>
  BY FrameParts
<1>2. Feeding => NextByte(uart).pc \in {"fetch", "stampByte"}
  BY <1>1, NextByteType
<1>3. ghost.run[1] # 0 =>
        /\ f \in Frames /\ ghost.run[1] \in DOMAIN sent
        /\ f \in Bodied => FollowsFrame(uart, rx, f, m) /\ Held(uart, rx, f, m)
  BY Followed DEF HeldInv, HeldRun
<1>4. ASSUME ghost'.run = <<0, 0>> PROVE HeldInv'
  BY <1>4, HeldStart DEF HeldInv
<1>5. ASSUME UNCHANGED <<uart, rx>>, ghost'.run = ghost.run, sent' = sent PROVE HeldInv'
  BY <1>5 DEF HeldInv
<1>6. ASSUME sent' = sent, ghost'.run = ghost.run, ghost.run[1] # 0 /\ f \in Bodied => Held(uart', rx', f, m)
      PROVE  HeldInv'
  BY <1>6 DEF HeldInv, HeldRun
<1>7. ASSUME NEW u, Held(uart, rx, f, m), uart.pc # "body", u.pc \notin HandingOver \cup {"body"}
      PROVE  Held(u, rx, f, m)
  BY <1>7 DEF Held
<1>8. CASE UNCHANGED vars
  BY <1>5, <1>8 DEF vars
<1>9. CASE Environment
  <2>1. UNCHANGED <<uart, rx, ghost>>
    BY <1>9 DEF Environment, PassTime, Send, LoseByte, InsertByte, device
  <2>2. CASE sent' = sent
    BY <1>5, <2>1, <2>2
  <2>3. ASSUME NEW g \in Frames, Send(g) PROVE HeldInv'
    <3>1. sent' = Append(sent, g)
      BY <2>3 DEF Send
    <3>2. ghost.run[1] # 0 => sent'[ghost.run[1]] = f
      BY <1>1, <1>3, <3>1, SentStays
    <3> QED BY <1>3, <2>1, <3>2 DEF HeldInv, HeldRun
  <2> QED BY <1>9, <2>2, <2>3 DEF Environment, PassTime, LoseByte, InsertByte
<1>10. CASE MainTask \/ Panic
  <2>1. CASE GuardStart
    BY <1>5, <2>1 DEF GuardStart, shared
  <2>2. CASE UartInit \/ Panic
    BY <1>4, <2>2 DEF UartInit, Panic, Fresh
  <2> QED BY <1>10, <2>1, <2>2 DEF MainTask
<1>11. CASE GuardTask
  <2>1. UNCHANGED <<uart, sent>>
    BY <1>11 DEF GuardTask, Tick, CheckGap, ResetGap, CheckLoss, Fire, Report, guardOnly
  <2>2. (rx' = rx /\ ghost'.run = ghost.run) \/ ghost'.run = <<0, 0>>
    <3>1. CASE Tick
      BY <1>1, <3>1 DEF Tick, Ghosts
    <3>2. CASE CheckGap
      BY <1>1, <3>2 DEF CheckGap, Ghosts
    <3>3. CASE CheckLoss
      BY <1>1, <3>3 DEF CheckLoss, Ghosts
    <3>4. CASE Fire
      BY <3>4 DEF Fire
    <3>5. CASE ResetGap \/ Report
      BY <1>1, <3>5 DEF ResetGap, Report, ClearParser, Ghosts
    <3> QED BY <1>11, <3>1, <3>2, <3>3, <3>4, <3>5 DEF GuardTask
  <2> QED BY <1>4, <1>5, <2>1, <2>2
<1>12. CASE Read \/ HandOver \/ StampByte \/ EndChunk \/ Discard
  <2>1. UNCHANGED <<rx, ghost, sent>>
    BY <1>12 DEF Read, HandOver, StampByte, EndChunk, Discard, uartOnly, shared
  <2>2. uart.pc # "body" /\ uart'.pc \notin HandingOver \cup {"body"}
    <3>1. CASE Read
      BY <1>1, <3>1 DEF Read, Uarts, HandingOver
    <3>2. CASE HandOver \/ Discard
      BY <1>2, <3>2 DEF HandOver, Discard, Feeding, HandingOver
    <3>3. CASE StampByte
      BY <1>1, <3>3 DEF StampByte, Uarts, HandingOver
    <3>4. CASE EndChunk
      BY <3>4 DEF EndChunk, IdleUart, HandingOver
    <3> QED BY <1>12, <3>1, <3>2, <3>3, <3>4
  <2>3. ghost.run[1] # 0 /\ f \in Bodied => Held(uart', rx, f, m)
    BY <1>3, <1>7, <2>2
  <2> QED BY <1>6, <2>1, <2>3
<1>13. CASE Stamp \/ Rearm
  <2>1. UNCHANGED <<rx, ghost, sent>>
    BY <1>13 DEF Stamp, Rearm, uartOnly
  <2>2. PICK label \in {"rearm", "handOver"} : uart' = [uart EXCEPT !.pc = label]
    BY <1>13 DEF Stamp, Rearm
  <2>3. /\ uart'.type = uart.type /\ uart'.len = uart.len /\ uart'.pc # "body"
        /\ uart.pc \in HandingOver /\ uart.pc # "body"
    BY <1>1, <1>13, <2>2 DEF Stamp, Rearm, Uarts, HandingOver
  <2>4. ghost.run[1] # 0 /\ f \in Bodied => Held(uart', rx, f, m)
    BY <1>3, <2>3 DEF Held
  <2> QED BY <1>6, <2>1, <2>4
<1>14. CASE Accept
  <2>1. UNCHANGED <<rx, sent>> /\ ghost'.run = ghost.run
    BY <1>1, <1>14 DEF Accept, uartOnly, shared, Ghosts
  <2>2. /\ uart.pc = "compare" /\ uart'.pc = "stamp"
        /\ uart'.type = rx.type /\ uart'.len = rx.len
    BY <1>1, <1>14 DEF Accept, Uarts
  <2>3. ghost.run[1] # 0 /\ f \in Bodied => Held(uart', rx, f, m)
    <3> SUFFICES ASSUME ghost.run[1] # 0, f \in Bodied PROVE Held(uart', rx, f, m)
      OBVIOUS
    <3>1. m = Len(f.payload) + 8
      BY <1>3, <2>2 DEF FollowsFrame, InParser
    <3>2. Holds(rx, f, m)
      BY <1>3, <2>2 DEF Held
    <3>3. m \in 4 .. Len(f.payload) + 8 /\ m \in 6 .. Len(f.payload) + 8
      <4>1. Layout(f, Len(f.payload))
        BY <1>3, FrameBytes
      <4>2. Len(f.payload) \in Nat
        BY <4>1, Zenon DEF Layout
      <4> DEFINE k == Len(f.payload)
      <4>3. m = k + 8 /\ k \in Nat
        BY <3>1, <4>2
      <4> HIDE DEF m, k
      <4>4. m \in 4 .. k + 8 /\ m \in 6 .. k + 8
        BY <4>3
      <4> QED BY <4>4 DEF k
    <3>4. rx.type = f.type /\ rx.len = Len(f.payload)
      BY <3>2, <3>3 DEF Holds
    <3> QED BY <2>2, <3>1, <3>2, <3>4 DEF Held
  <2> QED BY <1>6, <2>1, <2>3
<1>15. CASE TestDone
  <2>1. /\ uart.pc = "dataDone" /\ rx' = DataDone(rx) /\ ghost' = ghost /\ sent' = sent
        /\ uart'.pc \notin HandingOver \cup {"body"}
    BY <1>2, <1>15 DEF TestDone, uartOnly, Feeding, HandingOver
  <2>2. ghost.run[1] # 0 /\ f \in Bodied => Held(uart', rx', f, m)
    <3> SUFFICES ASSUME ghost.run[1] # 0, f \in Bodied PROVE Held(uart', rx', f, m)
      OBVIOUS
    <3>1. Holds(rx, f, m)
      BY <1>3, <2>1 DEF Held
    <3>2. Holds(rx', f, m)
      BY <1>1, <2>1, <3>1, DoneHolds
    <3> QED BY <2>1, <3>2 DEF Held
  <2> QED BY <1>6, <2>1, <2>2
<1>16. CASE Body
  <2>1. /\ uart.pc = "body" /\ uart' = AfterBody(uart) /\ ghost' = ghost /\ sent' = sent
        /\ rx' = FeedByte(uart.st, rx, Head(uart.chunk).val)
    BY <1>16 DEF Body, AfterBody, uartOnly
  <2>2. uart'.pc \notin HandingOver \cup {"body"}
    BY <1>1, <1>2, <2>1 DEF AfterBody, Uarts, Feeding, HandingOver
  <2>3. ghost.run[1] # 0 /\ f \in Bodied => Held(uart', rx', f, m)
    <3> SUFFICES ASSUME ghost.run[1] # 0, f \in Bodied PROVE Held(uart', rx', f, m)
      OBVIOUS
    <3>1. /\ f \in Bodied /\ m \in 1 .. Len(f.payload) + 8
          /\ uart.st = rx.state /\ Head(uart.chunk).val = Packed[f][m]
          /\ m # 1 => Fed(rx, f, m - 1)
          /\ Holds(rx, f, m - 1)
      BY <1>3, <2>1 DEF FollowsFrame, InParser, Held
    <3> HIDE DEF f, m
    <3>2. Holds(FeedByte(rx.state, rx, Packed[f][m]), f, m)
      BY <1>1, <3>1, FeedHolds
    <3>3. Holds(rx', f, m)
      BY <2>1, <3>1, <3>2
    <3> QED BY <2>2, <3>3 DEF Held
  <2> QED BY <1>6, <2>1, <2>3
<1>17. CASE Fetch
  <2> DEFINE b == Head(uart.chunk)
  <2>1. /\ uart.pc = "fetch" /\ UNCHANGED <<rx, sent>> /\ uart'.pc = "body"
    BY <1>1, <1>17 DEF Fetch, uartOnly, shared, Uarts
  <2>2. ghost'.run = IF b.pos = 1
                     THEN IF rx.state \in {"SYNC0", "SYNC1"} THEN <<b.of, 1>> ELSE <<0, 0>>
                     ELSE IF /\ b.of # 0 /\ b.pos = ghost.run[2] + 1
                             /\ (b.of = ghost.run[1] \/ b.pos = 1)
                          THEN <<b.of, b.pos>> ELSE <<0, 0>>
    BY <1>1, <1>17 DEF Fetch, Ghosts
  <2> DEFINE run2 == ghost'.run
  <2>6. CASE sent[run2[1]] \notin Bodied
    BY <2>1, <2>6 DEF HeldInv, HeldRun
  <2>3. CASE run2[1] # 0 /\ run2[2] = 1
    <3>1. Holds(rx, sent[run2[1]], run2[2] - 1)
      <4>1. run2[2] - 1 = 0
        BY <2>3
      <4> HIDE DEF run2
      <4>2. \A g : Holds(rx, g, 0)
        BY DEF Holds
      <4> QED BY <4>1, <4>2
    <3> QED BY <2>1, <3>1 DEF HeldInv, HeldRun, Held, HandingOver
  <2>4. CASE run2[1] # 0 /\ run2[2] # 1 /\ sent[run2[1]] \in Bodied
    <3>1. b.of = ghost.run[1] /\ b.pos = m + 1 /\ run2 = <<ghost.run[1], m + 1>> /\ b.of # 0
      BY <2>2, <2>4
    <3>2. Holds(rx, f, m) /\ m \in Int
      BY <1>3, <2>1, <2>4, <3>1 DEF Held, FollowsFrame
    <3>3. run2[1] = ghost.run[1] /\ run2[2] - 1 = m
      BY <3>1, <3>2
    <3> HIDE DEF m
    <3>4. Holds(rx, sent[run2[1]], run2[2] - 1)
      BY <3>2, <3>3
    <3> QED BY <2>1, <3>4 DEF HeldInv, HeldRun, Held, HandingOver
  <2>5. CASE run2[1] = 0
    BY <2>5 DEF HeldInv, HeldRun
  <2> QED BY <2>3, <2>4, <2>5, <2>6
<1>18. CASE Overrun
  <2>1. /\ uart.pc = "body" /\ Overruns(uart.st, rx) /\ UNCHANGED <<rx, ghost, sent>>
    BY <1>18 DEF Overrun, uartOnly, shared
  <2>2. ~(ghost.run[1] # 0 /\ f \in Bodied)
    BY <1>3, <2>1, FollowedFits
  <2> QED BY <1>6, <2>1, <2>2
<1> QED BY <1>8, <1>9, <1>10, <1>11, <1>12, <1>13, <1>14, <1>15, <1>16, <1>17, <1>18
        DEF Next, UartTask

\* What on_frame makes of a type and a length that were handed out and the buffer as
\* it finds it.
Copied(type, len, payload) ==
  [type |-> type,
   payload |-> [i \in 1 .. len |-> IF i <= Len(payload) THEN payload[i] ELSE 0]]

\* A frame as the guard task gets it.
Arrived(f, disturbed) == [type |-> f.type, payload |-> f.payload, disturbed |-> disturbed]

\* All bytes of a frame with a payload were fed and the parser was not cleared since: what the guard
\* task is handed is that frame, its type and every byte of its payload, if it is a
\* command and the queue has room.
WholeFramesArriveIntact ==
  [][(WholeFrameFed /\ sent[ghost.run[1]].payload # <<>> /\ boot = "running"
        /\ uart.pc = "handOver" /\ uart'.pc # "handOver")
       => LET f == sent[ghost.run[1]]
          IN  queue' = IF f.type = CMD /\ Len(queue) < QueueLen
                       THEN Append(queue, Arrived(f, ghost.disturbed)) ELSE queue]_vars

\* The parser has been fed a frame with a payload from its first byte on.
Following == ghost.run[1] # 0 /\ sent[ghost.run[1]] \in Bodied

\* The CRC is not deceived: bytes that pass it without being a frame fed whole, under
\* a parser nobody cleared under the UART task's hands, are a frame the host sent.
NoFalseFrame ==
  uart.pc = "compare" /\ CrcHolds(rx) /\ ~Following /\ ~ghost.disturbed
    => Copied(rx.type, rx.len, rx.payload) \in ToSet(sent)

\* What is about to be handed over was sent.
HandedInv ==
  uart.pc \in HandingOver /\ ~ghost.disturbed
    => Copied(uart.type, uart.len, rx.payload) \in ToSet(sent)

\* A buffer with all of a frame is copied as that frame.
LEMMA CopyWhole ==
  ASSUME NEW f \in Bodied, NEW r \in Parsers, Holds(r, f, Len(f.payload) + 8)
  PROVE  /\ r.type = f.type /\ r.len = Len(f.payload)
         /\ Copied(f.type, Len(f.payload), r.payload) = [type |-> f.type, payload |-> f.payload]
<1> DEFINE L == Len(f.payload)
           old == r.payload
           copy == [i \in 1 .. L |-> IF i <= Len(old) THEN old[i] ELSE 0]
           p == f.payload
<1>1. L \in Nat /\ p \in Seq(Bytes)
  BY FramesAssumption, LenProperties DEF Bodied
<1>2. /\ r.type = f.type /\ r.len = L /\ Len(old) = L
      /\ \A i \in 1 .. Len(old) : old[i] = p[i]
  <2> DEFINE m == L + 8
  <2>1. m \in 4 .. L + 8 /\ m \in 6 .. L + 8 /\ ~(m <= L + 6)
    <3> HIDE DEF L
    <3> QED BY <1>1
  <2>2. Holds(r, f, m)
    OBVIOUS
  <2> HIDE DEF m
  <2> QED BY <2>1, <2>2 DEF Holds
<1>3. p = [i \in 1 .. L |-> p[i]]
  <2>1. DOMAIN p = 1 .. L /\ p = [i \in DOMAIN p |-> p[i]]
    BY <1>1, LenProperties
  <2> QED BY <2>1
<1>4. \A i \in 1 .. L : (IF i <= Len(old) THEN old[i] ELSE 0) = p[i]
  <2> HIDE DEF L, old, p
  <2>1. \A i \in 1 .. L : i <= L
    BY <1>1
  <2> QED BY <1>2, <2>1
<1>5. copy = p
  <2> HIDE DEF L, old, p
  <2> QED BY <1>3, <1>4
<1>6. Copied(f.type, L, old) = [type |-> f.type, payload |-> copy]
  BY DEF Copied
<1> QED BY <1>2, <1>5, <1>6

\* Handing over appends the copy, or nothing.
LEMMA HandOverCopies ==
  ASSUME HandOver
  PROVE  LET c == Copied(uart.type, uart.len, rx.payload)
         IN  queue' = IF uart.type = CMD /\ Len(queue) < QueueLen
                      THEN Append(queue, Arrived(c, ghost.disturbed)) ELSE queue
<1> DEFINE c == Copied(uart.type, uart.len, rx.payload)
<1>1. c.type = uart.type
      /\ c.payload = [i \in 1 .. uart.len |-> IF i <= Len(rx.payload) THEN rx.payload[i] ELSE 0]
  BY DEF Copied
<1> HIDE DEF c
<1>2. Item = Arrived(c, ghost.disturbed)
  BY <1>1 DEF Item, Arrived
<1>3. queue' = IF uart.type = CMD THEN Enqueue(queue) ELSE queue
  BY DEF HandOver
<1>4. Enqueue(queue) = IF Len(queue) < QueueLen THEN Append(queue, Arrived(c, ghost.disturbed))
                       ELSE queue
  BY <1>2, Zenon DEF Enqueue
<1> HIDE DEF Item
<1>5. queue' = IF uart.type = CMD /\ Len(queue) < QueueLen
               THEN Append(queue, Arrived(c, ghost.disturbed)) ELSE queue
  BY <1>3, <1>4
<1> QED BY <1>5 DEF c

\* A whole frame that is handed over is the frame the host sent.
LEMMA WholeFrameArrives ==
  ASSUME TypeInv, FrameInv, HeldInv, ghost.run[1] # 0,
         sent[ghost.run[1]].payload # <<>>, uart.pc \in HandingOver
  PROVE  LET f == sent[ghost.run[1]]
         IN  /\ f \in Frames /\ f \in ToSet(sent) /\ uart.type = f.type
             /\ Copied(uart.type, uart.len, rx.payload) = [type |-> f.type, payload |-> f.payload]
<1> DEFINE f == sent[ghost.run[1]]
           m == ghost.run[2]
<1>1. f \in Bodied /\ f \in Frames /\ ghost.run[1] \in DOMAIN sent /\ rx \in Parsers
  BY Followed, FrameParts DEF Bodied
<1>2. m = Len(f.payload) + 8 /\ uart.type = f.type /\ uart.len = Len(f.payload) /\ Holds(rx, f, m)
  BY <1>1 DEF HeldInv, HeldRun, Held, HandingOver
<1>3. f \in ToSet(sent)
  BY <1>1 DEF ToSet
<1> HIDE DEF f, m
<1>4. Copied(uart.type, uart.len, rx.payload) = [type |-> f.type, payload |-> f.payload]
  BY <1>1, <1>2, CopyWhole
<1> QED BY <1>1, <1>2, <1>3, <1>4 DEF f

\* So the step that hands over a whole frame puts exactly that frame on the queue.
LEMMA IntactStep ==
  ASSUME TypeInv, FrameInv, HeldInv, [Next]_vars, WholeFrameFed,
         sent[ghost.run[1]].payload # <<>>, boot = "running", uart.pc = "handOver", uart'.pc # "handOver"
  PROVE  LET f == sent[ghost.run[1]]
         IN  queue' = IF f.type = CMD /\ Len(queue) < QueueLen
                      THEN Append(queue, Arrived(f, ghost.disturbed)) ELSE queue
<1> DEFINE f == sent[ghost.run[1]]
           c == Copied(uart.type, uart.len, rx.payload)
<1>1. HandOver
  <2>1. uart' # uart
    OBVIOUS
  <2>2. UartTask
    BY <2>1 DEF Next, Defined, vars, Environment, PassTime, Send, LoseByte, InsertByte, device, MainTask,
                UartInit, GuardStart, GuardTask, Tick, CheckGap, ResetGap, CheckLoss, Fire,
                Report, guardOnly
  <2> QED BY <2>2 DEF UartTask, Read, Fetch, Body, Overrun, TestDone, Accept, Discard, Stamp, Rearm,
                      Panic, StampByte, EndChunk
<1>2. uart.type = f.type /\ c = [type |-> f.type, payload |-> f.payload]
  BY WholeFrameArrives DEF WholeFrameFed, HandingOver
<1>3. queue' = IF uart.type = CMD /\ Len(queue) < QueueLen
               THEN Append(queue, Arrived(c, ghost.disturbed)) ELSE queue
  BY <1>1, HandOverCopies
<1> HIDE DEF f, c
<1>4. Arrived(c, ghost.disturbed) = Arrived(f, ghost.disturbed)
  BY <1>2 DEF Arrived
<1>5. queue' = IF f.type = CMD /\ Len(queue) < QueueLen
               THEN Append(queue, Arrived(f, ghost.disturbed)) ELSE queue
  BY <1>2, <1>3, <1>4
<1> QED BY <1>5 DEF f
\* Every frame of a queue is disturbed or was sent.
QueueHolds(q, s) ==
  \A i \in DOMAIN q : q[i].disturbed \/ [type |-> q[i].type, payload |-> q[i].payload] \in ToSet(s)

\* A frame more that was sent does not change it.
LEMMA QueueSent ==
  ASSUME NEW s \in Seq(Frames), NEW f \in Frames
  PROVE  ToSet(s) \subseteq ToSet(Append(s, f))
BY SentStays DEF ToSet

\* Nor does a frame that is taken off the queue, or a good one that is put on it.
LEMMA QueueParts ==
  ASSUME NEW q \in Seq(Items), NEW s, QueueHolds(q, s)
  PROVE  /\ q # <<>> => QueueHolds(Tail(q), s)
         /\ \A e \in Items :
              (e.disturbed \/ [type |-> e.type, payload |-> e.payload] \in ToSet(s))
                => QueueHolds(Append(q, e), s)
<1>1. ASSUME q # <<>> PROVE QueueHolds(Tail(q), s)
  <2> DEFINE p == Tail(q)
             k == Len(q)
  <2>1. /\ p \in Seq(Items) /\ Len(p) = k - 1
        /\ \A i \in 1 .. Len(p) : p[i] = q[i + 1]
    BY <1>1, HeadTailProperties
  <2>2. k \in Nat /\ DOMAIN q = 1 .. k /\ DOMAIN p = 1 .. Len(p)
    BY <2>1, LenProperties
  <2> HIDE DEF p, k
  <2>3. \A i \in DOMAIN p : i + 1 \in DOMAIN q /\ p[i] = q[i + 1]
    BY <2>1, <2>2
  <2>4. QueueHolds(p, s)
    BY <2>3 DEF QueueHolds
  <2> QED BY <2>4 DEF p
<1>2. ASSUME NEW e \in Items,
             e.disturbed \/ [type |-> e.type, payload |-> e.payload] \in ToSet(s)
      PROVE  QueueHolds(Append(q, e), s)
  <2> DEFINE p == Append(q, e)
             k == Len(q)
  <2>1. /\ p \in Seq(Items) /\ Len(p) = k + 1
        /\ \A i \in 1 .. k : p[i] = q[i]
        /\ p[k + 1] = e
    BY AppendProperties
  <2>2. k \in Nat /\ DOMAIN q = 1 .. k /\ DOMAIN p = 1 .. Len(p)
    BY <2>1, LenProperties
  <2> HIDE DEF p, k
  <2>3. \A i \in DOMAIN p : (i \in DOMAIN q /\ p[i] = q[i]) \/ p[i] = e
    BY <2>1, <2>2
  <2>4. QueueHolds(p, s)
    BY <1>2, <2>3 DEF QueueHolds
  <2> QED BY <2>4 DEF p
<1> QED BY <1>1, <1>2

\* What an accepted frame holds was sent, and stays so until it is handed over.
LEMMA HandedStep ==
  ASSUME TypeInv, FrameInv, HeldInv, NoFalseFrame, HandedInv, [Next]_vars
  PROVE  HandedInv'
<1>1. /\ uart \in Uarts /\ rx \in Parsers /\ ghost \in Ghosts /\ sent \in Seq(Frames)
      /\ uart.chunk \in Seq(LineBytes)
      /\ Feeding => uart.chunk # <<>>
  BY FrameParts
<1>2. Feeding => NextByte(uart).pc \in {"fetch", "stampByte"}
  BY <1>1, NextByteType
<1>3. ASSUME uart'.pc \notin HandingOver \/ ghost'.disturbed PROVE HandedInv'
  BY <1>3 DEF HandedInv
<1>4. ASSUME UNCHANGED <<uart, rx>>, ghost'.disturbed = ghost.disturbed,
             ToSet(sent) \subseteq ToSet(sent')
      PROVE  HandedInv'
  BY <1>4 DEF HandedInv
<1>5. CASE UNCHANGED vars
  BY <1>4, <1>5 DEF vars
<1>6. CASE Environment
  <2>1. UNCHANGED <<uart, rx, ghost>>
    BY <1>6 DEF Environment, PassTime, Send, LoseByte, InsertByte, device
  <2>2. sent' = sent \/ \E f \in Frames : sent' = Append(sent, f)
    BY <1>6 DEF Environment, PassTime, Send, LoseByte, InsertByte
  <2>3. ToSet(sent) \subseteq ToSet(sent')
    BY <1>1, <2>2, QueueSent
  <2> QED BY <1>4, <2>1, <2>3
<1>7. CASE MainTask \/ Panic
  <2>1. CASE GuardStart
    BY <1>4, <2>1 DEF GuardStart, shared
  <2>2. CASE UartInit
    <3>1. uart.pc = "wait" /\ uart' = uart
      BY <2>2 DEF UartInit, TypeInv, Places, IdleUart
    <3> QED BY <1>3, <3>1 DEF HandingOver
  <2>3. CASE Panic
    <3>1. uart'.pc = "wait"
      BY <2>3 DEF Panic, Off, IdleUart
    <3> QED BY <1>3, <3>1 DEF HandingOver
  <2> QED BY <1>7, <2>1, <2>2, <2>3 DEF MainTask
<1>8. CASE GuardTask
  <2>1. UNCHANGED <<uart, sent>>
    BY <1>8 DEF GuardTask, Tick, CheckGap, ResetGap, CheckLoss, Fire, Report, guardOnly
  <2>2. \/ rx' = rx /\ ghost'.disturbed = ghost.disturbed
        \/ ghost'.disturbed
        \/ uart.pc = "wait"
    <3>1. CASE Tick
      BY <1>1, <3>1 DEF Tick, Ghosts
    <3>2. CASE CheckGap
      BY <1>1, <3>2 DEF CheckGap, Ghosts
    <3>3. CASE CheckLoss
      BY <1>1, <3>3 DEF CheckLoss, Ghosts
    <3>4. CASE Fire
      BY <3>4 DEF Fire
    <3>5. CASE ResetGap \/ Report
      BY <1>1, <3>5 DEF ResetGap, Report, ClearParser, Ghosts
    <3> QED BY <1>8, <3>1, <3>2, <3>3, <3>4, <3>5 DEF GuardTask
  <2> QED BY <1>3, <1>4, <2>1, <2>2 DEF HandingOver
<1>9. CASE \/ Read \/ Fetch \/ Body \/ Overrun \/ TestDone \/ Discard \/ HandOver \/ StampByte \/ EndChunk
  <2>1. uart'.pc \notin HandingOver
    <3>1. CASE Read
      BY <1>1, <3>1 DEF Read, Uarts, HandingOver
    <3>2. CASE HandOver \/ Discard \/ TestDone
      BY <1>2, <3>2 DEF HandOver, Discard, TestDone, Feeding, HandingOver
    <3>3. CASE StampByte
      BY <1>1, <3>3 DEF StampByte, Uarts, HandingOver
    <3>4. CASE EndChunk
      BY <3>4 DEF EndChunk, IdleUart, HandingOver
    <3>5. CASE Fetch
      BY <1>1, <3>5 DEF Fetch, Uarts, HandingOver
    <3>6. CASE Body
      BY <1>1, <1>2, <3>6 DEF Body, Uarts, Feeding, HandingOver
    <3>7. CASE Overrun
      BY <3>7, OverrunTypes DEF HandingOver
    <3> QED BY <1>9, <3>1, <3>2, <3>3, <3>4, <3>5, <3>6, <3>7
  <2> QED BY <1>3, <2>1
<1>10. CASE Stamp \/ Rearm
  <2>1. UNCHANGED <<rx, ghost, sent>>
    BY <1>10 DEF Stamp, Rearm, uartOnly
  <2>2. PICK label \in {"rearm", "handOver"} : uart' = [uart EXCEPT !.pc = label]
    BY <1>10 DEF Stamp, Rearm
  <2>3. uart'.type = uart.type /\ uart'.len = uart.len /\ uart.pc \in HandingOver
    BY <1>1, <1>10, <2>2 DEF Stamp, Rearm, Uarts, HandingOver
  <2> QED BY <2>1, <2>3 DEF HandedInv
<1>11. CASE Accept
  <2>1. UNCHANGED <<rx, sent>> /\ ghost'.disturbed = ghost.disturbed
    BY <1>1, <1>11 DEF Accept, uartOnly, shared, Ghosts
  <2>2. uart.pc = "compare" /\ CrcHolds(rx) /\ uart'.type = rx.type /\ uart'.len = rx.len
    BY <1>1, <1>11 DEF Accept, Uarts
  <2>3. CASE ~Following
    BY <2>1, <2>2, <2>3 DEF NoFalseFrame, HandedInv
  <2>4. CASE Following
    <3> DEFINE f == sent[ghost.run[1]]
    <3>1. /\ f \in Bodied /\ f \in Frames /\ ghost.run[1] \in DOMAIN sent
          /\ FollowsFrame(uart, rx, f, ghost.run[2])
      BY <2>4, Followed DEF Following
    <3>2. ghost.run[2] = Len(f.payload) + 8
      BY <2>2, <3>1 DEF FollowsFrame, InParser
    <3>3. Holds(rx, f, ghost.run[2])
      BY <2>2, <2>4 DEF Following, HeldInv, HeldRun, Held
    <3>4. f \in ToSet(sent)
      BY <3>1 DEF ToSet
    <3> HIDE DEF f
    <3>5. Copied(rx.type, rx.len, rx.payload) = [type |-> f.type, payload |-> f.payload]
      BY <1>1, <3>1, <3>2, <3>3, CopyWhole
    <3>6. f = [type |-> f.type, payload |-> f.payload]
      BY <3>1, FramesAssumption
    <3> QED BY <2>1, <2>2, <3>4, <3>5, <3>6 DEF HandedInv
  <2> QED BY <2>3, <2>4
<1> QED BY <1>5, <1>6, <1>7, <1>8, <1>9, <1>10, <1>11 DEF Next, UartTask

\* And so it is with what is on the queue.
LEMMA QueueStep ==
  ASSUME TypeInv, TypeInv', HandedInv, QueuedFramesWereSent, [Next]_vars
  PROVE  QueuedFramesWereSent'
<1>1. /\ queue \in Seq(Items) /\ QueueHolds(queue, sent) /\ sent \in Seq(Frames)
      /\ uart \in Uarts /\ rx \in Parsers /\ ghost \in Ghosts
  BY DEF TypeInv, TypeOK, QueuedFramesWereSent, QueueHolds
<1>2. SUFFICES QueueHolds(queue', sent')
  BY DEF QueuedFramesWereSent, QueueHolds
<1>3. ASSUME queue' = queue, ToSet(sent) \subseteq ToSet(sent') PROVE QueueHolds(queue', sent')
  BY <1>1, <1>3 DEF QueueHolds
<1>4. CASE UNCHANGED vars
  BY <1>3, <1>4 DEF vars
<1>5. CASE Environment
  <2>1. queue' = queue
    BY <1>5 DEF Environment, PassTime, Send, LoseByte, InsertByte, device
  <2>2. sent' = sent \/ \E f \in Frames : sent' = Append(sent, f)
    BY <1>5 DEF Environment, PassTime, Send, LoseByte, InsertByte
  <2>3. ToSet(sent) \subseteq ToSet(sent')
    BY <1>1, <2>2, QueueSent
  <2> QED BY <1>3, <2>1, <2>3
<1>6. CASE Panic
  <2>1. queue' = <<>> /\ DOMAIN <<>> = {}
    BY <1>6 DEF Panic, Off
  <2> QED BY <2>1 DEF QueueHolds
<1>7. CASE Tick
  <2>1. queue' = (IF queue = <<>> THEN queue ELSE Tail(queue)) /\ sent' = sent
    BY <1>7 DEF Tick, guardOnly
  <2> QED BY <1>1, <2>1, QueueParts
<1>8. CASE HandOver
  <2> DEFINE c == Copied(uart.type, uart.len, rx.payload)
             e == Arrived(c, ghost.disturbed)
  <2>1. uart.pc \in HandingOver /\ sent' = sent
    BY <1>8 DEF HandOver, HandingOver, uartOnly
  <2>2. queue' = IF uart.type = CMD /\ Len(queue) < QueueLen THEN Append(queue, e) ELSE queue
    BY <1>8, HandOverCopies
  <2>3. c.type = uart.type /\ c \in [type : Bytes, payload : Seq(Bytes)]
    <3> DEFINE n == uart.len
               old == rx.payload
               copy == [i \in 1 .. n |-> IF i <= Len(old) THEN old[i] ELSE 0]
    <3>1. n \in Nat /\ old \in Seq(Bytes) /\ uart.type \in Bytes
      BY <1>1 DEF Uarts, Parsers
    <3>2. Len(old) \in Nat /\ \A i \in 1 .. Len(old) : old[i] \in Bytes
      BY <3>1, ElementOfSeq, LenProperties
    <3> HIDE DEF n, old
    <3>3. \A i \in 1 .. n : (IF i <= Len(old) THEN old[i] ELSE 0) \in Bytes
      <4>1. 0 \in Bytes
        BY Widths
      <4>2. \A i \in 1 .. n : i <= Len(old) => i \in 1 .. Len(old)
        BY <3>1, <3>2
      <4> QED BY <3>2, <4>1, <4>2
    <3>4. copy \in Seq(Bytes)
      <4>1. copy \in [1 .. n -> Bytes]
        BY <3>3
      <4> QED BY <3>1, <4>1, IsASeq
    <3> QED BY <3>1, <3>4 DEF Copied, n, old
  <2>4. ghost.disturbed \in BOOLEAN
    BY <1>1 DEF Ghosts
  <2> HIDE DEF c
  <2>5. e \in Items /\ e.disturbed = ghost.disturbed /\ [type |-> e.type, payload |-> e.payload] = c
    BY <2>3, <2>4 DEF Arrived, Items
  <2>6. e.disturbed \/ [type |-> e.type, payload |-> e.payload] \in ToSet(sent)
    BY <2>1, <2>5 DEF HandedInv, c
  <2> HIDE DEF e
  <2> QED BY <1>1, <2>1, <2>2, <2>5, <2>6, QueueParts
<1>9. CASE \/ MainTask \/ Read \/ Fetch \/ Body \/ Overrun \/ TestDone \/ Accept \/ Discard \/ Stamp
           \/ Rearm \/ StampByte \/ EndChunk
  <2>1. queue' = queue /\ sent' = sent
    BY <1>9 DEF MainTask, UartInit, GuardStart, Read, Fetch, Body, Overrun, TestDone, Accept, Discard,
                Stamp, Rearm, StampByte, EndChunk, uartOnly, shared
  <2> QED BY <1>3, <2>1
<1>10. CASE CheckGap \/ ResetGap \/ CheckLoss \/ Fire \/ Report
  <2>1. queue' = queue /\ sent' = sent
    BY <1>10 DEF CheckGap, ResetGap, CheckLoss, Fire, Report, guardOnly
  <2> QED BY <1>3, <2>1
<1> QED BY <1>4, <1>5, <1>6, <1>7, <1>8, <1>9, <1>10 DEF Next, UartTask, GuardTask

-----------------------------------------------------------------------------
(* The room in the array.                                                     *)

\* The payload of the parser is not complete and fits, or its length is 0.
Open(r) == r.len = 0 \/ (Len(r.payload) < r.len /\ r.len <= MaxPayload)

\* A payload byte that is about to be stored, or the next one, has room; only a
\* length of 0, declared or left by a clearing, lets the parser run on.
RoomInv ==
  /\ uart.pc # "dataDone" /\ rx.state = "DATA" => Open(rx)
  /\ uart.pc = "body" /\ uart.st = "DATA" => Open(rx)
  /\ uart.pc = "dataDone"
       => rx.len = 0 \/ (Len(rx.payload) <= rx.len /\ rx.len <= MaxPayload)
  /\ uart.pc = "overrun" => rx.len = 0

\* The parser as a length is declared: nothing is stored yet, and it fits.
LEMMA LenOpens ==
  ASSUME NEW r \in Parsers, NEW b \in Bytes, r.len \in Bytes, Len1(r, b).state = "DATA"
  PROVE  Open(Len1(r, b))
<1> DEFINE len == r.len + 256 * b
           next == [r EXCEPT !.len = len, !.crc = CrcUpdate(@, b)]
<1>1. len \in Nat /\ MaxPayload \in Nat
  <2>1. MaxPayload \in Nat
    BY MaxPayloadAssumption DEF MaxWord
  <2>2. r.len \in Nat /\ b \in Nat
    BY DEF Bytes, MaxByte
  <2> QED BY <2>1, <2>2
<1>2. next \in [state : ParserStates, type : Bytes, len : {len}, crc : {CrcUpdate(r.crc, b)},
                 crcRx : Words, payload : Seq(Bytes)]
  BY DEF Parsers
<1>3. Len1(r, b) = IF len > MaxPayload THEN [next EXCEPT !.state = "SYNC0"]
                   ELSE [next EXCEPT !.payload = <<>>, !.state = "DATA"]
  BY DEF Len1
<1> HIDE DEF len, next
<1>4. ~(len > MaxPayload) /\ Len1(r, b) = [next EXCEPT !.payload = <<>>, !.state = "DATA"]
  <2>1. [next EXCEPT !.state = "SYNC0"].state = "SYNC0"
    BY <1>2
  <2> QED BY <1>3, <2>1
<1>5. Len1(r, b).len = len /\ Len1(r, b).payload = <<>>
  BY <1>2, <1>4
<1>6. Len(<<>>) = 0
  BY EmptySeq
<1> QED BY <1>1, <1>4, <1>5, <1>6 DEF Open

\* A byte that is no payload leaves the parser outside a payload, or in one that
\* is open.
LEMMA FeedOpens ==
  ASSUME NEW st \in ParserStates, NEW r \in Parsers, NEW b \in Bytes, st # "DATA",
         st = "LEN1" => r.len \in Bytes, r.state = "DATA" => Open(r),
         FeedByte(st, r, b).state = "DATA"
  PROVE  Open(FeedByte(st, r, b))
<1> DEFINE q == FeedByte(st, r, b)
<1>1. CASE st = "LEN1"
  <2>1. q = Len1(r, b)
    BY <1>1 DEF FeedByte
  <2> HIDE DEF q
  <2>2. Open(q)
    BY <1>1, <2>1, LenOpens DEF q
  <2> QED BY <2>2 DEF q
<1>2. CASE st # "LEN1"
  <2>1. q.state = "DATA" => q = r
    BY <1>2 DEF FeedByte, Sync0, Sync1, Ver, Type, Len0, Crc0, Crc1, Parsers, ParserStates
  <2> HIDE DEF q
  <2>2. Open(q)
    BY <2>1 DEF q
  <2> QED BY <2>2 DEF q
<1> QED BY <1>1, <1>2

\* A payload byte that is stored in an open payload at most completes it.
LEMMA DataOpens ==
  ASSUME NEW r \in Parsers, NEW b \in Bytes, Open(r)
  PROVE  LET q == Data(r, b)
         IN  q.len = 0 \/ (Len(q.payload) <= q.len /\ q.len <= MaxPayload)
<1>1. r.len \in Nat /\ r.payload \in Seq(Bytes)
  BY DEF Parsers, Words
<1>2. Len(r.payload) \in Nat /\ Len(Append(r.payload, b)) = Len(r.payload) + 1
  BY <1>1, AppendProperties, LenProperties
<1> DEFINE q == Data(r, b)
<1>3. q.len = r.len /\ q.payload = Append(r.payload, b)
  BY DEF Data, Parsers
<1> HIDE DEF q
<1>4. q.len = 0 \/ (Len(q.payload) <= q.len /\ q.len <= MaxPayload)
  BY <1>1, <1>2, <1>3 DEF Open
<1> QED BY <1>4 DEF q

\* Every step keeps the room.
LEMMA RoomStep ==
  ASSUME TypeInv, RoomInv, [Next]_vars
  PROVE  RoomInv'
<1>1. /\ uart \in Uarts /\ rx \in Parsers /\ uart.chunk \in Seq(LineBytes)
      /\ Feeding => uart.chunk # <<>>
  BY FrameParts
<1>2. Feeding => NextByte(uart).pc \in {"fetch", "stampByte"}
  BY <1>1, NextByteType
<1>3. ASSUME UNCHANGED <<uart, rx>> PROVE RoomInv'
  BY <1>3 DEF RoomInv, Open
<1>4. ASSUME rx' = rx, uart.pc # "dataDone", uart'.pc \notin {"body", "dataDone", "overrun"}
      PROVE  RoomInv'
  BY <1>4 DEF RoomInv, Open
<1>5. ASSUME rx' = Cleared, uart'.pc # "overrun" \/ uart.pc = "overrun" PROVE RoomInv'
  BY <1>5, ClearedType DEF RoomInv, Open
<1>6. CASE UNCHANGED vars \/ Environment \/ GuardStart
  BY <1>3, <1>6 DEF vars, Environment, PassTime, Send, LoseByte, InsertByte, device,
                    GuardStart, shared
<1>7. CASE UartInit \/ Panic
  <2>1. CASE UartInit
    <3>1. rx' = Cleared /\ uart' = uart
      BY <2>1 DEF UartInit
    <3> QED BY <1>5, <3>1
  <2>2. CASE Panic
    <3>1. rx' = Cleared /\ uart'.pc = "wait"
      BY <2>2 DEF Panic, Off, IdleUart
    <3> QED BY <1>5, <3>1
  <2> QED BY <1>7, <2>1, <2>2
<1>8. CASE GuardTask
  <2>1. uart' = uart
    BY <1>8 DEF GuardTask, Tick, CheckGap, ResetGap, CheckLoss, Fire, Report, guardOnly
  <2>2. rx' = rx \/ rx' = Cleared
    BY <1>8 DEF GuardTask, Tick, CheckGap, ResetGap, CheckLoss, Fire, Report, ClearParser
  <2> QED BY <1>3, <1>5, <2>1, <2>2
<1>9. CASE Read \/ Accept \/ Discard \/ Stamp \/ Rearm \/ HandOver \/ StampByte \/ EndChunk
  <2>1. rx' = rx /\ uart.pc # "dataDone"
    BY <1>9 DEF Read, Accept, Discard, Stamp, Rearm, HandOver, StampByte, EndChunk, shared
  <2>2. uart'.pc \notin {"body", "dataDone", "overrun"}
    <3>1. CASE HandOver \/ Discard
      BY <1>2, <3>1 DEF HandOver, Discard, Feeding
    <3>2. CASE EndChunk
      BY <3>2 DEF EndChunk, IdleUart
    <3>3. CASE Read \/ Accept \/ Stamp \/ Rearm \/ StampByte
      BY <1>1, <3>3 DEF Read, Accept, Stamp, Rearm, StampByte, Uarts
    <3> QED BY <1>9, <3>1, <3>2, <3>3
  <2> QED BY <1>4, <2>1, <2>2
<1>10. CASE Fetch
  <2>1. rx' = rx /\ uart.pc = "fetch" /\ uart'.pc = "body" /\ uart'.st = rx.state
    BY <1>1, <1>10 DEF Fetch, shared, Uarts
  <2> QED BY <2>1 DEF RoomInv, Open
<1>11. CASE Body
  <2> DEFINE b == Head(uart.chunk).val
  <2>1. uart.pc = "body" /\ rx' = FeedByte(uart.st, rx, b) /\ uart.st \in ParserStates
    BY <1>11, Parts DEF Body
  <2>2. b \in Bytes
    <3>1. Head(uart.chunk) \in LineBytes
      BY <1>1, <2>1, HeadTailProperties DEF Feeding
    <3> QED BY <3>1 DEF LineBytes
  <2> HIDE DEF b
  <2>3. CASE uart.st = "DATA"
    <3>1. uart'.pc = "dataDone"
      BY <1>1, <1>11, <2>3 DEF Body, Uarts
    <3>2. rx' = Data(rx, b)
      BY <2>1, <2>3 DEF FeedByte
    <3>3. Open(rx)
      BY <2>1, <2>3 DEF RoomInv
    <3>4. rx'.len = 0 \/ (Len(rx'.payload) <= rx'.len /\ rx'.len <= MaxPayload)
      BY <1>1, <2>2, <3>2, <3>3, DataOpens
    <3> QED BY <3>1, <3>4 DEF RoomInv
  <2>4. CASE uart.st # "DATA"
    <3>1. uart'.pc \in {"compare", "fetch", "stampByte"}
      BY <1>1, <1>2, <1>11, <2>4 DEF Body, Uarts, Feeding
    <3>2. rx.state = "DATA" => Open(rx)
      BY <2>1 DEF RoomInv
    <3>3. uart.st = "LEN1" => rx.len \in Bytes
      BY <2>1 DEF TypeInv, LowBytes
    <3>4. rx'.state = "DATA" => Open(rx')
      BY <1>1, <2>1, <2>2, <2>4, <3>2, <3>3, FeedOpens
    <3> QED BY <3>1, <3>4 DEF RoomInv, Open
  <2> QED BY <2>3, <2>4
<1>12. CASE Overrun
  <2>1. /\ uart.pc = "body" /\ uart.st = "DATA" /\ Len(rx.payload) >= MaxPayload /\ rx' = rx
        /\ uart'.pc = "overrun"
    BY <1>12, OverrunTypes DEF Overrun, Overruns, shared
  <2>2. Open(rx) /\ rx.len \in Nat /\ Len(rx.payload) \in Nat /\ MaxPayload \in Nat
    <3>1. rx.len \in Nat /\ rx.payload \in Seq(Bytes)
      BY Parts DEF Words
    <3>2. Open(rx)
      BY <2>1 DEF RoomInv
    <3>3. MaxPayload \in Nat
      BY MaxPayloadAssumption DEF MaxWord
    <3> QED BY <3>1, <3>2, <3>3, LenProperties
  <2>3. rx.len = 0
    BY <2>1, <2>2 DEF Open
  <2> QED BY <2>1, <2>3 DEF RoomInv, Open
<1>13. CASE TestDone
  <2>1. uart.pc = "dataDone" /\ rx' = DataDone(rx) /\ uart'.pc \in {"fetch", "stampByte"}
    BY <1>2, <1>13 DEF TestDone, Feeding
  <2>2. rx.len = 0 \/ (Len(rx.payload) <= rx.len /\ rx.len <= MaxPayload)
    BY <2>1 DEF RoomInv
  <2>3. rx'.state = "DATA" => rx' = rx /\ Len(rx.payload) # rx.len
    BY <1>1, <2>1 DEF DataDone, Parsers
  <2>4. rx.len \in Nat /\ Len(rx.payload) \in Nat
    <3>1. rx.len \in Nat /\ rx.payload \in Seq(Bytes)
      BY Parts DEF Words
    <3> QED BY <3>1, LenProperties
  <2>5. rx'.state = "DATA" => Open(rx')
    BY <2>2, <2>3, <2>4 DEF Open
  <2> QED BY <2>1, <2>5 DEF RoomInv, Open
<1> QED BY <1>6, <1>7, <1>8, <1>9, <1>10, <1>11, <1>12, <1>13 DEF Next, MainTask, UartTask

-----------------------------------------------------------------------------

\* The inductive invariant of the link holds at all times.
THEOREM LinkInvariant == Spec => []IInv
<1>1. Init => IInv
  BY TypeInit, TimeInit DEF IInv
<1>2. IInv /\ [Next]_vars => IInv'
  BY TypeStep, TimeStep DEF IInv
<1> QED BY <1>1, <1>2, PTL DEF Spec

\* Type correctness: in particular the parser's words stay within sixteen bits, its
\* bytes within eight, its payload within the array and the queue within its length,
\* whatever the line carries, up to the byte that would be written past the array.
THEOREM LinkTypeCorrect == Spec => []TypeOK
<1>1. IInv => TypeOK
  BY DEF IInv, TypeInv
<1> QED BY <1>1, LinkInvariant, PTL

\* The array behind the parser is overrun only by a payload whose length is 0, as an
\* empty frame declares it or a clearing under the UART task's hands leaves it; and
\* never by one the check of the declared length has let through as longer than that.
THEOREM OnlyEmptyFramesEverOverrun == Spec => []OnlyEmptyFramesOverrun
<1>1. Init => RoomInv
  BY DEF Init, RoomInv, IdleUart, Cleared
<1>2. TypeInv /\ RoomInv /\ [Next]_vars => RoomInv'
  BY RoomStep
<1>3. IInv => TypeInv
  BY DEF IInv
<1>4. RoomInv => OnlyEmptyFramesOverrun
  BY DEF RoomInv, OnlyEmptyFramesOverrun
<1> QED BY <1>1, <1>2, <1>3, <1>4, LinkInvariant, PTL DEF Spec

\* on_link_lost is called only after a silence longer than link_lost_ms, but for the
\* two races LossReportIsEarned names: a frame accepted while the tick ran, and a
\* time of which the tick saw one new word and one old.
THEOREM LossReportsAreEarned == Spec => []LossReportIsEarned
<1>1. IInv => LossReportIsEarned
  BY DEF IInv, TimeInv, LossInv, Earned, LossReportIsEarned
<1> QED BY <1>1, LinkInvariant, PTL

\* A silence longer than link_lost_ms is reported once the tick that saw it is over,
\* even if that tick's load of the time was mixed, unless a frame was being
\* accepted while it ran.
THEOREM SilenceAlwaysReported == Spec => []SilenceIsReported
<1>1. IInv => SilenceIsReported
  BY DEF IInv, TimeInv, SilenceInv, SilenceIsReported
<1> QED BY <1>1, LinkInvariant, PTL

\* A tick more than frame_gap_ms after the last chunk leaves the parser searching,
\* but for a mixed time.
THEOREM QuietLineAlwaysResyncs == Spec => []QuietLineResyncs
<1>1. IInv => QuietLineResyncs
  BY DEF IInv, TimeInv, QuietInv, QuietLineResyncs
<1> QED BY <1>1, LinkInvariant, PTL

\* Resynchronisation: whatever noise and whatever other frames came before it, a
\* frame with a payload, all of whose bytes are fed in order to a searching parser, with no clearing in
\* between, is accepted.
THEOREM WholeFramesAlwaysAccepted == Spec => WholeFramesAreAccepted
<1>1. Init => FrameInv
  BY FrameInit
<1>2. TypeInv /\ FrameInv /\ [Next]_vars => FrameInv'
  BY FrameStep
<1>3. TypeInv /\ FrameInv /\ [Next]_vars
        => [(WholeFrameFed /\ sent[ghost.run[1]].payload # <<>>
               /\ uart.pc \in {"body", "dataDone", "compare"}
               /\ uart'.pc # uart.pc) => uart'.pc \in {"dataDone", "compare", "stamp"}]_vars
  BY WholeFrameStep DEF InParser
<1>4. IInv => TypeInv
  BY DEF IInv
<1> QED BY <1>1, <1>2, <1>3, <1>4, LinkInvariant, PTL DEF Spec, WholeFramesAreAccepted

\* What the content needs of the other invariants, all of which hold at all times.
LEMMA WholeInvariant == Spec => [](TypeInv /\ FrameInv /\ HeldInv)
<1>1. Init => FrameInv /\ HeldInv
  BY FrameInit, HeldInit
<1>2. TypeInv /\ FrameInv /\ [Next]_vars => FrameInv'
  BY FrameStep
<1>3. TypeInv /\ FrameInv /\ HeldInv /\ [Next]_vars => HeldInv'
  BY HeldStep
<1>4. IInv => TypeInv
  BY DEF IInv
<1> QED BY <1>1, <1>2, <1>3, <1>4, LinkInvariant, PTL DEF Spec

\* A frame with a payload, all of whose bytes were fed in order, reaches the guard task
\* byte for byte.
THEOREM WholeFramesIntact == Spec => WholeFramesArriveIntact
<1>1. TypeInv /\ FrameInv /\ HeldInv /\ [Next]_vars
        => [(WholeFrameFed /\ sent[ghost.run[1]].payload # <<>> /\ boot = "running"
               /\ uart.pc = "handOver" /\ uart'.pc # "handOver")
              => LET f == sent[ghost.run[1]]
                 IN  queue' = IF f.type = CMD /\ Len(queue) < QueueLen
                              THEN Append(queue, Arrived(f, ghost.disturbed)) ELSE queue]_vars
  BY IntactStep
<1> QED BY <1>1, WholeInvariant, PTL DEF Spec, WholeFramesArriveIntact

\* What reaches the guard task is a frame the host sent, byte for byte, unless the
\* guard task cleared the parser under the UART task's hands, as long as the CRC is
\* not deceived: no step of the two tasks between the comparison of the CRC and the
\* copy can make it anything else.  NoFalseFrame is about sixteen bits of CRC, not
\* about the tasks: of the bytes of a whole frame it asks nothing.
THEOREM QueuedFramesAreSent == Spec /\ []NoFalseFrame => []QueuedFramesWereSent
<1>1. Init => HandedInv /\ QueuedFramesWereSent
  <2>1. DOMAIN <<>> = {}
    OBVIOUS
  <2> QED BY <2>1 DEF Init, HandedInv, QueuedFramesWereSent, IdleUart, HandingOver
<1>2. TypeInv /\ FrameInv /\ HeldInv /\ NoFalseFrame /\ HandedInv /\ [Next]_vars => HandedInv'
  BY HandedStep
<1>3. TypeInv /\ TypeInv' /\ HandedInv /\ QueuedFramesWereSent /\ [Next]_vars
        => QueuedFramesWereSent'
  BY QueueStep
<1> QED BY <1>1, <1>2, <1>3, WholeInvariant, PTL DEF Spec

=============================================================================
