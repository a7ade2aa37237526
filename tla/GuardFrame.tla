------------------------------ MODULE GuardFrame ------------------------------
(***************************************************************************)
(* The frame format of the command link (guard_frame.c): packing, the      *)
(* CRC-16 and the incremental parser.  The parser is a record, as in the   *)
(* code, and feeding it a byte is split where another task can see or      *)
(* disturb it: the body of the switch, the completion test after a payload *)
(* byte, and the comparison of the two CRCs.                               *)
(***************************************************************************)
EXTENDS Integers, Sequences, SequencesExt

CONSTANT MaxPayload      \* GUARD_FRAME_MAX_PAYLOAD

MaxByte == 255           \* uint8_t
MaxWord == 65535         \* uint16_t
Bytes == 0 .. MaxByte
Words == 0 .. MaxWord

ASSUME MaxPayloadAssumption == MaxPayload \in 1 .. MaxWord

\* 'H', 'X', the protocol version and the two frame types (guard_cmd.h).
MagicH == 72
MagicL == 88
Version == 1
CMD == 1
REPLY == 2

\* Exclusive or of words of 1, 2, 4, 8 and 16 bits, each by its two halves.
Xor1(a, b) == (a + b) % 2
Xor2(a, b) == 2 * Xor1(a \div 2, b \div 2) + Xor1(a % 2, b % 2)
Xor4(a, b) == 4 * Xor2(a \div 4, b \div 4) + Xor2(a % 4, b % 4)
Xor8(a, b) == 16 * Xor4(a \div 16, b \div 16) + Xor4(a % 16, b % 16)
Xor16(a, b) == 256 * Xor8(a \div 256, b \div 256) + Xor8(a % 256, b % 256)

\* CRC-16, polynomial 0x1021, initial value 0: eight shifts for each byte.
Shift(crc) ==
  IF crc >= 32768 THEN Xor16((2 * crc) % 65536, 4129) ELSE 2 * crc

Shift2(crc) == Shift(Shift(crc))
Shift4(crc) == Shift2(Shift2(crc))

CrcUpdate(crc, byte) == Shift4(Shift4(Xor16(crc, 256 * byte)))

\* The register before the first byte and after each.
CrcSteps(bytes) ==
  LET crc[n \in 0 .. Len(bytes)] == IF n = 0 THEN 0 ELSE CrcUpdate(crc[n - 1], bytes[n])
  IN  crc

Crc(bytes) == CrcSteps(bytes)[Len(bytes)]

\* The frame of a payload: magic, version, type, length and CRC with the low
\* byte first; the CRC covers the length and the payload.
LowHigh(n) == <<n % 256, n \div 256>>

Pack(type, payload) ==
  LET body == LowHigh(Len(payload)) \o payload
  IN  <<MagicH, MagicL, Version, type>> \o body \o LowHigh(Crc(body))

-----------------------------------------------------------------------------

ParserStates ==
  {"SYNC0", "SYNC1", "VER", "TYPE", "LEN0", "LEN1", "DATA", "CRC0", "CRC1"}

Parsers ==
  [state : ParserStates, type : Bytes, len : Words, crc : Words, crcRx : Words,
   payload : Seq(Bytes)]

\* guard_frame_rx_init.  payload holds the bytes got so far: its length is got,
\* and there is room for MaxPayload of them (Overruns).
Cleared ==
  [state |-> "SYNC0", type |-> 0, len |-> 0, crc |-> 0, crcRx |-> 0, payload |-> <<>>]

\* The body of one case of the switch in guard_frame_rx_feed, up to the
\* completion test of GF_DATA and the CRC comparison of GF_CRC1.  st is the
\* state the switch read; rx is the parser as the body finds it.
Sync0(rx, b) == IF b = MagicH THEN [rx EXCEPT !.state = "SYNC1"] ELSE rx

\* Mutant of Len1: the declared length is not held against the array.
Len1WithoutLimit(rx, b) ==
  [rx EXCEPT !.len = @ + 256 * b, !.crc = CrcUpdate(@, b), !.payload = <<>>, !.state = "DATA"]

\* Mutant of Sync1: an 'H' after an 'H' is not taken as a new beginning.
Sync1WithoutReentry(rx, b) ==
  [rx EXCEPT !.state = IF b = MagicL THEN "VER" ELSE "SYNC0"]

Sync1(rx, b) ==
  IF b = MagicH THEN rx ELSE [rx EXCEPT !.state = IF b = MagicL THEN "VER" ELSE "SYNC0"]

Ver(rx, b) == [rx EXCEPT !.state = IF b = Version THEN "TYPE" ELSE "SYNC0"]

Type(rx, b) ==
  IF b \in {CMD, REPLY}
  THEN [rx EXCEPT !.type = b, !.state = "LEN0"]
  ELSE [rx EXCEPT !.state = "SYNC0"]

Len0(rx, b) == [rx EXCEPT !.len = b, !.crc = CrcUpdate(0, b), !.state = "LEN1"]

\* A high byte is set over a word that holds only its low byte: the sum is the
\* code's bitwise or.
Len1(rx, b) ==
  LET len == rx.len + 256 * b
      next == [rx EXCEPT !.len = len, !.crc = CrcUpdate(@, b)]
  IN  IF len > MaxPayload
      THEN [next EXCEPT !.state = "SYNC0"]
      ELSE [next EXCEPT !.payload = <<>>, !.state = "DATA"]

Data(rx, b) == [rx EXCEPT !.payload = Append(@, b), !.crc = CrcUpdate(@, b)]

\* rx->payload[rx->got++] has no bound: the byte would be written past the array.
Overruns(st, rx) == st = "DATA" /\ Len(rx.payload) >= MaxPayload

Crc0(rx, b) == [rx EXCEPT !.crcRx = b, !.state = "CRC1"]

Crc1(rx, b) == [rx EXCEPT !.crcRx = @ + 256 * b, !.state = "SYNC0"]

FeedByte(st, rx, b) ==
  IF st = "SYNC0" THEN Sync0(rx, b)
  ELSE IF st = "SYNC1" THEN Sync1(rx, b)
  ELSE IF st = "VER" THEN Ver(rx, b)
  ELSE IF st = "TYPE" THEN Type(rx, b)
  ELSE IF st = "LEN0" THEN Len0(rx, b)
  ELSE IF st = "LEN1" THEN Len1(rx, b)
  ELSE IF st = "DATA" THEN Data(rx, b)
  ELSE IF st = "CRC0" THEN Crc0(rx, b) ELSE Crc1(rx, b)

\* The test after a payload byte (got == len).
DataDone(rx) == IF Len(rx.payload) = rx.len THEN [rx EXCEPT !.state = "CRC0"] ELSE rx

\* Mutant of CrcHolds: the CRC is not compared.
CrcIgnored(rx) == TRUE

\* The test after the last byte.
CrcHolds(rx) == rx.crcRx = rx.crc

=============================================================================
