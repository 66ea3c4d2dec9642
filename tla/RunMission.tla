---------------------------- MODULE RunMission -----------------------------
(***************************************************************************)
(* How the archived ground interface turns the bytes of a mission into the *)
(* base64 text that Run Mission sends to the drone (bin2string of          *)
(* Controls/Controls.jsx).  A text is a sequence of digits from 0 to 63    *)
(* and of paddings.                                                        *)
(***************************************************************************)
EXTENDS Integers, SequencesExt

CONSTANTS
  Bytes,      \* bytes that a mission may have
  MaxLength   \* bound on its length

RunMissionAssumption == Bytes \subseteq 0 .. 255 /\ MaxLength \in Nat

Pad == 64

VARIABLES
  mission,   \* the bytes of the mission that was edited
  sent       \* the texts sent, last one first, up to one

runVars == <<mission, sent>>

\* (chunk & mask) >> low, with the mask of bits low .. high - 1
Bits(chunk, low, high) == (chunk % 2^high) \div 2^low

\* A chunk of three bytes as four digits
Chunk(a, b, c) ==
  LET chunk == a * 2^16 + b * 2^8 + c
  IN  <<Bits(chunk, 18, 24), Bits(chunk, 12, 18), Bits(chunk, 6, 12),
        Bits(chunk, 0, 6)>>

\* The last one or two bytes
Remainder(bytes) ==
  CASE Len(bytes) = 0 -> <<>>
    [] Len(bytes) = 1 ->
         <<Bits(bytes[1], 2, 8), Bits(bytes[1], 0, 2) * 2^4, Pad, Pad>>
    [] Len(bytes) = 2 ->
         LET chunk == bytes[1] * 2^8 + bytes[2]
         IN  <<Bits(chunk, 10, 16), Bits(chunk, 4, 10),
               Bits(chunk, 0, 4) * 2^2, Pad>>

\* bin2string
Bin2String(bytes) ==
  LET main == Len(bytes) \div 3
      Digit(k) ==
        LET i == 3 * ((k - 1) \div 4)
        IN  Chunk(bytes[i + 1], bytes[i + 2], bytes[i + 3])[((k - 1) % 4) + 1]
  IN  [k \in 1 .. 4 * main |-> Digit(k)]
        \o Remainder(SubSeq(bytes, 3 * main + 1, Len(bytes)))

RunInit == mission = <<>> /\ sent = <<>>

Edit(byte) ==
  /\ Len(mission) < MaxLength
  /\ mission' = Append(mission, byte) /\ UNCHANGED sent

\* sendRunMissionCommand
SendRunMissionCommand ==
  /\ sent' = <<Bin2String(mission)>> /\ UNCHANGED mission

RunNext == (\E byte \in Bytes : Edit(byte)) \/ SendRunMissionCommand

RunSpec == RunInit /\ [][RunNext]_runVars

-----------------------------------------------------------------------------

\* What base64 means: the digits of a text are the bits of its bytes, six at a
\* time, filled up with zeros, and paddings make it a multiple of four long.
BitOf(number, width, i) == Bits(number, width - 1 - i, width - i)

BitsOfBytes(bytes) ==
  [k \in 0 .. 8 * Len(bytes) - 1 |-> BitOf(bytes[(k \div 8) + 1], 8, k % 8)]

IsBase64Of(text, bytes) ==
  LET digits == (8 * Len(bytes) + 5) \div 6
      bits == BitsOfBytes(bytes)
  IN  /\ Len(text) % 4 = 0 /\ Len(text) - digits \in 0 .. 2
      /\ \A k \in digits + 1 .. Len(text) : text[k] = Pad
      /\ \A k \in 0 .. 6 * digits - 1 :
           BitOf(text[(k \div 6) + 1], 6, k % 6)
             = IF k \in DOMAIN bits THEN bits[k] ELSE 0

\* The drone can read back the bytes of the mission that was there when Run
\* Mission was pressed, of any length.
SendsBase64  == SendRunMissionCommand => IsBase64Of(sent'[1], mission)
SentIsBase64 == [][SendsBase64]_runVars

=============================================================================
