-------------------------------- MODULE Crc16 --------------------------------
(***************************************************************************)
(* mboot_crc16 of mm-tools, of which configure takes one of two: crc16.c with a  *)
(* table, or crc16_soft.c, bit by bit.  A packet has the CRC of all its data    *)
(* (mm_api.c), an image one that is made byte after byte (upgrade_op).          *)
(***************************************************************************)
EXTENDS Integers, Sequences, FiniteSets, SequencesExt, Bitwise

CONSTANTS
  Bytes,        \* that a message begins with
  MoreBytes,    \* and that it goes on with
  MaxLen        \* bound: bytes of a message

Crc16Assumption == Bytes \cup MoreBytes \subseteq 0 .. 255 /\ MaxLen \in Nat

VARIABLES
  soft,         \* --enable-soft-crc
  message,
  crc_init      \* of upgrade_op

crcvars == <<soft, message, crc_init>>

crc16_table ==
  <<
    \h0000, \h1021, \h2042, \h3063, \h4084, \h50A5, \h60C6, \h70E7,
    \h8108, \h9129, \hA14A, \hB16B, \hC18C, \hD1AD, \hE1CE, \hF1EF,
    \h1231, \h0210, \h3273, \h2252, \h52B5, \h4294, \h72F7, \h62D6,
    \h9339, \h8318, \hB37B, \hA35A, \hD3BD, \hC39C, \hF3FF, \hE3DE,
    \h2462, \h3443, \h0420, \h1401, \h64E6, \h74C7, \h44A4, \h5485,
    \hA56A, \hB54B, \h8528, \h9509, \hE5EE, \hF5CF, \hC5AC, \hD58D,
    \h3653, \h2672, \h1611, \h0630, \h76D7, \h66F6, \h5695, \h46B4,
    \hB75B, \hA77A, \h9719, \h8738, \hF7DF, \hE7FE, \hD79D, \hC7BC,
    \h48C4, \h58E5, \h6886, \h78A7, \h0840, \h1861, \h2802, \h3823,
    \hC9CC, \hD9ED, \hE98E, \hF9AF, \h8948, \h9969, \hA90A, \hB92B,
    \h5AF5, \h4AD4, \h7AB7, \h6A96, \h1A71, \h0A50, \h3A33, \h2A12,
    \hDBFD, \hCBDC, \hFBBF, \hEB9E, \h9B79, \h8B58, \hBB3B, \hAB1A,
    \h6CA6, \h7C87, \h4CE4, \h5CC5, \h2C22, \h3C03, \h0C60, \h1C41,
    \hEDAE, \hFD8F, \hCDEC, \hDDCD, \hAD2A, \hBD0B, \h8D68, \h9D49,
    \h7E97, \h6EB6, \h5ED5, \h4EF4, \h3E13, \h2E32, \h1E51, \h0E70,
    \hFF9F, \hEFBE, \hDFDD, \hCFFC, \hBF1B, \hAF3A, \h9F59, \h8F78,
    \h9188, \h81A9, \hB1CA, \hA1EB, \hD10C, \hC12D, \hF14E, \hE16F,
    \h1080, \h00A1, \h30C2, \h20E3, \h5004, \h4025, \h7046, \h6067,
    \h83B9, \h9398, \hA3FB, \hB3DA, \hC33D, \hD31C, \hE37F, \hF35E,
    \h02B1, \h1290, \h22F3, \h32D2, \h4235, \h5214, \h6277, \h7256,
    \hB5EA, \hA5CB, \h95A8, \h8589, \hF56E, \hE54F, \hD52C, \hC50D,
    \h34E2, \h24C3, \h14A0, \h0481, \h7466, \h6447, \h5424, \h4405,
    \hA7DB, \hB7FA, \h8799, \h97B8, \hE75F, \hF77E, \hC71D, \hD73C,
    \h26D3, \h36F2, \h0691, \h16B0, \h6657, \h7676, \h4615, \h5634,
    \hD94C, \hC96D, \hF90E, \hE92F, \h99C8, \h89E9, \hB98A, \hA9AB,
    \h5844, \h4865, \h7806, \h6827, \h18C0, \h08E1, \h3882, \h28A3,
    \hCB7D, \hDB5C, \hEB3F, \hFB1E, \h8BF9, \h9BD8, \hABBB, \hBB9A,
    \h4A75, \h5A54, \h6A37, \h7A16, \h0AF1, \h1AD0, \h2AB3, \h3A92,
    \hFD2E, \hED0F, \hDD6C, \hCD4D, \hBDAA, \hAD8B, \h9DE8, \h8DC9,
    \h7C26, \h6C07, \h5C64, \h4C45, \h3CA2, \h2C83, \h1CE0, \h0CC1,
    \hEF1F, \hFF3E, \hCF5D, \hDF7C, \hAF9B, \hBFBA, \h8FD9, \h9FF8,
    \h6E17, \h7E36, \h4E55, \h5E74, \h2E93, \h3EB2, \h0ED1, \h1EF0
  >>

\* crc << 8 is more than an unsigned short holds.
TableStep(crc, byte) ==
  crc16_table[1 + (((crc \div 256) ^^ byte) % 256)] ^^ ((crc * 256) % 65536)

\* One bit of ch goes in, and one of crc comes out.
Bit(crc, bit) ==
  LET c == 2 * crc + bit IN IF c > 65535 THEN (c % 65536) ^^ 4129 ELSE c

shitfer(ch, init) ==
  FoldLeft(Bit, init, [n \in 1 .. 8 |-> (ch \div (2 ^ (8 - n))) % 2])

mboot_crc16(init, buffer) ==
  IF soft THEN FoldLeft(LAMBDA crc, byte : shitfer(byte, crc), init, buffer \o <<0, 0>>)
          ELSE FoldLeft(TableStep, init, buffer)

Init == soft \in BOOLEAN /\ message = <<>> /\ crc_init = 0

\* In upgrade_op: fgetc, and a call for the one byte.
NextByte ==
  /\ Len(message) < MaxLen
  /\ \E byte \in IF message = <<>> THEN Bytes ELSE MoreBytes :
       /\ message' = Append(message, byte)
       /\ crc_init' = mboot_crc16(crc_init, <<byte>>)
  /\ UNCHANGED soft

Spec == Init /\ [][NextByte]_crcvars

-----------------------------------------------------------------------------
\* x^k modulo x^16 + x^12 + x^5 + 1.
PowerOfX[k \in 0 .. 8 * MaxLen + 15] ==
  IF k = 0 THEN 1
  ELSE LET p == 2 * PowerOfX[k - 1] IN IF p > 65535 THEN (p - 65536) ^^ (4096 + 32 + 1) ELSE p

\* The exponents of the bits that are set, in a message with sixteen zero bits after it.
Exponents ==
  {k + 16 : k \in {k \in 0 .. 8 * Len(message) - 1 :
                     (message[Len(message) - (k \div 8)] \div (2 ^ (k % 8))) % 2 = 1}}

Remainder == FoldSet(LAMBDA k, sum : PowerOfX[k] ^^ sum, 0, Exponents)

\* mboot_crc16 is the remainder of the division by the polynomial, for either source file
\* and any message from 0 on.  The sum of an image is too when it is made with the table,
\* but not bit by bit: crc16_soft.c puts two zeros behind every single byte.
CrcIsRemainder ==
  /\ mboot_crc16(0, message) = Remainder
  /\ ~soft => crc_init = Remainder
=============================================================================
