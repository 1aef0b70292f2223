---------------------------- MODULE MCFrameLink ----------------------------
(* FrameLink with bytes of three bits and a checksum of six.  The generator  *)
(* x^6 + x + 1 detects, as x^16 + x^12 + x^5 + 1 does, every error confined  *)
(* to one byte.                                                              *)
EXTENDS FrameLink, FiniteSets, Bitwise

Small == INSTANCE FrameCrc WITH Bits <- 3, Poly <- 3

Full == INSTANCE FrameCrc WITH Bits <- 8, Poly <- 4129

SmallCrc == [crcIn \in 0 .. 63, b \in 0 .. 7 |-> Small!Update(crcIn, b)]

MCCrcUpdate(crcIn, b) == SmallCrc[crcIn, b]

\* The check value of CRC-16/CCITT-FALSE (test_frame.c): "123456789" sums to
\* 0x29B1.
CrcOfDigits[n \in 0 .. 9] ==
    IF n = 0 THEN 65535 ELSE Full!Update(CrcOfDigits[n - 1], 48 + n)

ASSUME KnownAnswer == CrcOfDigits[9] = 10673

\* Both checksums tell any two bytes, and any two sums before a byte, apart.
\* The 256 * 65536 cases of the full one are 65536: a byte is added to the high
\* byte of the sum, and what is done then is one to one.
ASSUME SmallDetects == OneByteDetected

ASSUME FullDetects ==
    /\ \A b \in {1, 85, 255} : Full!Update(4660, b) = Full!Update(4660 ^^ (256 * b), 0)
    /\ Cardinality({Full!Update(crcIn, 0) : crcIn \in 0 .. 65535}) = 65536

\* No payload, one that holds an STX, one of other bytes, a full one.
MCPayload == {<<>>, <<2>>, <<4, 7>>, <<1, 2, 3>>}

=============================================================================
