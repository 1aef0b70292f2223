------------------------------ MODULE FrameCrc ------------------------------
(* crc16_ccitt_update of code/portable/frame/frame.c, most significant bit   *)
(* first, for bytes of Bits bits and a checksum of two bytes: Bits is 8 and  *)
(* Poly is 0x1021 in the code.                                               *)
EXTENDS Integers, Bitwise

CONSTANTS Bits, Poly

Radix == 2 ^ Bits

Shift(crc) ==
    LET twice == (2 * crc) % (Radix * Radix)
    IN  IF 2 * crc >= Radix * Radix THEN twice ^^ Poly ELSE twice

Update(crc, byte) ==
    LET shifted[n \in 0 .. Bits] ==
            IF n = 0 THEN crc ^^ (Radix * byte) ELSE Shift(shifted[n - 1])
    IN  shifted[Bits]

=============================================================================
