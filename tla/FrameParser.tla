---------------------------- MODULE FrameParser ----------------------------
(* The framed-protocol receiver of code/portable/frame/frame.c: one byte in, *)
(* one event out.  A frame is STX | LEN | payload | CRC low | CRC high | ETX,*)
(* with no escaping, so any byte of a frame may have the value of STX.       *)
(* payload holds the index bytes stored so far, so p->index is its length.   *)
(* Of the diagnostic counters, which nothing reads, the event tells the one  *)
(* that was incremented; a NONE in IDLE after IDLE is a discarded byte.      *)
EXTENDS Integers, Sequences

CONSTANTS
    Base,        \* bytes are 0 .. Base - 1 (256)
    STX, ETX,    \* FRAME_STX, FRAME_ETX
    MaxPayload,  \* FRAME_MAX_PAYLOAD
    CrcInit,     \* 0xFFFF
    CrcUpdate(_, _)  \* crc16_ccitt_update: a CRC and the next byte

Byte == 0 .. Base - 1

Crc == 0 .. Base * Base - 1

ASSUME ParserAssumption ==
    /\ Base \in Nat /\ STX \in Byte /\ ETX \in Byte
    /\ MaxPayload \in Byte
    /\ CrcInit \in Crc
    /\ \A crc \in Crc, b \in Byte : CrcUpdate(crc, b) \in Crc

VARIABLES p, ev

parserVars == <<p, ev>>

ParserState ==
    [ state : {"IDLE", "LEN", "PAYLOAD", "CRC_LO", "CRC_HI", "ETX"},
      payload : Seq(Byte),
      length : 0 .. MaxPayload,
      crcReceived : Crc,
      crcComputed : Crc ]

Event == {"NONE", "COMPLETE", "ERR_LENGTH", "ERR_CRC", "ERR_FRAMING"}

Idle == [ state |-> "IDLE", payload |-> <<>>, length |-> 0,
          crcReceived |-> 0, crcComputed |-> CrcInit ]

\* frame_reset: back to hunting, whatever was in progress.
Reset == p' = Idle /\ ev' = "NONE"

ParserInit == p = Idle /\ ev = "NONE"

-----------------------------------------------------------------------------
(* frame_feed, one action per case of the switch. *)

\* Mutant: the checksum of the frame before is carried on.
Hunt_KeepsCrc(b) ==
    /\ p.state = "IDLE"
    /\ p' = IF b = STX
            THEN [p EXCEPT !.length = 0, !.payload = <<>>, !.state = "LEN"]
            ELSE p
    /\ ev' = "NONE"

Hunt(b) ==
    /\ p.state = "IDLE"
    /\ p' = IF b = STX
            THEN [p EXCEPT !.length = 0, !.payload = <<>>,
                           !.crcComputed = CrcInit, !.state = "LEN"]
            ELSE p
    /\ ev' = "NONE"

\* Mutant: a length of MaxPayload + 1 is let through.
TooLong_Late(b) == b > MaxPayload + 1

TooLong(b) == b > MaxPayload

FeedLength(b) ==
    /\ p.state = "LEN"
    /\ \/ /\ TooLong(b)
          /\ p' = [p EXCEPT !.state = "IDLE"]
          /\ ev' = "ERR_LENGTH"
       \/ /\ ~TooLong(b)
          /\ p' = [p EXCEPT !.length = b,
                            !.crcComputed = CrcUpdate(@, b),
                            !.state = IF b = 0 THEN "CRC_LO" ELSE "PAYLOAD"]
          /\ ev' = "NONE"

FeedPayload(b) ==
    /\ p.state = "PAYLOAD"
    /\ p' = [p EXCEPT !.payload = Append(@, b),
                      !.crcComputed = CrcUpdate(@, b),
                      !.state = IF Len(p.payload) + 1 >= p.length
                                THEN "CRC_LO" ELSE "PAYLOAD"]
    /\ ev' = "NONE"

FeedCrcLow(b) ==
    /\ p.state = "CRC_LO"
    /\ p' = [p EXCEPT !.crcReceived = b, !.state = "CRC_HI"]
    /\ ev' = "NONE"

\* Mutant: a mismatch is reported but the state is left as it was.
FeedCrcHigh_NoReturn(b) ==
    /\ p.state = "CRC_HI"
    /\ LET matches == p.crcReceived + Base * b = p.crcComputed
       IN /\ p' = IF matches THEN [p EXCEPT !.state = "ETX"] ELSE p
          /\ ev' = IF matches THEN "NONE" ELSE "ERR_CRC"

\* Mutant: only the low byte of the checksum is compared.
FeedCrcHigh_LowOnly(b) ==
    /\ p.state = "CRC_HI"
    /\ LET matches == p.crcReceived = p.crcComputed % Base
       IN /\ p' = [p EXCEPT !.state = IF matches THEN "ETX" ELSE "IDLE"]
          /\ ev' = IF matches THEN "NONE" ELSE "ERR_CRC"

FeedCrcHigh(b) ==
    /\ p.state = "CRC_HI"
    /\ LET received == p.crcReceived + Base * b
       IN \/ /\ received # p.crcComputed
             /\ p' = [p EXCEPT !.crcReceived = received, !.state = "IDLE"]
             /\ ev' = "ERR_CRC"
          \/ /\ received = p.crcComputed
             /\ p' = [p EXCEPT !.crcReceived = received, !.state = "ETX"]
             /\ ev' = "NONE"

\* Mutant: the parser waits for the ETX that is missing.
FeedEtx_Waits(b) ==
    /\ p.state = "ETX"
    /\ p' = IF b = ETX THEN [p EXCEPT !.state = "IDLE"] ELSE p
    /\ ev' = IF b = ETX THEN "COMPLETE" ELSE "ERR_FRAMING"

FeedEtx(b) ==
    /\ p.state = "ETX"
    /\ p' = [p EXCEPT !.state = "IDLE"]
    /\ ev' = IF b = ETX THEN "COMPLETE" ELSE "ERR_FRAMING"

Feed(b) ==
    \/ Hunt(b)
    \/ FeedLength(b)
    \/ FeedPayload(b)
    \/ FeedCrcLow(b)
    \/ FeedCrcHigh(b)
    \/ FeedEtx(b)

-----------------------------------------------------------------------------
ParserTypeOK == p \in ParserState /\ ev \in Event

\* Whatever comes in, a byte is stored only where there is room for it, and
\* what a complete frame reports is as long as its length says ("It cannot
\* overrun: LEN is bounds-checked before a single payload byte is stored",
\* frame.h:10).
PayloadWithinBuffer ==
    /\ Len(p.payload) <= MaxPayload
    /\ p.state = "PAYLOAD" => Len(p.payload) < p.length
    /\ p.state \in {"CRC_LO", "CRC_HI", "ETX"} \/ ev = "COMPLETE" =>
         Len(p.payload) = p.length

\* At most so many bytes are left of the frame in progress.
Remaining ==
    CASE p.state = "IDLE"    -> 0
      [] p.state = "LEN"     -> MaxPayload + 4
      [] p.state = "PAYLOAD" -> p.length - Len(p.payload) + 3
      [] p.state = "CRC_LO"  -> 3
      [] p.state = "CRC_HI"  -> 2
      [] p.state = "ETX"     -> 1

=============================================================================
