-------------------------- MODULE FrameLink_proofs --------------------------
(* What the parser promises, for any byte size, payload size, checksum       *)
(* function, choice of payloads and number of faults: it keeps within its    *)
(* buffer, it always gets back to hunting, and an undamaged frame that finds *)
(* it hunting is delivered.                                                  *)
EXTENDS FrameLink, TLAPS

-----------------------------------------------------------------------------
(* Two bytes make a checksum.                                                *)

LEMMA TwoBytes ==
    ASSUME NEW n \in Nat \ {0}, NEW c \in 0 .. n * n - 1
    PROVE  /\ c % n \in 0 .. n - 1
           /\ c \div n \in 0 .. n - 1
           /\ (c % n) + n * (c \div n) = c
<1> DEFINE q == c \div n
           r == c % n
<1>1. q \in Int /\ r \in 0 .. n - 1 /\ c = n * q + r
  OBVIOUS
<1> HIDE DEF q, r
<1>2. q >= 0
  <2>1. SUFFICES ASSUME q <= -1 PROVE FALSE
    BY <1>1
  <2>2. n * q <= -n
    BY <1>1, <2>1
  <2> QED  BY <1>1, <2>2
<1>3. q <= n - 1
  <2>1. SUFFICES ASSUME q >= n PROVE FALSE
    BY <1>1
  <2>2. n * q >= n * n
    BY <1>1, <2>1
  <2> QED  BY <1>1, <2>2
<1>4. r + n * q = c
  BY <1>1
<1> QED  BY <1>1, <1>2, <1>3, <1>4 DEF q, r

-----------------------------------------------------------------------------
(* The bytes on the line.                                                    *)

\* The value of a byte sent or damaged is a byte.
LEMMA NextByteIsByte ==
    ASSUME LinkTypeOK
    PROVE  NextByte \in Byte
<1>1. Len(msg) \in Byte /\ msg \in Seq(Byte)
  BY LinkAssumption, ParserAssumption DEF LinkTypeOK, Byte
<1>2. crc % Base \in Byte /\ crc \div Base \in Byte
  <2>1. Base \in Nat \ {0} /\ crc \in 0 .. Base * Base - 1
    BY ParserAssumption DEF LinkTypeOK, Crc, Byte
  <2>2. crc % Base \in 0 .. Base - 1 /\ crc \div Base \in 0 .. Base - 1
    BY <2>1, TwoBytes
  <2> QED  BY <2>2 DEF Byte
<1>3. ASSUME at \in 3 .. Len(msg) + 2 PROVE msg[at - 2] \in Byte
  BY <1>1, <1>3
<1> QED  BY <1>1, <1>2, <1>3, ParserAssumption DEF NextByte, Byte

-----------------------------------------------------------------------------
(* The parser: its invariant holds through every call of frame_feed.         *)

ParserInv ==
    /\ ParserTypeOK
    /\ PayloadWithinBuffer
    /\ p.state = "LEN" => p.payload = <<>>
    /\ p.state = "CRC_HI" => p.crcReceived \in Byte

LEMMA BytesAndSums ==
    /\ Base \in Nat \ {0} /\ MaxPayload \in Nat
    /\ CrcInit \in Crc /\ 0 \in Crc /\ Byte \subseteq Crc
    /\ Byte \subseteq Nat /\ Crc \subseteq Nat
    /\ \A low \in Byte, high \in Byte : low + Base * high \in Crc
<1>1. Base \in Nat \ {0} /\ MaxPayload \in Nat /\ CrcInit \in Crc
  BY ParserAssumption DEF Byte
<1>2. ASSUME NEW low \in Byte, NEW high \in Byte
      PROVE  low + Base * high \in 0 .. Base * Base - 1
  <2>1. low \in 0 .. Base - 1 /\ high \in 0 .. Base - 1
    BY DEF Byte
  <2>2. Base * high >= 0 /\ Base * high <= Base * (Base - 1)
    BY <1>1, <2>1
  <2> QED  BY <1>1, <2>1, <2>2
<1>3. Base - 1 <= Base * Base - 1
  BY <1>1
<1> QED  BY <1>1, <1>2, <1>3 DEF Byte, Crc

LEMMA IdleIsFine == p = Idle /\ ev = "NONE" => ParserInv
BY BytesAndSums DEF Idle, ParserInv, ParserTypeOK, ParserState, Event,
                    PayloadWithinBuffer

LEMMA EmptyPayload == <<>> \in Seq(Byte) /\ 0 \in 0 .. MaxPayload
BY BytesAndSums

LEMMA IdleKeepsType ==
    ASSUME p \in ParserState, p' = [p EXCEPT !.state = "IDLE"]
    PROVE  p' \in ParserState
BY Zenon DEF ParserState

LEMMA AppendType ==
    ASSUME NEW s \in Seq(Byte), NEW b \in Byte
    PROVE  Append(s, b) \in Seq(Byte) /\ Len(Append(s, b)) = Len(s) + 1
OBVIOUS

\* One byte, any byte, in any state of the parser.
LEMMA FeedKeepsParser ==
    ASSUME ParserInv, NEW b \in Byte, Feed(b)
    PROVE  /\ ParserInv'
           /\ p.state # "IDLE" => Remaining' < Remaining
<1>0. /\ p \in ParserState /\ ev \in Event /\ PayloadWithinBuffer
      /\ p.payload \in Seq(Byte) /\ Len(p.payload) \in Nat
      /\ p.length \in 0 .. MaxPayload
      /\ p.crcReceived \in Crc /\ p.crcComputed \in Crc
      /\ p.state \in {"IDLE", "LEN", "PAYLOAD", "CRC_LO", "CRC_HI", "ETX"}
      /\ p.state = "LEN" => p.payload = <<>>
      /\ p.state = "CRC_HI" => p.crcReceived \in Byte
  BY DEF ParserInv, ParserTypeOK, ParserState
<1>sum. CrcUpdate(p.crcComputed, b) \in Crc
  BY <1>0, ParserAssumption
<1>1. CASE Hunt(b)
  <2>1. CASE b # STX
    BY <1>0, <1>1, <2>1
       DEF Hunt, ParserInv, ParserTypeOK, PayloadWithinBuffer, Event
  <2>2. CASE b = STX
    <3>1. p' \in ParserState
      BY <1>0, <1>1, <2>2, BytesAndSums, EmptyPayload, Zenon
         DEF Hunt, ParserState
    <3>2. p'.state = "LEN" /\ p'.payload = <<>> /\ ev' = "NONE"
          /\ p.state = "IDLE"
      BY <1>0, <1>1, <2>2 DEF Hunt, ParserState
    <3> QED
      BY <3>1, <3>2, BytesAndSums
         DEF ParserInv, ParserTypeOK, PayloadWithinBuffer, Event
  <2> QED  BY <2>1, <2>2
<1>2. CASE FeedLength(b)
  <2>1. CASE TooLong(b)
    <3>1. p' = [p EXCEPT !.state = "IDLE"] /\ ev' = "ERR_LENGTH"
          /\ p.state = "LEN"
      BY <1>2, <2>1 DEF FeedLength
    <3>2. p'.state = "IDLE" /\ p'.payload = p.payload /\ p'.length = p.length
      BY <1>0, <3>1 DEF ParserState
    <3> QED
      BY <1>0, <3>1, <3>2, BytesAndSums, IdleKeepsType
         DEF ParserInv, ParserTypeOK, PayloadWithinBuffer, Event, Remaining
  <2>2. CASE ~TooLong(b)
    <3> DEFINE next == IF b = 0 THEN "CRC_LO" ELSE "PAYLOAD"
    <3>1. p' = [p EXCEPT !.length = b,
                         !.crcComputed = CrcUpdate(p.crcComputed, b),
                         !.state = next] /\ ev' = "NONE" /\ p.state = "LEN"
      BY <1>2, <2>2 DEF FeedLength
    <3>2. b \in 0 .. MaxPayload /\ b \in Nat
      BY <2>2, BytesAndSums DEF TooLong
    <3>3. next \in {"IDLE", "LEN", "PAYLOAD", "CRC_LO", "CRC_HI", "ETX"}
      OBVIOUS
    <3>4. p' \in ParserState
      <4> HIDE DEF next
      <4> QED  BY <1>0, <1>sum, <3>1, <3>2, <3>3, Zenon DEF ParserState
    <3>5. p'.state = next /\ p'.payload = <<>> /\ p'.length = b
      BY <1>0, <3>1 DEF ParserState
    <3> QED
      BY <1>0, <3>1, <3>2, <3>4, <3>5, BytesAndSums
         DEF ParserInv, ParserTypeOK, PayloadWithinBuffer, Event, Remaining
  <2> QED  BY <2>1, <2>2
<1>3. CASE FeedPayload(b)
  <2> DEFINE next == IF Len(p.payload) + 1 >= p.length
                     THEN "CRC_LO" ELSE "PAYLOAD"
  <2>1. p' = [p EXCEPT !.payload = Append(p.payload, b),
                       !.crcComputed = CrcUpdate(p.crcComputed, b),
                       !.state = next] /\ ev' = "NONE" /\ p.state = "PAYLOAD"
    BY <1>3 DEF FeedPayload
  <2>2. Append(p.payload, b) \in Seq(Byte)
        /\ Len(Append(p.payload, b)) = Len(p.payload) + 1
    BY <1>0, AppendType
  <2>3. next \in {"IDLE", "LEN", "PAYLOAD", "CRC_LO", "CRC_HI", "ETX"}
    OBVIOUS
  <2>4. p' \in ParserState
    <3> HIDE DEF next
    <3> QED  BY <1>0, <1>sum, <2>1, <2>2, <2>3, Zenon DEF ParserState
  <2>5. p'.state = next /\ p'.payload = Append(p.payload, b)
        /\ p'.length = p.length
    BY <1>0, <2>1 DEF ParserState
  <2>6. Len(p.payload) < p.length /\ p.length \in Nat /\ p.length <= MaxPayload
    BY <1>0, <2>1, BytesAndSums DEF PayloadWithinBuffer
  <2> QED
    BY <1>0, <2>1, <2>2, <2>4, <2>5, <2>6, BytesAndSums
       DEF ParserInv, ParserTypeOK, PayloadWithinBuffer, Event, Remaining
<1>4. CASE FeedCrcLow(b)
  <2>1. p' = [p EXCEPT !.crcReceived = b, !.state = "CRC_HI"] /\ ev' = "NONE"
        /\ p.state = "CRC_LO"
    BY <1>4 DEF FeedCrcLow
  <2>2. b \in Crc
    BY BytesAndSums
  <2>3. p' \in ParserState
    BY <1>0, <2>1, <2>2, Zenon DEF ParserState
  <2>4. p'.state = "CRC_HI" /\ p'.payload = p.payload /\ p'.length = p.length
        /\ p'.crcReceived = b
    BY <1>0, <2>1 DEF ParserState
  <2> QED
    BY <1>0, <2>1, <2>3, <2>4
       DEF ParserInv, ParserTypeOK, PayloadWithinBuffer, Event, Remaining
<1>5. CASE FeedCrcHigh(b)
  <2> DEFINE received == p.crcReceived + Base * b
  <2>1. PICK next \in {"IDLE", "ETX"} :
          /\ p' = [p EXCEPT !.crcReceived = received, !.state = next]
          /\ ev' \in {"NONE", "ERR_CRC"} /\ p.state = "CRC_HI"
    BY <1>5 DEF FeedCrcHigh
  <2>2. received \in Crc
    BY <1>0, <2>1, BytesAndSums
  <2> HIDE DEF received
  <2>3. p' \in ParserState
    BY <1>0, <2>1, <2>2, Zenon DEF ParserState
  <2>4. p'.state = next /\ p'.payload = p.payload /\ p'.length = p.length
    BY <1>0, <2>1 DEF ParserState
  <2> QED
    BY <1>0, <2>1, <2>3, <2>4
       DEF ParserInv, ParserTypeOK, PayloadWithinBuffer, Event, Remaining
<1>6. CASE FeedEtx(b)
  <2>1. p' = [p EXCEPT !.state = "IDLE"] /\ ev' \in {"COMPLETE", "ERR_FRAMING"}
        /\ p.state = "ETX"
    BY <1>6 DEF FeedEtx
  <2>2. p'.state = "IDLE" /\ p'.payload = p.payload /\ p'.length = p.length
    BY <1>0, <2>1 DEF ParserState
  <2> QED
    BY <1>0, <2>1, <2>2, IdleKeepsType
       DEF ParserInv, ParserTypeOK, PayloadWithinBuffer, Event, Remaining
<1> QED  BY <1>1, <1>2, <1>3, <1>4, <1>5, <1>6 DEF Feed

-----------------------------------------------------------------------------
(* Types and bounds.                                                         *)

LEMMA PayloadFacts ==
    ASSUME NEW m \in Payload
    PROVE  m \in Seq(Byte) /\ Len(m) \in 0 .. MaxPayload
BY LinkAssumption, BytesAndSums

LEMMA AdvanceType ==
    ASSUME LinkTypeOK, at # 0, Advance
    PROVE  msg' \in Payload /\ at' \in 0 .. FrameLength' /\ crc' \in Crc
<1>1. Len(msg) \in Nat /\ at \in 0 .. Len(msg) + 5 /\ msg' = msg
  BY PayloadFacts, BytesAndSums DEF LinkTypeOK, FrameLength, Advance
<1>2. at' \in 0 .. Len(msg) + 5
  BY <1>1 DEF Advance, FrameLength
<1>3. crc' \in Crc
  BY NextByteIsByte, ParserAssumption DEF LinkTypeOK, Advance
<1> QED  BY <1>1, <1>2, <1>3 DEF LinkTypeOK, FrameLength

LEMMA FaultType ==
    ASSUME LinkTypeOK, NEW k, NEW harmless \in BOOLEAN, Fault(k, harmless)
    PROVE  /\ faults' \in 0 .. MaxFaults
           /\ since' \in 0 .. LongestFrame
           /\ {quiet', clean', synced', late', aligned'} \subseteq BOOLEAN
<1>1. faults \in 0 .. MaxFaults /\ faults > 0 /\ MaxFaults \in Nat
      /\ 0 <= LongestFrame /\ LongestFrame \in Nat
  BY LinkAssumption, BytesAndSums DEF LinkTypeOK, Fault, LongestFrame
<1>2. faults' \in 0 .. MaxFaults /\ since' \in 0 .. LongestFrame
  BY <1>1 DEF Fault
<1>3. {quiet, clean, synced, late, aligned} \subseteq BOOLEAN
  BY DEF LinkTypeOK
<1>4. aligned' \in BOOLEAN
  BY <1>3 DEF Fault
<1> QED  BY <1>2, <1>3, <1>4 DEF Fault

\* What a step on the line does to the parser: a byte, a reset or nothing.
LEMMA ParserStep ==
    ASSUME ParserInv,
           \/ \E b \in Byte : Feed(b)
           \/ Reset
           \/ p' = p /\ ev' = "NONE"
           \/ UNCHANGED parserVars
    PROVE  ParserInv'
<1>1. CASE \E b \in Byte : Feed(b)
  BY <1>1, FeedKeepsParser
<1>2. CASE Reset
  BY <1>2, BytesAndSums DEF Reset, Idle, ParserInv, ParserTypeOK, ParserState,
                            Event, PayloadWithinBuffer
<1>3. CASE p' = p /\ ev' = "NONE"
  BY <1>3 DEF ParserInv, ParserTypeOK, Event, PayloadWithinBuffer
<1>4. CASE UNCHANGED parserVars
  BY <1>4 DEF parserVars, ParserInv, ParserTypeOK, PayloadWithinBuffer
<1> QED  BY <1>1, <1>2, <1>3, <1>4

LEMMA InitFine == Init => ParserInv /\ LinkTypeOK
<1>1. SUFFICES ASSUME Init PROVE ParserInv /\ LinkTypeOK
  OBVIOUS
<1>2. ParserInv
  BY <1>1, IdleIsFine DEF Init, ParserInit
<1>3. Len(msg) \in Nat /\ LongestFrame \in Nat
  BY <1>1, PayloadFacts, BytesAndSums DEF Init, LongestFrame
<1>4. at \in 0 .. FrameLength /\ since \in 0 .. LongestFrame
      /\ faults \in 0 .. MaxFaults /\ crc \in Crc
  BY <1>1, <1>3, BytesAndSums, LinkAssumption DEF Init, FrameLength
<1> QED  BY <1>1, <1>2, <1>4 DEF Init, LinkTypeOK, ParserInv

LEMMA StepFine ==
    ASSUME ParserInv, LinkTypeOK, [Next]_vars
    PROVE  ParserInv' /\ LinkTypeOK'
<1>0. NextByte \in Byte
  BY NextByteIsByte
<1>1. ASSUME NEW m \in Payload, BeginFrame(m)
      PROVE  ParserInv' /\ LinkTypeOK'
  <2>1. ParserInv'
    BY <1>1, ParserStep DEF BeginFrame
  <2>2. at' \in 0 .. FrameLength' /\ crc' \in Crc /\ msg' \in Payload
    BY <1>1, PayloadFacts, BytesAndSums DEF BeginFrame, FrameLength
  <2>3. late' \in BOOLEAN /\ synced' \in BOOLEAN
    BY <1>1 DEF BeginFrame, LinkTypeOK
  <2> QED
    BY <1>1, <2>1, <2>2, <2>3 DEF BeginFrame, LinkTypeOK, ParserInv, LongestFrame
<1>2. CASE SendByte
  <2>1. ParserInv'
    BY <1>0, <1>2, ParserStep DEF SendByte
  <2>2. msg' \in Payload /\ at' \in 0 .. FrameLength' /\ crc' \in Crc
    BY <1>2, AdvanceType DEF SendByte
  <2>3. since' \in 0 .. LongestFrame
    BY <1>2, BytesAndSums DEF SendByte, LinkTypeOK, LongestFrame
  <2>4. quiet' \in BOOLEAN
    BY <1>2 DEF SendByte, LinkTypeOK
  <2> QED
    BY <1>2, <2>1, <2>2, <2>3, <2>4 DEF SendByte, LinkTypeOK, ParserInv, LongestFrame
<1>3. ASSUME NEW b \in Byte, DamageByte(b)
      PROVE  ParserInv' /\ LinkTypeOK'
  <2>1. ParserInv'
    BY <1>3, ParserStep DEF DamageByte
  <2>2. msg' \in Payload /\ at' \in 0 .. FrameLength' /\ crc' \in Crc
    BY <1>3, AdvanceType DEF DamageByte
  <2>3. (clean /\ at > 2) \in BOOLEAN
    OBVIOUS
  <2> QED
    BY <1>3, <2>1, <2>2, <2>3, FaultType
       DEF DamageByte, LinkTypeOK, ParserInv, LongestFrame
<1>4. CASE LoseByte
  <2>1. ParserInv'
    BY <1>4, ParserStep DEF LoseByte
  <2>2. msg' \in Payload /\ at' \in 0 .. FrameLength' /\ crc' \in Crc
    BY <1>4, AdvanceType DEF LoseByte
  <2> QED
    BY <1>4, <2>1, <2>2, FaultType DEF LoseByte, LinkTypeOK, ParserInv, LongestFrame
<1>5. ASSUME NEW b \in Byte, AddByte(b)
      PROVE  ParserInv' /\ LinkTypeOK'
  <2>1. ParserInv'
    BY <1>5, ParserStep DEF AddByte
  <2>2. (at = 0 /\ b # STX) \in BOOLEAN
    OBVIOUS
  <2> QED
    BY <1>5, <2>1, <2>2, FaultType
       DEF AddByte, LinkTypeOK, ParserInv, LongestFrame, FrameLength
<1>6. CASE SenderResets
  <2>1. ParserInv'
    BY <1>6, ParserStep DEF SenderResets
  <2>2. at' \in 0 .. FrameLength'
    BY <1>6, PayloadFacts, BytesAndSums DEF SenderResets, LinkTypeOK, FrameLength
  <2> QED
    BY <1>6, <2>1, <2>2, FaultType
       DEF SenderResets, LinkTypeOK, ParserInv, LongestFrame
<1>7. CASE ReceiverResets
  <2>1. ParserInv'
    BY <1>7, ParserStep DEF ReceiverResets
  <2>2. (at = 0) \in BOOLEAN
    OBVIOUS
  <2> QED
    BY <1>7, <2>1, <2>2, FaultType
       DEF ReceiverResets, LinkTypeOK, ParserInv, LongestFrame, FrameLength
<1>8. CASE UNCHANGED vars
  <2>1. ParserInv'
    BY <1>8, ParserStep DEF vars, parserVars
  <2> QED
    BY <1>8, <2>1 DEF vars, LinkTypeOK, ParserInv, LongestFrame, FrameLength
<1> QED
  BY <1>1, <1>2, <1>3, <1>4, <1>5, <1>6, <1>7, <1>8 DEF Next

LEMMA LinkInvariant == Spec => [](ParserInv /\ LinkTypeOK)
<1>1. Init => ParserInv /\ LinkTypeOK
  BY InitFine
<1>2. (ParserInv /\ LinkTypeOK) /\ [Next]_vars => (ParserInv /\ LinkTypeOK)'
  BY StepFine
<1> QED  BY <1>1, <1>2, PTL DEF Spec

\* Every variable keeps its type, whatever goes wrong on the line.
THEOREM LinkTypeCorrect == Spec => []LinkTypeOK
BY LinkInvariant, PTL

\* No bytes, in any order, make frame_feed store a payload byte beyond the
\* length it accepted or beyond the buffer, and a frame reported complete is
\* as long as its length says.
THEOREM ParserCannotOverrun == Spec => []PayloadWithinBuffer
<1>1. ParserInv => PayloadWithinBuffer
  BY DEF ParserInv
<1> QED  BY <1>1, LinkInvariant, PTL

\* Every byte fed to a parser that is inside a frame brings it nearer to
\* hunting again: at most MaxPayload + 4 bytes from any state.
THEOREM ParserReturnsToIdle == Spec => AlwaysNearerToIdle
<1>1. ParserInv /\ [Next]_vars =>
        [(\E b \in Byte : Feed(b)) /\ p.state # "IDLE"
           => Remaining' < Remaining]_vars
  BY FeedKeepsParser
<1> QED  BY <1>1, LinkInvariant, PTL DEF Spec, AlwaysNearerToIdle

-----------------------------------------------------------------------------
(* A frame that begins in IDLE is followed byte by byte.                     *)

\* Where the parser is when byte n of the frame with payload m comes next and
\* the sender has summed up to c.
Follows(q, m, n, c) ==
    /\ n = 1 => q.state = "IDLE" /\ c = CrcInit
    /\ n = 2 => /\ q.state = "LEN"
                /\ q.payload = <<>>
                /\ q.crcComputed = c
                /\ c = CrcInit
    /\ n > 2 => q.length = Len(m)
    /\ n \in 3 .. Len(m) + 2 =>
         /\ q.state = "PAYLOAD"
         /\ Len(q.payload) = n - 3
         /\ \A i \in 1 .. n - 3 : q.payload[i] = m[i]
         /\ q.crcComputed = c
    /\ n > Len(m) + 2 => q.payload = m
    /\ n = Len(m) + 3 => q.state = "CRC_LO" /\ q.crcComputed = c
    /\ n = Len(m) + 4 => /\ q.state = "CRC_HI"
                         /\ q.crcComputed = c
                         /\ q.crcReceived = c % Base
    /\ n = Len(m) + 5 => q.state = "ETX"

InStep == clean /\ synced /\ at # 0 => Follows(p, msg, at, crc)

\* The byte is the next of the frame: the parser follows, and with the last
\* byte it delivers the frame.
LEMMA FollowsNextByte ==
    ASSUME ParserInv, LinkTypeOK, at # 0, Follows(p, msg, at, crc),
           SendByte
    PROVE  /\ at' # 0 => Follows(p', msg', at', crc')
           /\ at = FrameLength => DeliversFrame
<1> DEFINE n == Len(msg)
<1>0. /\ msg' = msg /\ msg \in Seq(Byte) /\ n \in 0 .. MaxPayload /\ n \in Nat
      /\ at \in 1 .. n + 5 /\ at \in Nat
      /\ at' = IF at = n + 5 THEN 0 ELSE at + 1
      /\ Feed(NextByte) /\ NextByte \in Byte /\ MaxPayload \in Nat
      /\ p \in ParserState
  BY PayloadFacts, NextByteIsByte, BytesAndSums
     DEF LinkTypeOK, SendByte, Advance, FrameLength, ParserInv, ParserTypeOK
<1>1. CASE at = 1
  <2>1. NextByte = STX /\ crc' = crc /\ at' = 2 /\ n + 3 > 2
    BY <1>0, <1>1 DEF NextByte, SendByte, Advance
  <2>2. p.state = "IDLE" /\ crc = CrcInit
    BY <1>1 DEF Follows
  <2>3. p'.state = "LEN" /\ p'.payload = <<>> /\ p'.crcComputed = CrcInit
    BY <1>0, <2>1, <2>2 DEF Feed, Hunt, FeedLength, FeedPayload, FeedCrcLow,
                            FeedCrcHigh, FeedEtx, ParserState
  <2> QED  BY <1>0, <1>1, <2>1, <2>2, <2>3 DEF Follows, FrameLength
<1>2. CASE at = 2
  <2>1. NextByte = n /\ crc' = CrcUpdate(crc, n) /\ at' = 3
    BY <1>0, <1>2 DEF NextByte, SendByte, Advance
  <2>2. p.state = "LEN" /\ p.payload = <<>> /\ p.crcComputed = crc
    BY <1>2 DEF Follows
  <2>3. ~TooLong(n)
    BY <1>0 DEF TooLong
  <2>4. /\ p'.state = (IF n = 0 THEN "CRC_LO" ELSE "PAYLOAD")
        /\ p'.payload = <<>> /\ p'.length = n
        /\ p'.crcComputed = CrcUpdate(crc, n)
    BY <1>0, <2>1, <2>2, <2>3
       DEF Feed, Hunt, FeedLength, FeedPayload, FeedCrcLow, FeedCrcHigh,
           FeedEtx, ParserState
  <2>5. n = 0 => msg = <<>>
    BY <1>0
  <2> QED  BY <1>0, <1>2, <2>1, <2>4, <2>5 DEF Follows, FrameLength
<1>3. CASE at \in 3 .. n + 2
  <2>1. NextByte = msg[at - 2] /\ crc' = CrcUpdate(crc, NextByte)
        /\ at' = at + 1
    BY <1>0, <1>3 DEF NextByte, SendByte, Advance
  <2>2. p.state = "PAYLOAD" /\ p.length = n /\ Len(p.payload) = at - 3
        /\ p.crcComputed = crc /\ p.payload \in Seq(Byte)
        /\ \A i \in 1 .. at - 3 : p.payload[i] = msg[i]
    BY <1>0, <1>3 DEF Follows, ParserState
  <2>3. /\ p'.state = (IF at - 3 + 1 >= n THEN "CRC_LO" ELSE "PAYLOAD")
        /\ p'.payload = Append(p.payload, NextByte) /\ p'.length = n
        /\ p'.crcComputed = CrcUpdate(crc, NextByte)
    BY <1>0, <2>2
       DEF Feed, Hunt, FeedLength, FeedPayload, FeedCrcLow, FeedCrcHigh,
           FeedEtx, ParserState
  <2>4. /\ p'.payload \in Seq(Byte) /\ Len(p'.payload) = at - 2
        /\ \A i \in 1 .. at - 2 : p'.payload[i] = msg[i]
    BY <1>0, <1>3, <2>1, <2>2, <2>3
  <2>5. at = n + 2 => p'.payload = msg
    BY <1>0, <2>4
  <2> HIDE DEF n
  <2>6. at + 1 > n + 2 => at = n + 2
    BY <1>0, <1>3
  <2> QED
    BY <1>0, <1>3, <2>1, <2>3, <2>4, <2>5, <2>6 DEF Follows, FrameLength, n
<1>4. CASE at = n + 3
  <2>1. NextByte = crc % Base /\ crc' = crc /\ at' = n + 4
    BY <1>0, <1>4 DEF NextByte, SendByte, Advance
  <2>2. p.state = "CRC_LO" /\ p.length = n /\ p.payload = msg
        /\ p.crcComputed = crc
    BY <1>0, <1>4 DEF Follows
  <2>3. /\ p'.state = "CRC_HI" /\ p'.payload = msg /\ p'.length = n
        /\ p'.crcComputed = crc /\ p'.crcReceived = NextByte
    BY <1>0, <2>2
       DEF Feed, Hunt, FeedLength, FeedPayload, FeedCrcLow, FeedCrcHigh,
           FeedEtx, ParserState
  <2> QED  BY <1>0, <1>4, <2>1, <2>3 DEF Follows, FrameLength
<1>5. CASE at = n + 4
  <2>1. NextByte = crc \div Base /\ crc' = crc /\ at' = n + 5
    BY <1>0, <1>5 DEF NextByte, SendByte, Advance
  <2>2. p.state = "CRC_HI" /\ p.length = n /\ p.payload = msg
        /\ p.crcComputed = crc /\ p.crcReceived = crc % Base
    BY <1>0, <1>5 DEF Follows
  <2>3. (crc % Base) + Base * (crc \div Base) = crc
    BY TwoBytes, BytesAndSums DEF LinkTypeOK, Crc
  <2>4. p.crcReceived + Base * NextByte = p.crcComputed
    BY <2>1, <2>2, <2>3
  <2>5. p'.state = "ETX" /\ p'.payload = msg /\ p'.length = n
    BY <1>0, <2>2, <2>4
       DEF Feed, Hunt, FeedLength, FeedPayload, FeedCrcLow, FeedCrcHigh,
           FeedEtx, ParserState
  <2> QED  BY <1>0, <1>5, <2>1, <2>5 DEF Follows, FrameLength
<1>6. CASE at = n + 5
  <2>1. NextByte = ETX
    BY <1>0, <1>6 DEF NextByte
  <2>2. p.state = "ETX" /\ p.payload = msg
    BY <1>0, <1>6 DEF Follows
  <2>3. ev' = "COMPLETE" /\ p'.payload = msg
    BY <1>0, <2>1, <2>2
       DEF Feed, Hunt, FeedLength, FeedPayload, FeedCrcLow, FeedCrcHigh,
           FeedEtx, ParserState
  <2> QED  BY <1>0, <1>6, <2>3 DEF DeliversFrame
<1> QED  BY <1>0, <1>1, <1>2, <1>3, <1>4, <1>5, <1>6

LEMMA InStepInit == Init => InStep
BY DEF Init, InStep

LEMMA InStepNext ==
    ASSUME ParserInv, LinkTypeOK, InStep, [Next]_vars
    PROVE  InStep'
<1>1. ASSUME NEW m \in Payload, BeginFrame(m)
      PROVE  InStep'
  <2>1. at' = 1 /\ msg' = m /\ crc' = CrcInit /\ p' = p
        /\ (synced' => p.state = "IDLE")
    BY <1>1 DEF BeginFrame
  <2>2. Len(m) \in Nat
    BY PayloadFacts, BytesAndSums
  <2>3. p.state = "IDLE" => Follows(p, m, 1, CrcInit)
    BY <2>2 DEF Follows
  <2>4. synced' => Follows(p', msg', at', crc')
    BY <2>1, <2>3
  <2> QED  BY <2>4 DEF InStep
<1>2. CASE SendByte
  BY <1>2, FollowsNextByte DEF InStep, SendByte
<1>3. ASSUME NEW k, NEW harmless, Fault(k, harmless)
      PROVE  InStep'
  BY <1>3 DEF Fault, InStep
<1>4. CASE \/ \E b \in Byte : DamageByte(b) \/ AddByte(b)
           \/ LoseByte \/ SenderResets \/ ReceiverResets
  BY <1>3, <1>4 DEF DamageByte, AddByte, LoseByte, SenderResets, ReceiverResets
<1>5. CASE UNCHANGED vars
  BY <1>5 DEF vars, InStep, Follows
<1> QED  BY <1>1, <1>2, <1>4, <1>5 DEF Next

\* An undamaged frame arrives with the sender's last byte.
LEMMA ArrivalIsSent ==
    ASSUME Next, at # 0, at' = 0, clean'
    PROVE  SendByte
<1>1. ASSUME NEW k, NEW harmless, Fault(k, harmless) PROVE FALSE
  BY <1>1 DEF Fault
<1> QED
  BY <1>1 DEF Next, BeginFrame, DamageByte, AddByte, LoseByte, SenderResets,
              ReceiverResets

\* Whatever happened before, an undamaged frame that begins while the parser
\* hunts is delivered as it was sent, for every checksum function: nothing of
\* an earlier frame survives in the parser's state.
THEOREM SyncedFramesAreDelivered == Spec => SyncedFrameDelivered
<1> DEFINE Inv == ParserInv /\ LinkTypeOK /\ InStep
<1>1. Init => Inv
  BY InitFine, InStepInit
<1>2. Inv /\ [Next]_vars => Inv'
  BY StepFine, InStepNext
<1>3. Inv /\ [Next]_vars => [FrameArrives /\ synced => DeliversFrame]_vars
  <2>1. SUFFICES ASSUME Inv, Next, FrameArrives, synced
                 PROVE  DeliversFrame
    OBVIOUS
  <2>2. at = FrameLength /\ at # 0 /\ at' = 0 /\ clean'
    BY <2>1, PayloadFacts, BytesAndSums DEF FrameArrives, FrameLength, LinkTypeOK
  <2>3. SendByte
    BY <2>1, <2>2, ArrivalIsSent
  <2>4. clean
    BY <2>2, <2>3 DEF SendByte
  <2> QED  BY <2>1, <2>2, <2>3, <2>4, FollowsNextByte DEF InStep
<1> QED  BY <1>1, <1>2, <1>3, PTL DEF Spec, SyncedFrameDelivered


-----------------------------------------------------------------------------
(* A parser that lost its place hunts again before LongestFrame quiet bytes  *)
(* have come in.                                                             *)

\* A frame being sent is followed, or the parser hunts.
LEMMA FeedInIdle ==
    ASSUME p \in ParserState, p.state = "IDLE", NEW b, Feed(b)
    PROVE  /\ ev' = "NONE"
           /\ b # STX => p' = p
           /\ b = STX => p'.state = "LEN" /\ p'.payload = <<>> /\ p'.crcComputed = CrcInit
BY DEF Feed, Hunt, FeedLength, FeedPayload, FeedCrcLow, FeedCrcHigh, FeedEtx, ParserState

LEMMA FeedInEtx ==
    ASSUME p \in ParserState, p.state = "ETX", NEW b, Feed(b)
    PROVE  p'.state = "IDLE" /\ p'.payload = p.payload /\ (ev' = "COMPLETE" => b = ETX)
BY DEF Feed, Hunt, FeedLength, FeedPayload, FeedCrcLow, FeedCrcHigh, FeedEtx, ParserState

LEMMA FeedComplete ==
    ASSUME p \in ParserState, NEW b, Feed(b), ev' = "COMPLETE"
    PROVE  p.state = "ETX"
BY DEF Feed, Hunt, FeedLength, FeedPayload, FeedCrcLow, FeedCrcHigh, FeedEtx, ParserState

\* The last byte of a frame ends it, whatever it is.
LEMMA LastByteEnds ==
    ASSUME ParserInv, LinkTypeOK, at = FrameLength, Follows(p, msg, at, crc),
           NEW b, Feed(b)
    PROVE  p'.state = "IDLE"
<1>1. Len(msg) \in Nat
  BY PayloadFacts, BytesAndSums DEF LinkTypeOK
<1>2. p.state = "ETX" /\ p \in ParserState
  BY <1>1 DEF Follows, FrameLength, ParserInv, ParserTypeOK
<1> QED  BY <1>2, FeedInEtx

\* Of the frame the fault left the parser in, less is left than the quiet bytes
\* that are missing; or the parser follows a frame that began since.
Healing ==
    /\ at = 1 => crc = CrcInit
    /\ quiet => \/ Remaining <= LongestFrame - since
                \/ at > 1 /\ Follows(p, msg, at, crc)

LateIsSynced == late => synced

LEMMA RemainingBounds ==
    ASSUME ParserInv
    PROVE  /\ Remaining \in 0 .. LongestFrame
           /\ Remaining = 0 <=> p.state = "IDLE"
<1>1. /\ p.state \in {"IDLE", "LEN", "PAYLOAD", "CRC_LO", "CRC_HI", "ETX"}
      /\ p.length \in 0 .. MaxPayload /\ Len(p.payload) \in Nat /\ MaxPayload \in Nat
      /\ p.state = "PAYLOAD" => Len(p.payload) < p.length
  BY BytesAndSums DEF ParserInv, ParserTypeOK, ParserState, PayloadWithinBuffer
<1> QED  BY <1>1 DEF Remaining, LongestFrame

LEMMA HealingInit ==
    ASSUME Init
    PROVE  Healing /\ LateIsSynced
<1>1. Remaining = 0 /\ LongestFrame \in Nat
  BY BytesAndSums DEF Init, ParserInit, Idle, Remaining, LongestFrame
<1> QED  BY <1>1 DEF Init, Healing, LateIsSynced

\* After a fault there is time for any frame the parser may be in.
LEMMA FaultHeals ==
    ASSUME ParserInv', Healing, LateIsSynced, LinkTypeOK, NEW k, NEW harmless,
           Fault(k, harmless), at' = 1 => at = 1 /\ crc' = crc
    PROVE  Healing' /\ LateIsSynced'
<1>1. since' = 0 /\ synced' = synced /\ late' = late
  BY DEF Fault
<1>2. (Remaining \in 0 .. LongestFrame)'
  BY RemainingBounds, PTL
<1>3. LongestFrame \in Nat /\ LongestFrame' = LongestFrame
  BY BytesAndSums DEF LongestFrame
<1>4. Remaining' <= LongestFrame' - since'
  BY <1>1, <1>2, <1>3
<1> QED  BY <1>1, <1>4 DEF Healing, LateIsSynced

LEMMA HealingNext ==
    ASSUME ParserInv, LinkTypeOK, Healing, LateIsSynced, [Next]_vars
    PROVE  Healing' /\ LateIsSynced'
<1>0. /\ LongestFrame \in Nat /\ LongestFrame' = LongestFrame
      /\ Remaining \in 0 .. LongestFrame /\ (Remaining = 0 <=> p.state = "IDLE")
      /\ since \in 0 .. LongestFrame /\ at \in Nat /\ Len(msg) \in Nat
  BY RemainingBounds, BytesAndSums, PayloadFacts DEF LongestFrame, LinkTypeOK, FrameLength
<1>inv. ParserInv'
  BY StepFine
<1>1. ASSUME NEW m \in Payload, BeginFrame(m)
      PROVE  Healing' /\ LateIsSynced'
  <2>1. /\ at = 0 /\ at' = 1 /\ crc' = CrcInit /\ p' = p /\ since' = since
        /\ quiet' = quiet /\ (synced' <=> p.state = "IDLE")
        /\ late' <=> quiet /\ since = LongestFrame
    BY <1>1 DEF BeginFrame
  <2>2. Remaining' = Remaining
    BY <2>1 DEF Remaining
  <2>3. quiet => Remaining <= LongestFrame - since
    BY <2>1 DEF Healing
  <2>4. late' => synced'
    BY <1>0, <2>1, <2>3
  <2> QED  BY <1>0, <2>1, <2>2, <2>3, <2>4 DEF Healing, LateIsSynced
<1>2. CASE SendByte
  <2>1. /\ at # 0 /\ Feed(NextByte) /\ Advance /\ NextByte \in Byte
        /\ since' = (IF since < LongestFrame THEN since + 1 ELSE since)
        /\ quiet' => quiet /\ (at > 1 => NextByte # STX)
        /\ late' = late /\ synced' = synced /\ p \in ParserState
    BY <1>2, NextByteIsByte DEF SendByte, ParserInv, ParserTypeOK
  <2>2. /\ at' = (IF at = FrameLength THEN 0 ELSE at + 1) /\ at >= 1
        /\ at' # 1 /\ FrameLength > 1
    BY <1>0, <2>1 DEF Advance, FrameLength
  <2>3. ASSUME at > 1, Follows(p, msg, at, crc)
        PROVE  Healing'
    <3>1. CASE at = FrameLength
      <4>1. p'.state = "IDLE"
        BY <2>1, <2>3, <3>1, LastByteEnds
      <4>2. Remaining' = 0
        BY <4>1 DEF Remaining
      <4>3. 0 <= LongestFrame - since'
        BY <1>0, <2>1
      <4>4. Remaining' <= LongestFrame - since'
        BY <4>2, <4>3
      <4> QED  BY <1>0, <2>2, <4>4 DEF Healing
    <3>2. CASE at # FrameLength
      <4>1. at' > 1 /\ Follows(p', msg', at', crc')
        BY <1>0, <1>2, <2>1, <2>2, <2>3, <3>2, FollowsNextByte
      <4> QED  BY <4>1, <2>2 DEF Healing
    <3> QED  BY <3>1, <3>2
  <2>4. ASSUME quiet', Remaining <= LongestFrame - since
        PROVE  Healing'
    <3>1. CASE p.state # "IDLE"
      <4>1. Remaining' < Remaining
        BY <2>1, <3>1, FeedKeepsParser
      <4>2. (Remaining \in 0 .. LongestFrame)'
        BY <1>inv, RemainingBounds, PTL
      <4>3. Remaining' <= LongestFrame - since'
        BY <1>0, <2>1, <2>4, <3>1, <4>1, <4>2
      <4> QED  BY <1>0, <2>2, <4>3 DEF Healing
    <3>2. CASE p.state = "IDLE" /\ NextByte # STX
      <4>1. p' = p
        BY <2>1, <3>2, FeedInIdle
      <4>2. Remaining' = 0
        BY <3>2, <4>1 DEF Remaining
      <4>3. 0 <= LongestFrame - since'
        BY <1>0, <2>1
      <4>4. Remaining' <= LongestFrame - since'
        BY <4>2, <4>3
      <4> QED  BY <1>0, <2>2, <4>4 DEF Healing
    <3>3. CASE p.state = "IDLE" /\ NextByte = STX
      <4>1. at = 1 /\ crc = CrcInit
        BY <1>0, <2>1, <2>2, <2>4, <3>3 DEF Healing
      <4>2. Follows(p, msg, at, crc)
        BY <1>0, <3>3, <4>1 DEF Follows
      <4>3. at' # 0 /\ at' = 2
        BY <2>2, <4>1
      <4>4. Follows(p', msg', at', crc')
        BY <1>2, <2>1, <4>2, <4>3, FollowsNextByte
      <4> QED  BY <2>2, <4>3, <4>4 DEF Healing
    <3> QED  BY <3>1, <3>2, <3>3
  <2>5. Healing'
    <3>1. CASE quiet'
      BY <2>1, <2>3, <2>4, <3>1 DEF Healing
    <3>2. CASE ~quiet'
      BY <2>2, <3>2 DEF Healing
    <3> QED  BY <3>1, <3>2
  <2> QED  BY <2>1, <2>5 DEF LateIsSynced
<1>3. ASSUME NEW b \in Byte, DamageByte(b)
      PROVE  Healing' /\ LateIsSynced'
  <2>1. at' # 1
    BY <1>0, <1>3 DEF DamageByte, Advance, FrameLength
  <2> QED  BY <1>3, <1>inv, <2>1, FaultHeals DEF DamageByte
<1>4. CASE LoseByte
  <2>1. at' # 1
    BY <1>0, <1>4 DEF LoseByte, Advance, FrameLength
  <2> QED  BY <1>4, <1>inv, <2>1, FaultHeals DEF LoseByte
<1>5. ASSUME NEW b \in Byte, AddByte(b)
      PROVE  Healing' /\ LateIsSynced'
  BY <1>5, <1>inv, FaultHeals DEF AddByte
<1>6. CASE SenderResets
  <2>1. at' = 0 /\ Fault("sender", FALSE)
    BY <1>6 DEF SenderResets
  <2>2. at' = 1 => at = 1 /\ crc' = crc
    BY <2>1
  <2> QED  BY <1>inv, <2>1, <2>2, FaultHeals, Zenon
<1>7. CASE ReceiverResets
  BY <1>7, <1>inv, FaultHeals DEF ReceiverResets
<1>8. CASE UNCHANGED vars
  BY <1>8 DEF vars, Healing, LateIsSynced, Remaining, LongestFrame, Follows
<1> QED
  BY <1>1, <1>2, <1>3, <1>4, <1>5, <1>6, <1>7, <1>8 DEF Next

\* After any faults a stream of undamaged frames is received again: the first
\* frame that begins LongestFrame bytes after the last fault is delivered, if no
\* byte inside the frames between has the value of STX.
THEOREM LinkAlwaysHeals == Spec => LinkHeals
<1> DEFINE Inv == ParserInv /\ LinkTypeOK /\ Healing /\ LateIsSynced
<1>1. Init => Inv
  BY InitFine, HealingInit
<1>2. Inv /\ [Next]_vars => Inv'
  BY StepFine, HealingNext
<1>3. /\ Inv /\ [FrameArrives /\ synced => DeliversFrame]_vars
         => [FrameArrives /\ late => DeliversFrame]_vars
  BY DEF LateIsSynced
<1>4. Spec => [][FrameArrives /\ synced => DeliversFrame]_vars
  BY SyncedFramesAreDelivered DEF SyncedFrameDelivered
<1> QED  BY <1>1, <1>2, <1>3, <1>4, PTL DEF Spec, LinkHeals

-----------------------------------------------------------------------------
(* One damaged byte behind the length does not cost the parser its place.    *)

\* Where the parser is when byte n of the frame with payload m comes next, one
\* byte of it having been damaged.
KeepsPlace(q, m, n) ==
    /\ n \in 4 .. Len(m) + 5
    /\ n <= Len(m) + 2 => /\ q.state = "PAYLOAD"
                          /\ q.length = Len(m) /\ Len(q.payload) = n - 3
    /\ n = Len(m) + 3 => q.state = "CRC_LO"
    /\ n = Len(m) + 4 => q.state = "CRC_HI"
    /\ n = Len(m) + 5 => q.state \in {"IDLE", "ETX"}

\* What the checksum makes of that byte: either the parser's sum is not the
\* sender's, or the one it received is not.
Detects(q, m, n, c) ==
    /\ n <= Len(m) + 3 => q.crcComputed # c
    /\ n = Len(m) + 4 => (q.crcComputed = c <=> q.crcReceived # c % Base)
    /\ n = Len(m) + 5 => q.state = "IDLE"

InPlace ==
    aligned => /\ at = 0 => p.state = "IDLE"
               /\ at # 0 /\ clean => Follows(p, msg, at, crc)
               /\ at # 0 /\ ~clean => KeepsPlace(p, msg, at)

Detected ==
    aligned => /\ ev = "COMPLETE" => at = 0 /\ p.payload = msg
               /\ at # 0 /\ ~clean => Detects(p, msg, at, crc)

\* While a frame is followed only its last byte can complete it.
LEMMA FollowsComplete ==
    ASSUME ParserInv, LinkTypeOK, at # 0, Follows(p, msg, at, crc),
           NEW b \in Byte, Feed(b), ev' = "COMPLETE"
    PROVE  at = FrameLength /\ b = ETX /\ p'.payload = msg
<1>1. p.state = "ETX" /\ b = ETX /\ p'.payload = p.payload
  BY FeedComplete, FeedInEtx DEF ParserInv, ParserTypeOK
<1>2. Len(msg) \in Nat /\ at \in 1 .. Len(msg) + 5
  BY PayloadFacts, BytesAndSums DEF LinkTypeOK, FrameLength
<1>3. at = Len(msg) + 5
  BY <1>1, <1>2 DEF Follows
<1> QED  BY <1>1, <1>2, <1>3 DEF Follows, FrameLength

\* The first damaged byte of a frame that is followed, behind its length.
LEMMA DamageKeepsPlace ==
    ASSUME ParserInv, LinkTypeOK, at > 2, Follows(p, msg, at, crc),
           NEW b \in Byte, b # NextByte, Feed(b), Advance
    PROVE  /\ at' = 0 => p'.state = "IDLE"
           /\ at' # 0 => KeepsPlace(p', msg', at')
           /\ OneByteDetected /\ at' # 0 => Detects(p', msg', at', crc')
           /\ ev' # "COMPLETE"
<1> DEFINE n == Len(msg)
<1>0. /\ msg' = msg /\ msg \in Seq(Byte) /\ n \in 0 .. MaxPayload /\ n \in Nat
      /\ at \in 3 .. n + 5 /\ at \in Nat
      /\ at' = IF at = n + 5 THEN 0 ELSE at + 1
      /\ NextByte \in Byte /\ MaxPayload \in Nat /\ p \in ParserState /\ crc \in Crc
  BY PayloadFacts, NextByteIsByte, BytesAndSums
     DEF LinkTypeOK, Advance, FrameLength, ParserInv, ParserTypeOK
<1>1. ev' # "COMPLETE"
  <2>1. SUFFICES ASSUME ev' = "COMPLETE" PROVE FALSE
    OBVIOUS
  <2>2. at = FrameLength /\ b = ETX
    BY <1>0, <2>1, FollowsComplete
  <2>3. NextByte = ETX
    BY <1>0, <2>2 DEF NextByte, FrameLength
  <2> QED  BY <2>2, <2>3
<1>2. CASE at \in 3 .. n + 2
  <2>1. NextByte = msg[at - 2] /\ crc' = CrcUpdate(crc, NextByte) /\ at' = at + 1
    BY <1>0, <1>2 DEF NextByte, Advance
  <2>2. p.state = "PAYLOAD" /\ p.length = n /\ Len(p.payload) = at - 3
        /\ p.crcComputed = crc /\ p.payload \in Seq(Byte)
    BY <1>0, <1>2 DEF Follows, ParserState
  <2>3. /\ p'.state = (IF at - 3 + 1 >= n THEN "CRC_LO" ELSE "PAYLOAD")
        /\ p'.payload = Append(p.payload, b) /\ p'.length = n
        /\ p'.crcComputed = CrcUpdate(crc, b)
    BY <1>0, <2>2
       DEF Feed, Hunt, FeedLength, FeedPayload, FeedCrcLow, FeedCrcHigh,
           FeedEtx, ParserState
  <2>4. Len(p'.payload) = at - 2
    BY <1>0, <1>2, <2>2, <2>3
  <2>5. OneByteDetected => p'.crcComputed # crc'
    BY <1>0, <2>1, <2>3 DEF OneByteDetected
  <2> HIDE DEF n
  <2>6. KeepsPlace(p', msg, at + 1)
    BY <1>0, <1>2, <2>3, <2>4 DEF KeepsPlace, n
  <2>7. OneByteDetected => Detects(p', msg, at + 1, crc')
    BY <1>0, <1>2, <2>5 DEF Detects, n
  <2> QED  BY <1>0, <1>1, <2>1, <2>6, <2>7
<1>3. CASE at = n + 3
  <2>1. NextByte = crc % Base /\ crc' = crc /\ at' = n + 4
    BY <1>0, <1>3 DEF NextByte, Advance
  <2>2. p.state = "CRC_LO" /\ p.crcComputed = crc
    BY <1>0, <1>3 DEF Follows
  <2>3. p'.state = "CRC_HI" /\ p'.crcReceived = b /\ p'.crcComputed = crc
    BY <1>0, <2>2
       DEF Feed, Hunt, FeedLength, FeedPayload, FeedCrcLow, FeedCrcHigh,
           FeedEtx, ParserState
  <2>4. KeepsPlace(p', msg, n + 4) /\ Detects(p', msg, n + 4, crc)
    BY <1>0, <2>1, <2>3 DEF KeepsPlace, Detects
  <2> QED  BY <1>0, <1>1, <2>1, <2>4
<1>4. CASE at = n + 4
  <2>1. NextByte = crc \div Base /\ crc' = crc /\ at' = n + 5
    BY <1>0, <1>4 DEF NextByte, Advance
  <2>2. p.state = "CRC_HI" /\ p.crcComputed = crc /\ p.crcReceived = crc % Base
    BY <1>0, <1>4 DEF Follows
  <2>3. p.crcReceived + Base * b # p.crcComputed
    <3>1. (crc % Base) + Base * (crc \div Base) = crc
      BY <1>0, TwoBytes, BytesAndSums DEF Crc
    <3>2. b \in Int /\ crc \div Base \in Int /\ crc % Base \in Int /\ Base \in Nat \ {0}
      BY <1>0, <2>1, BytesAndSums, TwoBytes DEF Byte, Crc
    <3>3. Base * b # Base * (crc \div Base)
      BY <2>1, <3>2
    <3> QED  BY <2>2, <3>1, <3>2, <3>3
  <2>4. p'.state = "IDLE"
    BY <1>0, <2>2, <2>3
       DEF Feed, Hunt, FeedLength, FeedPayload, FeedCrcLow, FeedCrcHigh,
           FeedEtx, ParserState
  <2>5. KeepsPlace(p', msg, n + 5) /\ Detects(p', msg, n + 5, crc)
    BY <1>0, <2>4 DEF KeepsPlace, Detects
  <2> QED  BY <1>0, <1>1, <2>1, <2>5
<1>5. CASE at = n + 5
  <2>1. p'.state = "IDLE" /\ at' = 0
    BY <1>0, <1>5, LastByteEnds DEF FrameLength
  <2> QED  BY <1>1, <2>1
<1> QED  BY <1>0, <1>2, <1>3, <1>4, <1>5

\* The rest of a frame that was damaged once.
LEMMA RestKeepsPlace ==
    ASSUME STX # ETX, ParserInv, LinkTypeOK, at # 0, KeepsPlace(p, msg, at), SendByte
    PROVE  /\ at' = 0 => p'.state = "IDLE"
           /\ at' # 0 => KeepsPlace(p', msg', at')
           /\ OneByteDetected /\ Detects(p, msg, at, crc) =>
                 /\ at' # 0 => Detects(p', msg', at', crc')
                 /\ ev' # "COMPLETE"
<1> DEFINE n == Len(msg)
<1>0. /\ msg' = msg /\ msg \in Seq(Byte) /\ n \in 0 .. MaxPayload /\ n \in Nat
      /\ at \in 4 .. n + 5 /\ at \in Nat
      /\ at' = IF at = n + 5 THEN 0 ELSE at + 1
      /\ NextByte \in Byte /\ MaxPayload \in Nat /\ p \in ParserState /\ crc \in Crc
      /\ Feed(NextByte) /\ p.crcComputed \in Crc /\ p.crcReceived \in Crc
  BY PayloadFacts, NextByteIsByte, BytesAndSums
     DEF LinkTypeOK, SendByte, Advance, FrameLength, ParserInv, ParserTypeOK,
         ParserState, KeepsPlace
<1>1. CASE at <= n + 2
  <2>1. NextByte = msg[at - 2] /\ crc' = CrcUpdate(crc, NextByte) /\ at' = at + 1
    BY <1>0, <1>1 DEF NextByte, SendByte, Advance
  <2>2. p.state = "PAYLOAD" /\ p.length = n /\ Len(p.payload) = at - 3
        /\ p.payload \in Seq(Byte)
    BY <1>0, <1>1 DEF KeepsPlace, ParserState
  <2>3. /\ p'.state = (IF at - 3 + 1 >= n THEN "CRC_LO" ELSE "PAYLOAD")
        /\ p'.payload = Append(p.payload, NextByte) /\ p'.length = n
        /\ p'.crcComputed = CrcUpdate(p.crcComputed, NextByte) /\ ev' = "NONE"
    BY <1>0, <2>2
       DEF Feed, Hunt, FeedLength, FeedPayload, FeedCrcLow, FeedCrcHigh,
           FeedEtx, ParserState
  <2>4. Len(p'.payload) = at - 2
    BY <1>0, <1>1, <2>2, <2>3
  <2>5. OneByteDetected /\ p.crcComputed # crc => p'.crcComputed # crc'
    BY <1>0, <2>1, <2>3 DEF OneByteDetected
  <2> HIDE DEF n
  <2>6. KeepsPlace(p', msg, at + 1)
    BY <1>0, <1>1, <2>3, <2>4 DEF KeepsPlace, n
  <2>7. Detects(p, msg, at, crc) => p.crcComputed # crc
    BY <1>0, <1>1 DEF Detects, n
  <2>8. p'.crcComputed # crc' => Detects(p', msg, at + 1, crc')
    BY <1>0, <1>1 DEF Detects, n
  <2>9. at' # 0
    BY <1>0, <2>1
  <2> QED  BY <1>0, <2>1, <2>3, <2>5, <2>6, <2>7, <2>8, <2>9
<1>2. CASE at = n + 3
  <2>1. NextByte = crc % Base /\ crc' = crc /\ at' = n + 4
    BY <1>0, <1>2 DEF NextByte, SendByte, Advance
  <2>2. p.state = "CRC_LO"
    BY <1>0, <1>2 DEF KeepsPlace
  <2>3. /\ p'.state = "CRC_HI" /\ p'.crcComputed = p.crcComputed /\ ev' = "NONE"
        /\ p'.crcReceived = crc % Base
    BY <1>0, <2>1, <2>2
       DEF Feed, Hunt, FeedLength, FeedPayload, FeedCrcLow, FeedCrcHigh,
           FeedEtx, ParserState
  <2>4. KeepsPlace(p', msg, n + 4)
    BY <1>0, <2>3 DEF KeepsPlace
  <2>5. Detects(p, msg, at, crc) => Detects(p', msg, n + 4, crc)
    BY <1>0, <1>2, <2>3 DEF Detects
  <2> QED  BY <1>0, <2>1, <2>3, <2>4, <2>5
<1>3. CASE at = n + 4
  <2>1. NextByte = crc \div Base /\ crc' = crc /\ at' = n + 5
    BY <1>0, <1>3 DEF NextByte, SendByte, Advance
  <2>2. p.state = "CRC_HI"
    BY <1>0, <1>3 DEF KeepsPlace
  <2>3. /\ p'.state = IF p.crcReceived + Base * NextByte = p.crcComputed
                      THEN "ETX" ELSE "IDLE"
        /\ ev' # "COMPLETE"
    BY <1>0, <2>2
       DEF Feed, Hunt, FeedLength, FeedPayload, FeedCrcLow, FeedCrcHigh,
           FeedEtx, ParserState
  <2>4. KeepsPlace(p', msg, n + 5)
    BY <1>0, <2>3 DEF KeepsPlace
  <2>5. Detects(p, msg, at, crc) => p.crcReceived + Base * NextByte # p.crcComputed
    <3>1. Detects(p, msg, at, crc) =>
            (p.crcComputed = crc <=> p.crcReceived # crc % Base)
      BY <1>0, <1>3 DEF Detects
    <3>2. (crc % Base) + Base * (crc \div Base) = crc
      BY <1>0, TwoBytes, BytesAndSums DEF Crc
    <3>3. p.crcReceived \in Nat /\ crc % Base \in Nat /\ Base * NextByte \in Nat
      BY <1>0, <2>1, TwoBytes, BytesAndSums DEF Byte, Crc
    <3> QED  BY <1>0, <2>1, <3>1, <3>2, <3>3
  <2>6. Detects(p, msg, at, crc) => Detects(p', msg, n + 5, crc)
    BY <1>0, <2>3, <2>5 DEF Detects
  <2> QED  BY <1>0, <2>1, <2>3, <2>4, <2>6
<1>4. CASE at = n + 5
  <2>1. NextByte = ETX /\ at' = 0 /\ p.state \in {"IDLE", "ETX"}
    BY <1>0, <1>4 DEF NextByte, KeepsPlace
  <2>2. p'.state = "IDLE"
    BY <1>0, <2>1, FeedInIdle, FeedInEtx
  <2>3. Detects(p, msg, at, crc) => ev' # "COMPLETE"
    BY <1>0, <1>4, FeedInIdle DEF Detects
  <2> QED  BY <2>1, <2>2, <2>3
<1> QED  BY <1>0, <1>1, <1>2, <1>3, <1>4

LEMMA InPlaceInit ==
    ASSUME Init
    PROVE  InPlace /\ Detected
BY DEF Init, ParserInit, Idle, InPlace, Detected

\* A fault between frames: noise that is no STX, or a reset of the receiver.
LEMMA HarmlessBetweenFrames ==
    ASSUME InPlace, at = 0, at' = 0,
           aligned' => aligned /\ ev' = "NONE" /\ (p' = p \/ p' = Idle)
    PROVE  InPlace' /\ Detected'
BY DEF InPlace, Detected, Idle

LEMMA InPlaceNext ==
    ASSUME STX # ETX, ParserInv, LinkTypeOK, InPlace, [Next]_vars
    PROVE  InPlace' /\ (OneByteDetected /\ Detected => Detected')
<1>0. p \in ParserState /\ NextByte \in Byte /\ Len(msg) \in Nat /\ at \in Nat
  BY NextByteIsByte, PayloadFacts, BytesAndSums
     DEF ParserInv, ParserTypeOK, LinkTypeOK, FrameLength
<1>1. ASSUME NEW m \in Payload, BeginFrame(m)
      PROVE  InPlace' /\ Detected'
  <2>1. at = 0 /\ at' = 1 /\ msg' = m /\ crc' = CrcInit /\ p' = p /\ clean'
        /\ aligned' = aligned /\ ev' = "NONE" /\ Len(m) \in Nat
    BY <1>1, PayloadFacts, BytesAndSums DEF BeginFrame
  <2>2. p.state = "IDLE" => Follows(p, m, 1, CrcInit)
    BY <2>1 DEF Follows
  <2>3. aligned' => Follows(p', msg', at', crc')
    BY <2>1, <2>2 DEF InPlace
  <2> QED  BY <2>1, <2>3 DEF InPlace, Detected
<1>2. CASE SendByte
  <2>1. /\ at # 0 /\ Feed(NextByte) /\ Advance /\ clean' = clean /\ aligned' = aligned
        /\ at' = (IF at = FrameLength THEN 0 ELSE at + 1) /\ msg' = msg
    BY <1>2 DEF SendByte, Advance
  <2>2. CASE ~aligned
    BY <2>1, <2>2 DEF InPlace, Detected
  <2>3. CASE aligned /\ clean
    <3>1. Follows(p, msg, at, crc)
      BY <2>1, <2>3 DEF InPlace
    <3>2. at' # 0 => Follows(p', msg', at', crc')
      BY <1>2, <2>1, <3>1, FollowsNextByte
    <3>3. at' = 0 => p'.state = "IDLE"
      BY <1>0, <2>1, <3>1, LastByteEnds
    <3>4. ev' = "COMPLETE" => at = FrameLength /\ p'.payload = msg
      BY <1>0, <2>1, <3>1, FollowsComplete
    <3>5. ev' = "COMPLETE" => at' = 0 /\ p'.payload = msg'
      BY <2>1, <3>4
    <3> QED  BY <2>1, <2>3, <3>2, <3>3, <3>5 DEF InPlace, Detected
  <2>4. CASE aligned /\ ~clean
    <3>1. KeepsPlace(p, msg, at)
      BY <2>1, <2>4 DEF InPlace
    <3>2. InPlace'
      BY <1>2, <2>1, <2>4, <3>1, RestKeepsPlace DEF InPlace
    <3>3. ASSUME OneByteDetected, Detected PROVE Detected'
      <4>1. Detects(p, msg, at, crc)
        BY <2>1, <2>4, <3>3 DEF Detected
      <4> QED  BY <1>2, <2>1, <2>4, <3>1, <3>3, <4>1, RestKeepsPlace DEF Detected
    <3> QED  BY <3>2, <3>3
  <2> QED  BY <2>2, <2>3, <2>4
<1>3. ASSUME NEW b \in Byte, DamageByte(b)
      PROVE  InPlace' /\ (OneByteDetected => Detected')
  <2>1. /\ at # 0 /\ b # NextByte /\ Feed(b) /\ Advance /\ ~clean'
        /\ aligned' => aligned /\ clean /\ at > 2
    BY <1>3 DEF DamageByte, Fault
  <2>2. SUFFICES ASSUME aligned'
                 PROVE  InPlace' /\ (OneByteDetected => Detected')
    BY DEF InPlace, Detected
  <2>3. Follows(p, msg, at, crc) /\ at > 2
    BY <2>1, <2>2 DEF InPlace
  <2>4. /\ at' = 0 => p'.state = "IDLE"
        /\ at' # 0 => KeepsPlace(p', msg', at')
        /\ OneByteDetected /\ at' # 0 => Detects(p', msg', at', crc')
        /\ ev' # "COMPLETE"
    BY <2>1, <2>3, DamageKeepsPlace
  <2> QED  BY <2>1, <2>4 DEF InPlace, Detected
<1>4. CASE LoseByte
  BY <1>4 DEF LoseByte, Fault, InPlace, Detected
<1>5. ASSUME NEW b \in Byte, AddByte(b)
      PROVE  InPlace' /\ (Detected => Detected')
  <2>1. /\ Feed(b) /\ at' = at
        /\ aligned' => aligned /\ at = 0 /\ b # STX
    BY <1>5 DEF AddByte, Fault
  <2>2. CASE ~aligned'
    BY <2>2 DEF InPlace, Detected
  <2>3. CASE aligned'
    <3>1. p.state = "IDLE" /\ at = 0 /\ at' = 0 /\ b # STX
      BY <2>1, <2>3 DEF InPlace
    <3>2. p' = p /\ ev' = "NONE"
      BY <1>0, <2>1, <3>1, FeedInIdle
    <3> QED  BY <2>1, <3>1, <3>2, HarmlessBetweenFrames
  <2> QED  BY <2>2, <2>3
<1>6. CASE SenderResets
  BY <1>6 DEF SenderResets, Fault, InPlace, Detected
<1>7. CASE ReceiverResets
  <2>1. /\ p' = Idle /\ ev' = "NONE" /\ at' = at
        /\ aligned' => aligned /\ at = 0
    BY <1>7 DEF ReceiverResets, Reset, Fault
  <2>2. CASE ~aligned'
    BY <2>2 DEF InPlace, Detected
  <2>3. CASE aligned'
    BY <2>1, <2>3, HarmlessBetweenFrames
  <2> QED  BY <2>2, <2>3
<1>8. CASE UNCHANGED vars
  BY <1>8 DEF vars, InPlace, Detected, Follows, KeepsPlace, Detects
<1> QED
  BY <1>1, <1>2, <1>3, <1>4, <1>5, <1>6, <1>7, <1>8 DEF Next

\* While the line damages no more than one byte of a frame, and that one behind
\* the length, every undamaged frame is delivered, whatever the checksum makes
\* of the damaged ones: a bad frame costs only itself.
THEOREM BadFramesCostThemselves ==
    ASSUME STX # ETX
    PROVE  Spec => BadFrameCostsItself
<1> DEFINE Inv == ParserInv /\ LinkTypeOK /\ InPlace
<1>1. Init => Inv
  BY InitFine, InPlaceInit
<1>2. Inv /\ [Next]_vars => Inv'
  BY StepFine, InPlaceNext
<1>3. Inv /\ [Next]_vars => [FrameArrives /\ aligned => DeliversFrame]_vars
  <2>1. SUFFICES ASSUME Inv, Next, FrameArrives, aligned
                 PROVE  DeliversFrame
    OBVIOUS
  <2>2. at = FrameLength /\ at # 0 /\ at' = 0 /\ clean'
    BY <2>1, PayloadFacts, BytesAndSums DEF FrameArrives, FrameLength, LinkTypeOK
  <2>3. SendByte
    BY <2>1, <2>2, ArrivalIsSent
  <2>4. clean
    BY <2>2, <2>3 DEF SendByte
  <2> QED  BY <2>1, <2>2, <2>3, <2>4, FollowsNextByte DEF InPlace
<1> QED  BY <1>1, <1>2, <1>3, PTL DEF Spec, BadFrameCostsItself

\* With such faults only, and a checksum that tells one byte from another, a
\* frame is reported complete only with the last byte of one that was sent, and
\* with its payload.
THEOREM DeliveredAlwaysSent ==
    ASSUME STX # ETX, OneByteDetected
    PROVE  Spec => []DeliveredWasSent
<1> DEFINE Inv == ParserInv /\ LinkTypeOK /\ InPlace /\ Detected
<1>1. Init => Inv
  BY InitFine, InPlaceInit
<1>2. Inv /\ [Next]_vars => Inv'
  BY StepFine, InPlaceNext
<1>3. Inv => DeliveredWasSent
  BY DEF Detected, DeliveredWasSent
<1> QED  BY <1>1, <1>2, <1>3, PTL DEF Spec
=============================================================================
