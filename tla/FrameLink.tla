----------------------------- MODULE FrameLink -----------------------------
(* A sender, a faulty line and the parser of FrameParser.  The sender puts   *)
(* its frames as build of host-tests/test_frame.c and inject_frame of        *)
(* 06-protocol-state-machine/main.c do, the checksum running over the length *)
(* and the payload; UART0_Handler of example 06 feeds every byte to the      *)
(* parser as it comes.  The line may damage a byte, lose it or add one, the  *)
(* sender may reset in the middle of a frame (test_frame.c:159), and so may  *)
(* the receiver; MaxFaults bounds how often.                                 *)
EXTENDS FrameParser

CONSTANTS Payload,    \* the payloads the sender chooses from
          FaultKinds, \* what the line and the two ends may do wrong
          MaxFaults

ASSUME LinkAssumption ==
    /\ Payload \subseteq {m \in Seq(Byte) : Len(m) <= MaxPayload}
    /\ FaultKinds \subseteq {"damage", "lose", "add", "sender", "receiver"}
    /\ MaxFaults \in Nat

\* What a generator of two bytes promises of a checksum: it tells one byte from
\* another, and never forgets a difference.
OneByteDetected ==
    /\ \A c \in Crc, b, d \in Byte : CrcUpdate(c, b) = CrcUpdate(c, d) => b = d
    /\ \A c, d \in Crc, b \in Byte : CrcUpdate(c, b) = CrcUpdate(d, b) => c = d

VARIABLES
    msg,     \* the payload of the frame being sent, or sent last
    at,      \* which byte of it comes next; 0 between frames
    crc,     \* the sender's running checksum
    faults,  \* faults the line has left
    since,   \* bytes that arrived since the last fault, saturating
    quiet,   \* of those, none inside a frame has the value of STX
    clean,   \* no fault in the current frame
    synced,  \* the parser was in IDLE when the current frame began
    late,    \* the current frame began LongestFrame quiet bytes after a fault
    aligned  \* no fault that could cost the parser its place in the stream

vars == <<p, ev, msg, at, crc, faults, since, quiet, clean, synced, late,
          aligned>>

history == <<since, quiet, clean, synced, late, aligned>>

\* The most bytes a frame has after its STX.
LongestFrame == MaxPayload + 4

FrameLength == Len(msg) + 5

NextByte ==
    CASE at = 1                   -> STX
      [] at = 2                   -> Len(msg)
      [] at \in 3 .. Len(msg) + 2 -> msg[at - 2]
      [] at = Len(msg) + 3        -> crc % Base
      [] at = Len(msg) + 4        -> crc \div Base
      [] OTHER                    -> ETX

Init ==
    /\ ParserInit
    /\ msg \in Payload
    /\ at = 0 /\ crc = CrcInit
    /\ faults = MaxFaults
    /\ since = LongestFrame /\ quiet = TRUE
    /\ clean = TRUE /\ synced = TRUE /\ late = TRUE /\ aligned = TRUE

-----------------------------------------------------------------------------
(* The sender. *)

\* The next byte of the frame is put: the length and the payload are summed.
Advance ==
    /\ at' = IF at = FrameLength THEN 0 ELSE at + 1
    /\ crc' = IF at \in 2 .. Len(msg) + 2 THEN CrcUpdate(crc, NextByte) ELSE crc
    /\ msg' = msg

BeginFrame(m) ==
    /\ at = 0
    /\ msg' = m /\ at' = 1 /\ crc' = CrcInit
    /\ ev' = "NONE"
    /\ clean' = TRUE
    /\ synced' = (p.state = "IDLE")
    /\ late' = (quiet /\ since = LongestFrame)
    /\ UNCHANGED <<p, faults, since, quiet, aligned>>

SendByte ==
    /\ at # 0
    /\ Feed(NextByte)
    /\ Advance
    /\ since' = IF since < LongestFrame THEN since + 1 ELSE since
    /\ quiet' = (quiet /\ (at > 1 => NextByte # STX))
    /\ UNCHANGED <<faults, clean, synced, late, aligned>>

-----------------------------------------------------------------------------
(* What goes wrong.  harmless says that the parser keeps its place.          *)

Fault(kind, harmless) ==
    /\ kind \in FaultKinds
    /\ faults > 0
    /\ faults' = faults - 1
    /\ since' = 0 /\ quiet' = TRUE
    /\ clean' = FALSE
    /\ aligned' = (aligned /\ harmless)
    /\ UNCHANGED <<synced, late>>

\* One damaged byte after the length is for the checksum or the ETX to catch.
DamageByte(b) ==
    /\ at # 0
    /\ b # NextByte
    /\ Feed(b)
    /\ Advance
    /\ Fault("damage", clean /\ at > 2)

LoseByte ==
    /\ at # 0
    /\ Advance
    /\ ev' = "NONE"
    /\ Fault("lose", FALSE)
    /\ UNCHANGED p

\* Noise between frames is discarded unless it looks like an STX.
AddByte(b) ==
    /\ Feed(b)
    /\ Fault("add", at = 0 /\ b # STX)
    /\ UNCHANGED <<msg, at, crc>>

SenderResets ==
    /\ at # 0
    /\ at' = 0
    /\ ev' = "NONE"
    /\ Fault("sender", FALSE)
    /\ UNCHANGED <<p, msg, crc>>

ReceiverResets ==
    /\ Reset
    /\ Fault("receiver", at = 0)
    /\ UNCHANGED <<msg, at, crc>>

Next ==
    \/ \E m \in Payload : BeginFrame(m)
    \/ SendByte
    \/ \E b \in Byte : DamageByte(b)
    \/ LoseByte
    \/ \E b \in Byte : AddByte(b)
    \/ SenderResets
    \/ ReceiverResets

Spec == Init /\ [][Next]_vars

-----------------------------------------------------------------------------
\* Every variable has its type; the parser's are of ParserState and Event.
LinkTypeOK ==
    /\ ParserTypeOK
    /\ msg \in Payload
    /\ at \in 0 .. FrameLength
    /\ crc \in Crc
    /\ faults \in 0 .. MaxFaults
    /\ since \in 0 .. LongestFrame
    /\ {quiet, clean, synced, late, aligned} \subseteq BOOLEAN

\* Every byte brings a frame in progress nearer to its end, so no bytes,
\* noise or not, keep the parser from IDLE for longer than one frame
\* (frame_feed: "a corrupted state variable should cost you one frame").
AlwaysNearerToIdle ==
    [][(\E b \in Byte : Feed(b)) /\ p.state # "IDLE"
         => Remaining' < Remaining]_vars

FrameArrives == at = FrameLength /\ at' = 0 /\ clean'

DeliversFrame == ev' = "COMPLETE" /\ p'.payload = msg

\* A frame that begins while the parser hunts and is not damaged is delivered
\* byte for byte with its last byte, whatever its bytes are: nothing the
\* parser keeps of earlier frames shows, and an STX or ETX in the payload, the
\* length or the checksum is a byte like any other.
SyncedFrameDelivered == [][FrameArrives /\ synced => DeliversFrame]_vars

\* After any fault the link heals by itself: an undamaged frame that begins
\* LongestFrame bytes later is delivered, if no byte inside the frames between
\* can be taken for an STX.
LinkHeals == [][FrameArrives /\ late => DeliversFrame]_vars

\* As long as the line damages only one byte of a frame, and not its STX or
\* its length, a bad frame costs nothing but itself ("one bad frame must not
\* poison the next good one", test_frame.c:136).
BadFrameCostsItself == [][FrameArrives /\ aligned => DeliversFrame]_vars

\* With such faults only, what is delivered is what was sent, when it was sent.
DeliveredWasSent ==
    aligned /\ ev = "COMPLETE" => at = 0 /\ p.payload = msg

\* What test_frame.c:136 says without that condition: the undamaged frame
\* that follows a bad one is delivered.
NextGoodFrameDelivered == [][FrameArrives => DeliversFrame]_vars

=============================================================================
