------------------------------ MODULE IsoTpRx ------------------------------
(* The receiver of the ISO-TP transport: isotp_rx_init and isotp_rx_frame   *)
(* of code/portable/can/isotp.c, one action per PDU type of the switch.     *)
(* rx is the isotp_rx_t the caller owns.  buf is the part of the buffer     *)
(* that holds data, so rx->received is Len(rx.buf).  fc is the flow status  *)
(* of the frame in fc_frame, whose other bytes are the receiver's policy.   *)
(* ev is the event the last call returned: it also names the one diagnostic *)
(* counter the call incremented, and nothing ever reads those counters.     *)
EXTENDS IsoTpFrame

VARIABLES rx, ev

rxVars == <<rx, ev>>

NoFc == -1

RxState == [ state : {"IDLE", "WAIT_CF"},
             buf : Seq(Byte),
             total : 0 .. MaxPayload,
             nextSn : 0 .. SnMod - 1,
             cfSinceFc : Nat,
             bufferLimit : 0 .. MaxPayload,
             blockSize : Nat,
             fc : {NoFc, CTS, OVFLW} ]

Event == { "NONE", "MESSAGE", "SEND_FC", "ERR_SEQUENCE", "ERR_OVERFLOW",
           "ERR_LENGTH", "ERR_UNEXPECTED" }

\* isotp_rx_init: a zeroed structure with the caller's policy, the buffer
\* limit clipped to what the buffer can hold.
RxInit(limit, blockSize) ==
    /\ rx = [ state |-> "IDLE", buf |-> <<>>, total |-> 0, nextSn |-> 0,
              cfSinceFc |-> 0, blockSize |-> blockSize, fc |-> NoFc,
              bufferLimit |-> IF limit > MaxPayload THEN MaxPayload ELSE limit ]
    /\ ev = "NONE"

\* rx_abort: forget the message in progress.
Aborted(r) ==
    [r EXCEPT !.state = "IDLE", !.total = 0, !.buf = <<>>, !.nextSn = 0,
              !.cfSinceFc = 0]

Reject(error) == rx' = Aborted(rx) /\ ev' = error

Ignore(event) == UNCHANGED rx /\ ev' = event

RxInvalidDlc(f) == ~ValidDlc(f) /\ Ignore("ERR_LENGTH")

\* The claimed length must be 1..7 and fit in the frame that arrived.
MalformedSingle(f) == f.n = 0 \/ f.n > CfData \/ f.n + 1 > f.dlc

RxSingle(f) ==
    /\ f.pci = "SF" /\ ValidDlc(f)
    /\ \/ MalformedSingle(f) /\ Reject("ERR_LENGTH")
       \/ /\ ~MalformedSingle(f) /\ f.n > rx.bufferLimit
          /\ Reject("ERR_OVERFLOW")
       \/ /\ ~MalformedSingle(f) /\ f.n <= rx.bufferLimit
          /\ rx' = [rx EXCEPT !.buf = SubSeq(f.data, 1, f.n),
                              !.total = f.n,
                              !.state = "IDLE"]
          /\ ev' = "MESSAGE"

\* Mutant: a first frame below the minimum length is let through.
MalformedFirst_NoMinimum(f) == f.dlc < Dlc

\* Mutant: a first frame in the middle of a message is refused.
MalformedFirst_NoRestart(f) ==
    f.dlc < Dlc \/ f.n < Dlc \/ rx.state = "WAIT_CF"

\* A first frame is full, and longer than any single frame could carry.
MalformedFirst(f) == f.dlc < Dlc \/ f.n < Dlc

\* A first frame starts over whatever was in progress.  One that declares
\* too much builds an OVFLW frame and reports an error, not SEND_FC.
RxFirst(f) ==
    /\ f.pci = "FF" /\ ValidDlc(f)
    /\ \/ MalformedFirst(f) /\ Reject("ERR_LENGTH")
       \/ /\ ~MalformedFirst(f) /\ f.n > rx.bufferLimit
          /\ rx' = [Aborted(rx) EXCEPT !.fc = OVFLW]
          /\ ev' = "ERR_OVERFLOW"
       \/ /\ ~MalformedFirst(f) /\ f.n <= rx.bufferLimit
          /\ rx' = [rx EXCEPT !.buf = SubSeq(f.data, 1, FfData),
                              !.total = f.n,
                              !.nextSn = 1,
                              !.cfSinceFc = 0,
                              !.state = "WAIT_CF",
                              !.fc = CTS]
          /\ ev' = "SEND_FC"

\* Mutant: every sequence number is the expected one.
InSequence_Any(r, f) == TRUE

InSequence(r, f) == f.n = r.nextSn

\* Mutant: the padding of the last frame is taken too.
Take_Unclipped(r, f) == f.dlc - 1

\* How many bytes of a consecutive frame are taken: no more than the message
\* still lacks, no more than the frame holds.
Take(r, f) ==
    IF r.total - Len(r.buf) < f.dlc - 1 THEN r.total - Len(r.buf) ELSE f.dlc - 1

\* Mutant: the sequence number does not wrap.
Accepted_NoWrap(r, f) ==
    [r EXCEPT !.buf = r.buf \o SubSeq(f.data, 1, Take(r, f)),
              !.nextSn = r.nextSn + 1,
              !.cfSinceFc = r.cfSinceFc + 1]

Accepted(r, f) ==
    [r EXCEPT !.buf = r.buf \o SubSeq(f.data, 1, Take(r, f)),
              !.nextSn = (r.nextSn + 1) % SnMod,
              !.cfSinceFc = r.cfSinceFc + 1]

Complete(r) == Len(r.buf) >= r.total

\* Mutant: one frame more than a block before the next flow control.
BlockDone_Late(r) == r.blockSize # 0 /\ r.cfSinceFc > r.blockSize

BlockDone(r) == r.blockSize # 0 /\ r.cfSinceFc >= r.blockSize

RxConsecutive(f) ==
    /\ f.pci = "CF" /\ ValidDlc(f)
    /\ \/ rx.state # "WAIT_CF" /\ Ignore("ERR_UNEXPECTED")
       \/ /\ rx.state = "WAIT_CF" /\ ~InSequence(rx, f)
          /\ Reject("ERR_SEQUENCE")
       \/ /\ rx.state = "WAIT_CF" /\ InSequence(rx, f)
          /\ LET r == Accepted(rx, f)
             IN \/ /\ Complete(r)
                   /\ rx' = [r EXCEPT !.state = "IDLE"]
                   /\ ev' = "MESSAGE"
                \/ /\ ~Complete(r) /\ BlockDone(r)
                   /\ rx' = [r EXCEPT !.cfSinceFc = 0, !.fc = CTS]
                   /\ ev' = "SEND_FC"
                \/ /\ ~Complete(r) /\ ~BlockDone(r)
                   /\ rx' = r
                   /\ ev' = "NONE"

\* Flow control is for the sender's half; the caller routes it there.
RxFlowControl(f) == f.pci = "FC" /\ ValidDlc(f) /\ Ignore("NONE")

RxReserved(f) == f.pci = "reserved" /\ ValidDlc(f) /\ Ignore("ERR_LENGTH")

RxFrame(f) ==
    \/ RxInvalidDlc(f)
    \/ RxSingle(f)
    \/ RxFirst(f)
    \/ RxConsecutive(f)
    \/ RxFlowControl(f)
    \/ RxReserved(f)

-----------------------------------------------------------------------------
RxTypeOK == rx \in RxState /\ ev \in Event

\* The receiver never holds more than it was told to expect, never expects
\* more than its buffer limit, and while it waits for consecutive frames the
\* message lacks something and the block it granted is not used up: the
\* bounds that isotp_rx_frame's memcpy calls rest on, whatever frames come.
RxWithinBuffer ==
    /\ Len(rx.buf) <= rx.total
    /\ rx.total <= rx.bufferLimit
    /\ rx.state = "WAIT_CF" =>
         /\ Len(rx.buf) \in FfData .. rx.total - 1
         /\ rx.blockSize # 0 => rx.cfSinceFc < rx.blockSize
    /\ rx.state = "IDLE" => Len(rx.buf) = rx.total

=============================================================================
