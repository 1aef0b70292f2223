----------------------------- MODULE IsoTpLink -----------------------------
(* One ISO-TP sender and one receiver joined by a CAN bus.                  *)
(* The glue is the caller's loop of code/host-tests/test_isotp.c            *)
(* (round_trip): put what isotp_tx_next produces on the bus, feed what      *)
(* arrives to isotp_rx_frame, transmit fc_frame when the event is SEND_FC,  *)
(* take the buffer when it is MESSAGE.  The bus (external) keeps order; in  *)
(* one instance it is reliable, in another it loses frames and carries      *)
(* frames of other nodes.                                                   *)
EXTENDS IsoTpRx, IsoTpTx, FiniteSets

CONSTANTS
    Lengths,       \* the message lengths the caller sends
    BufferLimits,  \* the buffer limits a receiver may be given
    BlockSizes,    \* the block sizes a receiver may advertise
    Impatient,     \* whether the caller may give up waiting for flow control
    MaxMsgs,       \* bound: messages begun
    MaxLost,       \* bound: frames the bus loses
    Foreign,       \* the frames other nodes may put on the bus
    MaxForeign     \* bound: foreign frames

ASSUME LinkAssumption ==
    /\ Lengths \subseteq 1 .. MaxPayload
    /\ BufferLimits \subseteq Nat
    /\ BlockSizes \subseteq Nat
    /\ Impatient \in BOOLEAN
    /\ MaxMsgs \in Nat /\ MaxLost \in Nat /\ MaxForeign \in Nat
    /\ Foreign \subseteq Frame
    /\ (1 .. MaxMsgs) \X (1 .. MaxPayload) \subseteq Byte

VARIABLES
    toRx, toTx,    \* frames under way to the receiver and to the sender
    sent,          \* history: the length of every message begun, in order
    delivered,     \* history: every message the receiver's caller was given
    abandoned,     \* history: the messages the caller gave up on
    lost, foreign  \* how many faults have happened

vars == <<rx, ev, tx, toRx, toTx, sent, delivered, abandoned, lost, foreign>>

Init ==
    /\ \E limit \in BufferLimits, bs \in BlockSizes : RxInit(limit, bs)
    /\ TxInit
    /\ toRx = <<>> /\ toTx = <<>>
    /\ sent = <<>> /\ delivered = <<>> /\ abandoned = {}
    /\ lost = 0 /\ foreign = 0

\* The caller begins a message when the previous one is finished with.  The
\* transport has no timer: an impatient caller has one of its own and begins
\* another message while the sender still waits for flow control.
Begin(len) ==
    /\ \/ /\ tx.state \in {"NONE", "DONE", "ABORTED"}
          /\ UNCHANGED abandoned
       \/ /\ Impatient /\ tx.state = "WAIT_FC"
          /\ abandoned' = abandoned \cup {tx.msg}
    /\ Len(sent) < MaxMsgs
    /\ TxBegin(Len(sent) + 1, len)
    /\ sent' = Append(sent, len)
    /\ UNCHANGED <<rxVars, toRx, toTx, delivered, lost, foreign>>

Transmit(f) ==
    /\ toRx' = Append(toRx, f)
    /\ UNCHANGED <<rxVars, toTx, sent, delivered, abandoned, lost, foreign>>

Send ==
    \/ TxSingle /\ Transmit(SingleFrame)
    \/ TxFirst /\ Transmit(FirstFrame)
    \/ TxConsecutive /\ Transmit(ConsecutiveFrame)
    \/ TxEndBlock /\ UNCHANGED <<rxVars, toRx, toTx, sent, delivered, abandoned, lost, foreign>>

\* The sender's node takes a flow-control frame off the bus.
FlowControl ==
    /\ toTx # <<>>
    /\ TxFlowControl(Head(toTx))
    /\ toTx' = Tail(toTx)
    /\ UNCHANGED <<rxVars, toRx, sent, delivered, abandoned, lost, foreign>>

\* What the receiver's caller does with the event: answer, take, or nothing.
Serve ==
    \/ /\ ev' = "SEND_FC"
       /\ toTx' = Append(toTx, FcFrame(rx'.fc, rx'.blockSize))
       /\ UNCHANGED delivered
    \/ /\ ev' = "MESSAGE"
       /\ delivered' = Append(delivered, rx'.buf)
       /\ UNCHANGED toTx
    \/ /\ ev' \notin {"SEND_FC", "MESSAGE"}
       /\ UNCHANGED <<toTx, delivered>>

Receive ==
    /\ toRx # <<>>
    /\ RxFrame(Head(toRx))
    /\ Serve
    /\ toRx' = Tail(toRx)
    /\ UNCHANGED <<tx, sent, abandoned, lost, foreign>>

\* The bus drops a frame in either direction.
Lose ==
    /\ lost < MaxLost
    /\ lost' = lost + 1
    /\ \/ toRx # <<>> /\ toRx' = Tail(toRx) /\ UNCHANGED toTx
       \/ toTx # <<>> /\ toTx' = Tail(toTx) /\ UNCHANGED toRx
    /\ UNCHANGED <<rxVars, tx, sent, delivered, abandoned, foreign>>

\* Another node sends a frame with an identifier one of the two listens to.
Intrude(f) ==
    /\ foreign < MaxForeign
    /\ foreign' = foreign + 1
    /\ \/ toRx' = Append(toRx, f) /\ UNCHANGED toTx
       \/ toTx' = Append(toTx, f) /\ UNCHANGED toRx
    /\ UNCHANGED <<rxVars, tx, sent, delivered, abandoned, lost>>

Protocol == Send \/ FlowControl \/ Receive

Next ==
    \/ \E len \in Lengths : Begin(len)
    \/ Protocol
    \/ Lose
    \/ \E f \in Foreign : Intrude(f)

Spec == Init /\ [][Next]_vars

\* Both nodes keep polling: the loop of round_trip calls isotp_tx_next and
\* handles what arrives until nothing is left to do.
FairSpec == Spec /\ WF_vars(Send) /\ WF_vars(FlowControl) /\ WF_vars(Receive)

-----------------------------------------------------------------------------
(* Properties of the link, whatever the bus does.                          *)

LinkTypeOK ==
    /\ RxTypeOK /\ TxTypeOK
    /\ toRx \in Seq(Frame) /\ toTx \in Seq(Frame)
    /\ sent \in Seq(Lengths) /\ Len(sent) <= MaxMsgs
    /\ delivered \in Seq(Seq(Byte)) /\ abandoned \subseteq DOMAIN sent
    /\ lost \in 0 .. MaxLost /\ foreign \in 0 .. MaxForeign

\* The sender is busy with the last message begun.
TxOnMessage ==
    tx.state # "NONE" =>
        /\ Len(sent) > 0 /\ tx.msg = Len(sent) /\ tx.len = sent[tx.msg]
        /\ tx.state = "IDLE" => tx.sent = 0

\* A transfer that is not finished has something left to send, and the sender
\* never goes beyond the block it was last granted (isotp_tx_next's check
\* before every consecutive frame), whatever flow control arrives and when.
TxWithinGrant ==
    /\ tx.state \in {"WAIT_FC", "SENDING"} => tx.sent \in FfData .. tx.len - 1
    /\ tx.state = "SENDING" /\ tx.blockSize # 0 => tx.cfInBlock <= tx.blockSize

\* What the receiver's caller got is a whole message of the sender.
Intact(p) == \E m \in DOMAIN sent : p = Payload(m, sent[m])

\* With no foreign frames, fewer lost frames than there are sequence numbers,
\* and no caller giving up, every byte the receiver has stored is at its place
\* in one message: a gap is noticed at the next frame ("a single lost frame is
\* detectable but a loss of exactly 16 is not", isotp.c:123).
StoredInPlace ==
    foreign = 0 /\ lost < SnMod /\ abandoned = {} =>
        \E m \in 0 .. Len(sent) : rx.buf = Payload(m, Len(rx.buf))

\* With no foreign frames, what the receiver reports as a message is exactly
\* one message the sender began, and they come in order and at most once,
\* although frames of either direction are lost, or the sender's caller gives
\* up and starts over: nothing but a first frame opens a message, and a
\* consecutive frame follows only what the receiver has answered.  Both faults
\* together are excluded: then the flow control of a message given up, come
\* late, releases the next message's consecutive frames although its first
\* frame was lost.
DeliveredIntact ==
    foreign = 0 /\ (lost = 0 \/ abandoned = {}) =>
        /\ \A i \in DOMAIN delivered : Intact(delivered[i])
        /\ \A i, j \in DOMAIN delivered :
             i < j => delivered[i][1][1] < delivered[j][1][1]

\* On a reliable bus the two sides agree on when flow control is due: it never
\* happens that the sender waits for it, nothing is under way, and so the
\* receiver will not send it ("If the two sides disagree about when an FC is
\* due, this deadlocks", test_isotp.c:171).
NoMutualWait ==
    ~(tx.state = "WAIT_FC" /\ toRx = <<>> /\ toTx = <<>>)

\* No more consecutive frames are under way than the block size the receiver
\* advertises: what its frame queue must be able to hold.
CfsWithinBlock ==
    rx.blockSize # 0 =>
        Cardinality({ i \in DOMAIN toRx : toRx[i].pci = "CF" }) <= rx.blockSize

\* On a reliable bus the receiver reports no error.
NoErrorReported == ev \in {"NONE", "SEND_FC", "MESSAGE"}

\* The sender's wait for flow control ends.
SenderIsAnswered == (tx.state = "WAIT_FC") ~> (tx.state # "WAIT_FC")

\* Once the faults are over, a message begun on an empty bus is delivered
\* unless its caller gives up on it, whatever state the faults left the
\* receiver in ("One corrupted exchange must not
\* poison the next good one", test_isotp.c:275).
FaultsOver == lost = MaxLost /\ foreign = MaxForeign

Fresh(m) ==
    /\ tx.state = "IDLE" /\ tx.msg = m /\ tx.len <= rx.bufferLimit
    /\ toRx = <<>> /\ toTx = <<>>

Arrived(m) ==
    /\ m \in DOMAIN sent
    /\ \E i \in DOMAIN delivered : delivered[i] = Payload(m, sent[m])

NextGoodOneArrives ==
    \A m \in 1 .. MaxMsgs :
        (FaultsOver /\ Fresh(m)) ~> (Arrived(m) \/ m \in abandoned)

-----------------------------------------------------------------------------
\* What the link is for: the abstract service.
Service == INSTANCE IsoTpService

\* On a reliable bus, and with a receiver whose buffer is large enough, the
\* link implements the service: every message begun comes out once, whole and
\* in order, and it does come out.
ReliableService == Service!Spec

=============================================================================
