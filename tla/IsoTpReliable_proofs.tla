------------------------ MODULE IsoTpReliable_proofs ------------------------
(* On a reliable bus the link is the service: nothing is reported as an      *)
(* error, the two sides never wait for each other, and what comes out is     *)
(* what went in.                                                             *)
(*                                                                           *)
(* A position in the stream of messages says how far a node has come: the    *)
(* message, the bytes of it behind, the next sequence number, the frames     *)
(* since the last flow control, and whether flow control is due before the   *)
(* next frame.  The receiver is at one position, the sender at another, and  *)
(* every frame under way leads from a position to the next: the frames under *)
(* way are exactly what the receiver lacks of what the sender has sent.      *)
(* Flow control is due at no position but the sender's own, so when nothing  *)
(* is under way and flow control is due the receiver stands there too, and   *)
(* has sent it.                                                              *)
EXTENDS IsoTpLink_proofs

ReliableBus ==
    /\ MaxLost = 0 /\ MaxForeign = 0 /\ Impatient = FALSE
    /\ \A len \in Lengths, limit \in BufferLimits : len <= limit

Position(m, off, sn, c, due) ==
    [m |-> m, off |-> off, sn |-> sn, c |-> c, due |-> due]

StartOf(m) == Position(m, 0, 0, 0, FALSE)

RxPosition ==
    IF rx.state = "IDLE" THEN StartOf(Len(delivered) + 1)
    ELSE Position(Len(delivered) + 1, Len(rx.buf), rx.nextSn, rx.cfSinceFc, FALSE)

\* The sender has to wait for flow control.
TxStopped == tx.state = "WAIT_FC" \/ (tx.state = "SENDING" /\ BlockSent)

TxPosition ==
    IF tx.state = "NONE" THEN StartOf(1)
    ELSE IF tx.state = "IDLE" THEN StartOf(tx.msg)
    ELSE IF tx.state = "DONE" THEN StartOf(tx.msg + 1)
    ELSE IF toTx = <<>>
         THEN Position(tx.msg, tx.sent, tx.nextSn, tx.cfInBlock, TxStopped)
         ELSE Position(tx.msg, tx.sent, tx.nextSn, 0, FALSE)

\* Frame f carries count bytes of message m from the byte after off on.
Carries(f, m, off, count) ==
    \A k \in 1 .. count : f.data[k] = <<m, off + k>>

\* Frame f leads from position p to position q, when the messages have the
\* lengths len and flow control is due every bs frames.
MovesSingle(len, p, f, q) ==
    /\ p.m \in 1 .. Len(len) /\ p.off = 0 /\ len[p.m] <= CfData
    /\ f.pci = "SF" /\ f.dlc = Dlc /\ f.n = len[p.m]
    /\ Carries(f, p.m, 0, f.n)
    /\ q = StartOf(p.m + 1)

MovesFirst(len, p, f, q) ==
    /\ p.m \in 1 .. Len(len) /\ p.off = 0 /\ len[p.m] > CfData
    /\ f.pci = "FF" /\ f.dlc = Dlc /\ f.n = len[p.m]
    /\ Carries(f, p.m, 0, FfData)
    /\ q = Position(p.m, FfData, 1, 0, TRUE)

\* The bytes a consecutive frame carries when off of len are behind.
Share(len, off) == IF len - off > CfData THEN CfData ELSE len - off

\* Where it leads.
AfterConsecutive(len, bs, p) ==
    IF p.off + Share(len, p.off) >= len THEN StartOf(p.m + 1)
    ELSE Position(p.m, p.off + Share(len, p.off), (p.sn + 1) % SnMod, p.c + 1,
                  bs # 0 /\ p.c + 1 >= bs)

MovesConsecutive(len, bs, p, f, q) ==
    /\ p.m \in 1 .. Len(len) /\ p.off \in 1 .. len[p.m] - 1 /\ ~p.due
    /\ f.pci = "CF" /\ f.dlc = Dlc /\ f.n = p.sn
    /\ Carries(f, p.m, p.off, Share(len[p.m], p.off))
    /\ q = AfterConsecutive(len[p.m], bs, p)

Moves(len, bs, p, f, q) ==
    \/ MovesSingle(len, p, f, q)
    \/ MovesFirst(len, p, f, q)
    \/ MovesConsecutive(len, bs, p, f, q)

Chain(pos) ==
    /\ pos[1] = RxPosition
    /\ pos[Len(toRx) + 1] = TxPosition
    /\ \A i \in 1 .. Len(toRx) :
         Moves(sent, rx.blockSize, pos[i], toRx[i], pos[i + 1])

\* Flow control under way: one frame, the sender stopped, nothing else.
Answered ==
    /\ toTx = <<FcFrame(CTS, rx.blockSize)>> /\ toRx = <<>>
    /\ TxStopped /\ rx.state = "WAIT_CF" /\ rx.cfSinceFc = 0

ReliableState ==
    /\ \A len \in Lengths : len <= rx.bufferLimit
    /\ ev \in {"NONE", "SEND_FC", "MESSAGE"}
    /\ tx.state # "ABORTED"
    /\ tx.state = "NONE" => sent = <<>>
    /\ tx.state = "SENDING" => tx.blockSize = rx.blockSize
    /\ tx.state = "IDLE" => tx.nextSn = 1 /\ tx.cfInBlock = 0
    /\ toTx = <<>> \/ Answered

\* What has been delivered, and what is in the receiver's buffer.
DeliveredSoFar ==
    /\ Len(delivered) <= Len(sent)
    /\ \A i \in 1 .. Len(delivered) : delivered[i] = Payload(i, sent[i])
    /\ rx.state = "WAIT_CF" =>
         /\ Len(delivered) < Len(sent)
         /\ rx.total = sent[Len(delivered) + 1]
         /\ \A k \in 1 .. Len(rx.buf) : rx.buf[k] = <<Len(delivered) + 1, k>>

ReliableInv ==
    /\ LinkInv /\ ReliableState /\ DeliveredSoFar
    /\ \E pos : Chain(pos)

-----------------------------------------------------------------------------
(* How the chain grows, shrinks and survives a new message. *)

LEMMA ChainGrows ==
    ASSUME LinkInv, NEW pos, Chain(pos), NEW f \in Frame,
           toRx' = Append(toRx, f), UNCHANGED <<rx, sent, delivered>>,
           Moves(sent, rx.blockSize, TxPosition, f, TxPosition')
    PROVE  \E pos2 : Chain(pos2)'
<1> DEFINE n == Len(toRx)
           pos2 == [i \in 1 .. n + 2 |-> IF i <= n + 1 THEN pos[i] ELSE TxPosition']
<1>1. toRx \in Seq(Frame) /\ n \in Nat
  BY LenProperties DEF LinkInv, LinkTypeOK
<1>2. /\ Len(toRx') = n + 1 /\ toRx'[n + 1] = f
      /\ \A i \in 1 .. n : toRx'[i] = toRx[i]
  BY <1>1, AppendProperties
<1>3. pos2[n + 2] = TxPosition' /\ \A i \in 1 .. n + 1 : pos2[i] = pos[i]
  BY <1>1
<1>4. RxPosition' = RxPosition
  BY DEF RxPosition
<1> HIDE DEF pos2
<1>5. ASSUME NEW i \in 1 .. n + 1
      PROVE  Moves(sent, rx.blockSize, pos2[i], toRx'[i], pos2[i + 1])
  <2>1. CASE i = n + 1
    BY <1>1, <1>2, <1>3, <2>1 DEF Chain
  <2>2. CASE i # n + 1
    BY <1>1, <1>2, <1>3, <2>2 DEF Chain
  <2>3. QED
    BY <2>1, <2>2
<1>6. pos2[1] = RxPosition' /\ pos2[Len(toRx') + 1] = TxPosition'
  BY <1>1, <1>2, <1>3, <1>4 DEF Chain
<1>7. \A i \in 1 .. Len(toRx') :
        Moves(sent', rx'.blockSize, pos2[i], toRx'[i], pos2[i + 1])
  BY <1>2, <1>5
<1>8. PICK c : c = pos2
  OBVIOUS
<1>9. Chain(c)'
  BY <1>6, <1>7, <1>8 DEF Chain
<1>10. QED
  BY <1>9

LEMMA ChainShrinks ==
    ASSUME LinkInv, NEW pos, Chain(pos), toRx # <<>>, toRx' = Tail(toRx),
           UNCHANGED sent, rx'.blockSize = rx.blockSize,
           RxPosition' = pos[2], TxPosition' = TxPosition
    PROVE  \E pos2 : Chain(pos2)'
<1> DEFINE n == Len(toRx)
           pos2 == [i \in 1 .. n |-> pos[i + 1]]
<1>1. toRx \in Seq(Frame) /\ n \in Nat /\ n > 0
  BY LenProperties, EmptySeq DEF LinkInv, LinkTypeOK
<1>2. Len(toRx') = n - 1 /\ \A i \in 1 .. n - 1 : toRx'[i] = toRx[i + 1]
  BY <1>1, HeadTailProperties
<1>3. \A i \in 1 .. n : pos2[i] = pos[i + 1]
  OBVIOUS
<1> HIDE DEF pos2
<1>4. pos2[1] = RxPosition' /\ pos2[Len(toRx') + 1] = TxPosition'
  BY <1>1, <1>2, <1>3 DEF Chain
<1>5. ASSUME NEW i \in 1 .. Len(toRx')
      PROVE  Moves(sent', rx'.blockSize, pos2[i], toRx'[i], pos2[i + 1])
  <2>1. i \in 1 .. n - 1 /\ i + 1 \in 1 .. n
    BY <1>1, <1>2
  <2>2. Moves(sent, rx.blockSize, pos[i + 1], toRx[i + 1], pos[i + 1 + 1])
    BY <2>1 DEF Chain
  <2>3. pos2[i] = pos[i + 1] /\ pos2[i + 1] = pos[i + 1 + 1] /\ toRx'[i] = toRx[i + 1]
    BY <1>1, <1>2, <1>3, <2>1
  <2>4. QED
    BY <2>2, <2>3
<1>6. PICK c : c = pos2
  OBVIOUS
<1>7. Chain(c)'
  BY <1>4, <1>5, <1>6 DEF Chain
<1>8. QED
  BY <1>7

\* Frames of old messages do not mind a new one.
LEMMA MovesStable ==
    ASSUME NEW len \in Seq(Nat), NEW new \in Seq(Nat), NEW bs, NEW p, NEW f, NEW q,
           Len(len) <= Len(new), \A i \in 1 .. Len(len) : new[i] = len[i],
           Moves(len, bs, p, f, q)
    PROVE  Moves(new, bs, p, f, q)
<1>1. Len(len) \in Nat /\ Len(new) \in Nat
  BY LenProperties
<1>2. p.m \in 1 .. Len(len)
  BY DEF Moves, MovesSingle, MovesFirst, MovesConsecutive
<1> DEFINE m == p.m
<1>3. m \in 1 .. Len(new) /\ new[m] = len[m]
  BY <1>1, <1>2
<1>4. CASE MovesSingle(len, p, f, q)
  BY <1>3, <1>4 DEF Moves, MovesSingle
<1>5. CASE MovesFirst(len, p, f, q)
  BY <1>3, <1>5 DEF Moves, MovesFirst
<1>6. CASE MovesConsecutive(len, bs, p, f, q)
  BY <1>3, <1>6 DEF Moves, MovesConsecutive
<1>7. QED
  BY <1>4, <1>5, <1>6 DEF Moves

\* No frame leaves a position where flow control is due.
LEMMA NoMoveWhenDue ==
    ASSUME NEW len, NEW bs, NEW p, NEW f, NEW q, p.due, p.off # 0
    PROVE  ~Moves(len, bs, p, f, q)
BY DEF Moves, MovesSingle, MovesFirst, MovesConsecutive

-----------------------------------------------------------------------------
(* The invariant holds initially, and the sender's steps keep it. *)

LEMMA ReliableInit ==
    ASSUME ReliableBus, Init
    PROVE  ReliableInv
<1>1. LinkInv
  BY LinkInvInit
<1>2. PICK limit \in BufferLimits, bs \in BlockSizes : RxInit(limit, bs)
  BY DEF Init
<1>3. /\ rx.state = "IDLE" /\ rx.cfSinceFc = 0 /\ ev = "NONE"
      /\ rx.bufferLimit = IF limit > MaxPayload THEN MaxPayload ELSE limit
  BY <1>2 DEF RxInit
<1>4. tx.state = "NONE" /\ toTx = <<>> /\ toRx = <<>> /\ sent = <<>> /\ delivered = <<>>
  BY DEF Init, TxInit
<1>5. Len(<<>>) = 0
  BY EmptySeq
<1>6. ReliableState
  <2>1. \A len \in Lengths : len <= rx.bufferLimit
    BY <1>3, LinkAssumption, FrameAssumption DEF ReliableBus
  <2>2. QED
    BY <1>3, <1>4, <2>1 DEF ReliableState
<1>7. DeliveredSoFar
  BY <1>3, <1>4, <1>5 DEF DeliveredSoFar
<1>8. RxPosition = StartOf(1) /\ TxPosition = StartOf(1)
  BY <1>3, <1>4, <1>5 DEF RxPosition, TxPosition
<1>9. PICK pos : pos = <<StartOf(1)>>
  OBVIOUS
<1>10. Chain(pos)
  BY <1>4, <1>5, <1>8, <1>9 DEF Chain
<1>11. QED
  BY <1>1, <1>6, <1>7, <1>10 DEF ReliableInv

LEMMA ReliableBegin ==
    ASSUME ReliableBus, ReliableInv, NEW len \in Lengths, Begin(len)
    PROVE  ReliableInv'
<1>1. LinkInv /\ LinkInv'
  BY BeginStep DEF ReliableInv
<1>2. /\ tx.state \in {"NONE", "DONE"}
      /\ UNCHANGED <<rx, ev, toRx, toTx, delivered>>
      /\ sent' = Append(sent, len)
      /\ tx' = [ state |-> "IDLE", msg |-> Len(sent) + 1, len |-> len, sent |-> 0,
                 nextSn |-> 1, blockSize |-> 0, cfInBlock |-> 0 ]
  BY DEF Begin, TxBegin, rxVars, ReliableBus, ReliableInv, ReliableState
<1>3. sent \in Seq(Lengths) /\ sent \in Seq(Nat) /\ len \in Nat /\ delivered \in Seq(Seq(Byte))
  <2>1. sent \in Seq(Lengths) /\ delivered \in Seq(Seq(Byte))
    BY <1>1 DEF LinkInv, LinkTypeOK
  <2>2. Lengths \subseteq Nat
    BY LinkAssumption
  <2>3. QED
    BY <2>1, <2>2, SeqMonotonic
<1>4. /\ sent' \in Seq(Nat) /\ Len(sent') = Len(sent) + 1
      /\ \A i \in 1 .. Len(sent) : sent'[i] = sent[i]
  BY <1>2, <1>3, AppendProperties
<1>5. Len(sent) \in Nat /\ Len(delivered) \in Nat
  BY <1>3, LenProperties
<1>6. toTx = <<>> /\ toTx' = <<>>
  BY <1>2 DEF ReliableInv, ReliableState, Answered, TxStopped
<1>7. ReliableState'
  BY <1>2, <1>6 DEF ReliableInv, ReliableState
<1>8. DeliveredSoFar'
  <2>1. \A i \in 1 .. Len(delivered) : Payload(i, sent'[i]) = Payload(i, sent[i])
    BY <1>4, <1>5 DEF ReliableInv, DeliveredSoFar
  <2>2. QED
    BY <1>2, <1>4, <1>5, <2>1 DEF ReliableInv, DeliveredSoFar
<1>9. RxPosition' = RxPosition
  BY <1>2 DEF RxPosition
<1>10. TxPosition' = TxPosition
  <2>1. TxPosition' = StartOf(Len(sent) + 1)
    BY <1>2 DEF TxPosition
  <2>2. CASE tx.state = "NONE"
    <3>1. sent = <<>> /\ Len(sent) = 0
      BY <2>2, EmptySeq DEF ReliableInv, ReliableState
    <3>2. TxPosition = StartOf(1)
      BY <2>2 DEF TxPosition
    <3>3. QED
      BY <2>1, <3>1, <3>2
  <2>3. CASE tx.state = "DONE"
    BY <1>1, <2>1, <2>3 DEF TxPosition, LinkInv, TxOnMessage
  <2>4. QED
    BY <1>2, <2>2, <2>3
<1>11. PICK pos : Chain(pos)
  BY DEF ReliableInv
<1>12. Chain(pos)'
  <2>1. ASSUME NEW i \in 1 .. Len(toRx)
        PROVE  Moves(sent', rx.blockSize, pos[i], toRx[i], pos[i + 1])
    <3>1. Moves(sent, rx.blockSize, pos[i], toRx[i], pos[i + 1])
      BY <1>11 DEF Chain
    <3>2. Len(sent) <= Len(sent')
      BY <1>4, <1>5
    <3>3. QED
      BY <1>3, <1>4, <3>1, <3>2, MovesStable
  <2>2. QED
    BY <1>2, <1>9, <1>10, <1>11, <2>1 DEF Chain
<1>13. QED
  BY <1>1, <1>7, <1>8, <1>12 DEF ReliableInv

\* A frame the sender puts on the bus leads from its old to its new position.
LEMMA ReliableTransmit ==
    ASSUME ReliableInv, LinkInv', NEW f \in Frame, Transmit(f), toTx = <<>>,
           tx'.state \in {"DONE", "WAIT_FC", "SENDING"},
           tx'.state = "SENDING" => tx'.blockSize = rx.blockSize,
           Moves(sent, rx.blockSize, TxPosition, f, TxPosition')
    PROVE  ReliableInv'
<1>1. /\ UNCHANGED <<rx, ev, toTx, sent, delivered>>
      /\ toRx' = Append(toRx, f)
  BY DEF Transmit, rxVars
<1>2. ReliableState'
  BY <1>1 DEF ReliableInv, ReliableState
<1>3. DeliveredSoFar'
  BY <1>1 DEF ReliableInv, DeliveredSoFar
<1>4. PICK pos : Chain(pos)
  BY DEF ReliableInv
<1>5. \E pos2 : Chain(pos2)'
  BY <1>1, <1>4, ChainGrows DEF ReliableInv
<1>6. QED
  BY <1>2, <1>3, <1>5 DEF ReliableInv

\* The sender's message among those begun.
LEMMA TxMessage ==
    ASSUME LinkInv, tx.state # "NONE"
    PROVE  /\ tx.msg \in 1 .. Len(sent) /\ sent[tx.msg] = tx.len
           /\ tx.msg \in Nat /\ Len(sent) \in Nat /\ tx \in TxState
           /\ tx.len \in Nat /\ tx.sent \in Nat /\ tx.nextSn \in Nat
           /\ tx.cfInBlock \in Nat /\ tx.blockSize \in Nat
BY LenProperties
   DEF LinkInv, LinkTypeOK, TxTypeOK, TxState, TxOnMessage

\* The first bytes of a slice are the payload's.
LEMMA SlicePrefix ==
    ASSUME NEW count \in Nat, NEW size \in Nat, count <= size,
           \A k \in 1 .. count : <<tx.msg, tx.sent + k>> \in Byte
    PROVE  \A k \in 1 .. count : Slice(count, size)[k] = <<tx.msg, tx.sent + k>>
<1>1. \A k \in 1 .. size : Slice(count, size)[k] =
        IF k <= count THEN <<tx.msg, tx.sent + k>> ELSE Pad
  BY SliceProperties
<1>2. \A k \in 1 .. count : k \in 1 .. size /\ k <= count
  OBVIOUS
<1>3. QED
  BY <1>1, <1>2

LEMMA ReliableSend ==
    ASSUME ReliableBus, ReliableInv, Send
    PROVE  ReliableInv'
<1> USE FrameAssumption
<1>1. LinkInv /\ LinkInv'
  BY SendStep DEF ReliableInv
<1>2. tx.state # "NONE"
  BY DEF Send, TxSingle, TxFirst, TxConsecutive, TxEndBlock
<1>3. CASE TxSingle /\ Transmit(SingleFrame)
  <2>1. /\ tx.state = "IDLE" /\ tx.len <= CfData /\ tx.sent = 0
        /\ tx'.state = "DONE" /\ tx'.msg = tx.msg
    BY <1>1, <1>3, TxMessage DEF TxSingle, LinkInv, TxOnMessage, TxState
  <2>2. toTx = <<>>
    BY <2>1 DEF ReliableInv, ReliableState, Answered, TxStopped
  <2>3. TxPosition = StartOf(tx.msg) /\ TxPosition' = StartOf(tx.msg + 1)
    BY <2>1 DEF TxPosition
  <2>4. CfData \in Nat /\ \A k \in 1 .. tx.len : k \in 1 .. tx.len - tx.sent
    BY <1>1, <1>2, <2>1, TxMessage DEF CfData
  <2>5. \A k \in 1 .. tx.len : <<tx.msg, tx.sent + k>> \in Byte
    BY <1>1, <1>2, <2>4, TxBytes DEF LinkInv
  <2>6. \A k \in 1 .. tx.len : Slice(tx.len, CfData)[k] = <<tx.msg, tx.sent + k>>
    BY <1>1, <1>2, <2>1, <2>4, <2>5, TxMessage, SlicePrefix
  <2>7. MovesSingle(sent, StartOf(tx.msg), SingleFrame, StartOf(tx.msg + 1))
    BY <1>1, <1>2, <2>1, <2>6, TxMessage
       DEF MovesSingle, SingleFrame, StartOf, Position, Carries
  <2>8. QED
    BY <1>1, <1>3, <2>1, <2>2, <2>3, <2>7, SentFrames, ReliableTransmit
       DEF Moves, LinkInv
<1>4. CASE TxFirst /\ Transmit(FirstFrame)
  <2>1. /\ tx.state = "IDLE" /\ tx.len > CfData /\ tx.sent = 0
        /\ tx.nextSn = 1 /\ tx.cfInBlock = 0
    BY <1>4 DEF TxFirst, LinkInv, TxOnMessage, ReliableInv, ReliableState
  <2>2. /\ tx'.state = "WAIT_FC" /\ tx'.msg = tx.msg /\ tx'.sent = FfData
        /\ tx'.nextSn = 1 /\ tx'.cfInBlock = 0
    BY <1>1, <1>2, <1>4, <2>1, TxMessage DEF TxFirst, TxState
  <2>3. toTx = <<>> /\ toTx' = <<>>
    BY <1>4, <2>1 DEF ReliableInv, ReliableState, Answered, TxStopped, Transmit
  <2>4. /\ TxPosition = StartOf(tx.msg)
        /\ TxPosition' = Position(tx.msg, FfData, 1, 0, TRUE)
    BY <2>1, <2>2, <2>3 DEF TxPosition, TxStopped
  <2>5. FfData \in Nat /\ \A k \in 1 .. FfData : k \in 1 .. tx.len - tx.sent
    BY <1>1, <1>2, <2>1, TxMessage DEF CfData, FfData
  <2>6. \A k \in 1 .. FfData : <<tx.msg, tx.sent + k>> \in Byte
    BY <1>1, <1>2, <2>5, TxBytes DEF LinkInv
  <2>7. \A k \in 1 .. FfData : Slice(FfData, FfData)[k] = <<tx.msg, tx.sent + k>>
    BY <2>5, <2>6, SlicePrefix
  <2>8. MovesFirst(sent, StartOf(tx.msg), FirstFrame,
                   Position(tx.msg, FfData, 1, 0, TRUE))
    BY <1>1, <1>2, <2>1, <2>7, TxMessage
       DEF MovesFirst, FirstFrame, StartOf, Position, Carries
  <2>9. QED
    BY <1>1, <1>4, <2>2, <2>3, <2>4, <2>8, SentFrames, ReliableTransmit
       DEF Moves, LinkInv
<1>5. CASE TxConsecutive /\ Transmit(ConsecutiveFrame)
  <2> DEFINE p == Position(tx.msg, tx.sent, tx.nextSn, tx.cfInBlock, FALSE)
             q == AfterConsecutive(tx.len, rx.blockSize, p)
  <2>1. /\ tx.state = "SENDING" /\ ~BlockSent /\ tx.blockSize = rx.blockSize
        /\ tx.sent \in FfData .. tx.len - 1
    BY <1>5 DEF TxConsecutive, ReliableInv, ReliableState, LinkInv, TxWithinGrant
  <2>2. /\ tx'.state = IF tx.sent + TxTake >= tx.len THEN "DONE" ELSE "SENDING"
        /\ tx'.msg = tx.msg /\ tx'.sent = tx.sent + TxTake
        /\ tx'.nextSn = (tx.nextSn + 1) % SnMod
        /\ tx'.cfInBlock = tx.cfInBlock + 1 /\ tx'.blockSize = tx.blockSize
    BY <1>1, <1>2, <1>5, TxMessage DEF TxConsecutive, TxState
  <2>3. toTx = <<>> /\ toTx' = <<>>
    BY <1>5, <2>1 DEF ReliableInv, ReliableState, Answered, TxStopped, Transmit
  <2>4. TxTake = Share(tx.len, tx.sent)
    BY DEF TxTake, Share
  <2>5. TxPosition = p
    BY <2>1, <2>3 DEF TxPosition, TxStopped
  <2>6. p.m = tx.msg /\ p.off = tx.sent /\ p.sn = tx.nextSn /\ p.c = tx.cfInBlock /\ ~p.due
    BY DEF Position
  <2>7. TxPosition' = q
    <3>1. CASE tx.sent + TxTake >= tx.len
      BY <2>2, <2>4, <2>6, <3>1 DEF TxPosition, AfterConsecutive
    <3>2. CASE ~(tx.sent + TxTake >= tx.len)
      <4>1. TxStopped' = (rx.blockSize # 0 /\ p.c + 1 >= rx.blockSize)
        BY <2>1, <2>2, <2>6, <3>2 DEF TxStopped, BlockSent
      <4>2. TxPosition' = Position(tx.msg, tx.sent + TxTake, (tx.nextSn + 1) % SnMod,
                                   tx.cfInBlock + 1, TxStopped')
        BY <2>2, <2>3, <3>2 DEF TxPosition
      <4>3. QED
        BY <2>4, <2>6, <3>2, <4>1, <4>2 DEF AfterConsecutive
    <3>3. QED
      BY <3>1, <3>2
  <2>8. /\ CfData \in Nat /\ TxTake \in Nat /\ TxTake <= CfData
        /\ \A k \in 1 .. TxTake : k \in 1 .. tx.len - tx.sent
    BY <1>1, <1>2, <2>1, TxMessage DEF CfData, FfData, TxTake
  <2>9. \A k \in 1 .. TxTake : <<tx.msg, tx.sent + k>> \in Byte
    BY <1>1, <1>2, <2>8, TxBytes DEF LinkInv
  <2>10. \A k \in 1 .. TxTake : Slice(TxTake, CfData)[k] = <<tx.msg, tx.sent + k>>
    BY <2>8, <2>9, SlicePrefix
  <2>11. tx.sent \in 1 .. tx.len - 1
    BY <2>1 DEF FfData
  <2> HIDE DEF p
  <2>12. MovesConsecutive(sent, rx.blockSize, p, ConsecutiveFrame, q)
    BY <1>1, <1>2, <2>4, <2>6, <2>10, <2>11, TxMessage
       DEF MovesConsecutive, ConsecutiveFrame, Carries
  <2>13. tx'.state \in {"DONE", "WAIT_FC", "SENDING"}
    BY <2>2
  <2> HIDE DEF q
  <2>14. QED
    BY <1>1, <1>5, <2>1, <2>2, <2>3, <2>5, <2>7, <2>12, <2>13, SentFrames,
       ReliableTransmit DEF Moves, LinkInv
<1>6. CASE /\ TxEndBlock
           /\ UNCHANGED <<rxVars, toRx, toTx, sent, delivered, abandoned, lost, foreign>>
  <2>1. /\ tx.state = "SENDING" /\ BlockSent /\ tx'.state = "WAIT_FC"
        /\ tx'.msg = tx.msg /\ tx'.sent = tx.sent /\ tx'.nextSn = tx.nextSn
        /\ tx'.cfInBlock = tx.cfInBlock
    BY <1>1, <1>2, <1>6, TxMessage DEF TxEndBlock, TxState
  <2>2. UNCHANGED <<rx, ev, toRx, toTx, sent, delivered>>
    BY <1>6 DEF rxVars
  <2>3. TxStopped /\ TxStopped'
    BY <2>1 DEF TxStopped
  <2>4. TxPosition' = TxPosition /\ RxPosition' = RxPosition
    BY <2>1, <2>2, <2>3 DEF TxPosition, RxPosition
  <2>5. ReliableState'
    BY <2>1, <2>2, <2>3 DEF ReliableInv, ReliableState, Answered
  <2>6. DeliveredSoFar'
    BY <2>2 DEF ReliableInv, DeliveredSoFar
  <2>7. PICK pos : Chain(pos)
    BY DEF ReliableInv
  <2>8. Chain(pos)'
    BY <2>2, <2>4, <2>7 DEF Chain
  <2>9. QED
    BY <1>1, <2>5, <2>6, <2>8 DEF ReliableInv
<1>7. QED
  BY <1>3, <1>4, <1>5, <1>6 DEF Send

LEMMA ReliableFlowControl ==
    ASSUME ReliableBus, ReliableInv, FlowControl
    PROVE  ReliableInv'
<1> USE FrameAssumption
<1>1. LinkInv /\ LinkInv'
  BY FlowControlStep DEF ReliableInv
<1>2. UNCHANGED <<rx, ev, toRx, sent, delivered>> /\ toTx # <<>> /\ toTx' = Tail(toTx)
  BY DEF FlowControl, rxVars
<1>3. Answered
  BY <1>2 DEF ReliableInv, ReliableState
<1> DEFINE f == FcFrame(CTS, rx.blockSize)
<1>4. Head(toTx) = f /\ toTx' = <<>>
  BY <1>2, <1>3 DEF Answered
<1>5. f.dlc = Dlc /\ f.pci = "FC" /\ f.n = CTS /\ f.bs = rx.blockSize
  BY DEF FcFrame
<1>6. tx.state \in {"WAIT_FC", "SENDING"}
  BY <1>3 DEF Answered, TxStopped
<1>7. tx.state # "NONE"
  BY <1>6
<1> HIDE DEF f
<1>8. TxContinue(f)
  <2>1. TxFlowControl(f)
    BY <1>4 DEF FlowControl
  <2>2. ~FcIgnorable(f)
    BY <1>5, <1>6 DEF FcIgnorable
  <2>3. QED
    BY <1>5, <2>1, <2>2 DEF TxFlowControl, TxIgnore, TxWait, TxAbort, CTS, WAIT
<1>9. /\ tx'.state = "SENDING" /\ tx'.msg = tx.msg /\ tx'.sent = tx.sent
      /\ tx'.nextSn = tx.nextSn /\ tx'.cfInBlock = 0
      /\ tx'.blockSize = rx.blockSize
  BY <1>1, <1>5, <1>7, <1>8, TxMessage DEF TxContinue, TxState
<1>10. ReliableState'
  BY <1>2, <1>4, <1>9 DEF ReliableInv, ReliableState
<1>11. DeliveredSoFar'
  BY <1>2 DEF ReliableInv, DeliveredSoFar
<1>12. TxPosition' = TxPosition /\ RxPosition' = RxPosition
  <2>1. TxPosition = Position(tx.msg, tx.sent, tx.nextSn, 0, FALSE)
    BY <1>2, <1>6 DEF TxPosition
  <2>2. ~TxStopped'
    <3>1. rx.blockSize \in Nat
      BY <1>1 DEF LinkInv, LinkTypeOK, RxTypeOK, RxState
    <3>2. QED
      BY <1>9, <3>1 DEF TxStopped, BlockSent
  <2>3. TxStopped' = FALSE
    BY <2>2 DEF TxStopped
  <2>4. TxPosition' = Position(tx.msg, tx.sent, tx.nextSn, 0, FALSE)
    BY <1>4, <1>9, <2>3 DEF TxPosition
  <2>5. QED
    BY <1>2, <2>1, <2>4 DEF RxPosition
<1>13. PICK pos : Chain(pos)
  BY DEF ReliableInv
<1>14. Chain(pos)'
  BY <1>2, <1>12, <1>13 DEF Chain
<1>15. QED
  BY <1>1, <1>10, <1>11, <1>14 DEF ReliableInv

-----------------------------------------------------------------------------
(* The receiver follows the chain. *)

\* The lengths of the messages begun, and the receiver's part of the types.
LEMMA RxFacts ==
    ASSUME ReliableInv
    PROVE  /\ rx \in RxState /\ rx.buf \in Seq(Byte) /\ Len(rx.buf) \in Nat
           /\ rx.total \in Nat /\ rx.blockSize \in Nat /\ rx.cfSinceFc \in Nat
           /\ rx.nextSn \in 0 .. SnMod - 1 /\ rx.state \in {"IDLE", "WAIT_CF"}
           /\ delivered \in Seq(Seq(Byte)) /\ Len(delivered) \in Nat
           /\ Len(sent) \in Nat /\ rx.bufferLimit \in Nat
           /\ \A m \in 1 .. Len(sent) :
                sent[m] \in 1 .. MaxPayload /\ sent[m] <= rx.bufferLimit
<1>1. sent \in Seq(Lengths) /\ delivered \in Seq(Seq(Byte))
  BY DEF ReliableInv, LinkInv, LinkTypeOK
<1>2. rx \in RxState
  BY DEF ReliableInv, LinkInv, LinkTypeOK, RxTypeOK
<1>3. /\ rx.buf \in Seq(Byte) /\ rx.total \in Nat /\ rx.blockSize \in Nat
      /\ rx.cfSinceFc \in Nat /\ rx.nextSn \in 0 .. SnMod - 1
      /\ rx.bufferLimit \in Nat /\ rx.state \in {"IDLE", "WAIT_CF"}
  BY <1>2, FrameAssumption DEF RxState
<1>4. Len(sent) \in Nat /\ Len(delivered) \in Nat /\ Len(rx.buf) \in Nat
  BY <1>1, <1>3, LenProperties
<1>5. ASSUME NEW m \in 1 .. Len(sent)
      PROVE  sent[m] \in 1 .. MaxPayload /\ sent[m] <= rx.bufferLimit
  <2>1. sent[m] \in Lengths
    BY <1>1, ElementOfSeq
  <2>2. QED
    BY <2>1, LinkAssumption DEF ReliableInv, ReliableState
<1>6. QED
  BY <1>1, <1>2, <1>3, <1>4, <1>5

\* A position at the start of a message is an idle receiver's, one inside a
\* message is a waiting receiver's.
LEMMA RxPositionState ==
    ASSUME ReliableInv
    PROVE  /\ RxPosition.m = Len(delivered) + 1 /\ ~RxPosition.due
           /\ RxPosition.off = 0 <=> rx.state = "IDLE"
           /\ rx.state = "WAIT_CF" =>
                /\ RxPosition.off = Len(rx.buf) /\ RxPosition.sn = rx.nextSn
                /\ RxPosition.c = rx.cfSinceFc
<1>1. rx.state = "WAIT_CF" => Len(rx.buf) \in FfData .. rx.total - 1
  BY DEF ReliableInv, LinkInv, RxWithinBuffer
<1>2. QED
  BY <1>1, RxFacts, FrameAssumption DEF RxPosition, StartOf, Position, FfData

\* A sequence of the right length and contents is the payload.
LEMMA PayloadFromBytes ==
    ASSUME NEW s \in Seq(Byte), NEW m, \A k \in 1 .. Len(s) : s[k] = <<m, k>>
    PROVE  s = Payload(m, Len(s))
<1>1. s = [k \in 1 .. Len(s) |-> s[k]]
  BY LenProperties
<1>2. QED
  BY <1>1 DEF Payload

LEMMA ReceiveSingle ==
    ASSUME ReliableInv, NEW f \in Frame, NEW q,
           MovesSingle(sent, RxPosition, f, q), RxFrame(f)
    PROVE  /\ ev' = "MESSAGE" /\ rx'.state = "IDLE"
           /\ rx'.buf = Payload(Len(delivered) + 1, sent[Len(delivered) + 1])
           /\ rx'.blockSize = rx.blockSize /\ rx'.bufferLimit = rx.bufferLimit
           /\ Len(delivered) < Len(sent) /\ q = StartOf(Len(delivered) + 2)
<1> USE FrameAssumption
<1> DEFINE m == Len(delivered) + 1
<1>1. /\ m \in 1 .. Len(sent) /\ sent[m] <= CfData
      /\ f.pci = "SF" /\ f.dlc = Dlc /\ f.n = sent[m]
      /\ Carries(f, m, 0, f.n) /\ q = StartOf(m + 1)
  BY RxPositionState DEF MovesSingle
<1>2. f.n \in 1 .. CfData /\ f.n <= rx.bufferLimit
  BY <1>1, RxFacts DEF CfData
<1>3. ValidDlc(f) /\ ~MalformedSingle(f)
  BY <1>1, <1>2 DEF ValidDlc, MalformedSingle, CfData
<1>4. rx' = [rx EXCEPT !.buf = SubSeq(f.data, 1, f.n), !.total = f.n, !.state = "IDLE"]
      /\ ev' = "MESSAGE"
  <2>1. RxSingle(f)
    BY <1>1, <1>3
       DEF RxFrame, RxInvalidDlc, RxFirst, RxConsecutive, RxFlowControl, RxReserved
  <2>2. ~(f.n > rx.bufferLimit)
    BY <1>1, <1>2, RxFacts
  <2>3. QED
    BY <1>3, <2>1, <2>2 DEF RxSingle
<1>5. f.data \in Seq(Byte) /\ Len(f.data) = CfData
  BY <1>1, <1>3 DEF Frame, CfData
<1> DEFINE s == SubSeq(f.data, 1, f.n)
<1>6. s \in Seq(Byte) /\ Len(s) = f.n /\ \A k \in 1 .. f.n : s[k] = f.data[k]
  BY <1>2, <1>5, PrefixOfSeq
<1>7. \A k \in 1 .. f.n : f.data[k] = <<m, k>>
  BY <1>1, <1>2 DEF Carries
<1> HIDE DEF m, s
<1>8. s = Payload(m, f.n)
  BY <1>6, <1>7, PayloadFromBytes
<1>9. /\ rx'.state = "IDLE" /\ rx'.buf = s
      /\ rx'.blockSize = rx.blockSize /\ rx'.bufferLimit = rx.bufferLimit
  BY <1>4, RxFacts DEF s, RxState
<1>10. Len(delivered) < Len(sent) /\ m + 1 = Len(delivered) + 2
  BY <1>1, RxFacts DEF m
<1>11. QED
  BY <1>1, <1>4, <1>8, <1>9, <1>10 DEF m

LEMMA ReceiveFirst ==
    ASSUME ReliableInv, NEW f \in Frame, NEW q,
           MovesFirst(sent, RxPosition, f, q), RxFrame(f)
    PROVE  /\ ev' = "SEND_FC" /\ rx'.state = "WAIT_CF" /\ rx'.fc = CTS
           /\ rx'.total = sent[Len(delivered) + 1] /\ Len(rx'.buf) = FfData
           /\ \A k \in 1 .. FfData : rx'.buf[k] = <<Len(delivered) + 1, k>>
           /\ rx'.nextSn = 1 /\ rx'.cfSinceFc = 0
           /\ rx'.blockSize = rx.blockSize /\ rx'.bufferLimit = rx.bufferLimit
           /\ Len(delivered) < Len(sent)
<1> USE FrameAssumption
<1> DEFINE m == Len(delivered) + 1
<1>1. /\ m \in 1 .. Len(sent) /\ sent[m] > CfData
      /\ f.pci = "FF" /\ f.dlc = Dlc /\ f.n = sent[m]
      /\ Carries(f, m, 0, FfData) /\ q = Position(m, FfData, 1, 0, TRUE)
  BY RxPositionState DEF MovesFirst
<1>2. f.n >= Dlc /\ f.n <= rx.bufferLimit /\ f.n \in Nat
  BY <1>1, RxFacts DEF CfData
<1>3. ValidDlc(f) /\ ~MalformedFirst(f)
  BY <1>1, <1>2 DEF ValidDlc, MalformedFirst
<1>4. /\ rx' = [rx EXCEPT !.buf = SubSeq(f.data, 1, FfData), !.total = f.n,
                          !.nextSn = 1, !.cfSinceFc = 0,
                          !.state = "WAIT_CF", !.fc = CTS]
      /\ ev' = "SEND_FC"
  <2>1. RxFirst(f)
    BY <1>1, <1>3
       DEF RxFrame, RxInvalidDlc, RxSingle, RxConsecutive, RxFlowControl, RxReserved
  <2>2. ~(f.n > rx.bufferLimit)
    BY <1>1, <1>2, RxFacts
  <2>3. QED
    BY <1>3, <2>1, <2>2 DEF RxFirst
<1>5. f.data \in Seq(Byte) /\ Len(f.data) = FfData /\ FfData \in Nat
  BY <1>1, <1>3 DEF Frame, FfData
<1> DEFINE s == SubSeq(f.data, 1, FfData)
<1>6. Len(s) = FfData /\ \A k \in 1 .. FfData : s[k] = f.data[k]
  BY <1>5, PrefixOfSeq
<1>7. \A k \in 1 .. FfData : f.data[k] = <<m, k>>
  BY <1>1, <1>5 DEF Carries
<1> HIDE DEF m, s
<1>8. /\ rx'.state = "WAIT_CF" /\ rx'.buf = s /\ rx'.fc = CTS /\ rx'.total = f.n
      /\ rx'.nextSn = 1 /\ rx'.cfSinceFc = 0
      /\ rx'.blockSize = rx.blockSize /\ rx'.bufferLimit = rx.bufferLimit
  BY <1>4, RxFacts DEF s, RxState
<1>9. Len(delivered) < Len(sent)
  BY <1>1, RxFacts DEF m
<1>10. QED
  BY <1>1, <1>4, <1>6, <1>7, <1>8, <1>9 DEF m

LEMMA ReceiveConsecutive ==
    ASSUME ReliableInv, NEW f \in Frame, NEW q,
           MovesConsecutive(sent, rx.blockSize, RxPosition, f, q), RxFrame(f)
    PROVE  /\ rx'.blockSize = rx.blockSize /\ rx'.bufferLimit = rx.bufferLimit
           /\ Len(delivered) < Len(sent)
           /\ \/ /\ ev' = "MESSAGE" /\ rx'.state = "IDLE"
                 /\ rx'.buf = Payload(Len(delivered) + 1, sent[Len(delivered) + 1])
                 /\ q = StartOf(Len(delivered) + 2)
              \/ /\ ev' \in {"SEND_FC", "NONE"} /\ rx'.state = "WAIT_CF"
                 /\ rx'.total = sent[Len(delivered) + 1]
                 /\ \A k \in 1 .. Len(rx'.buf) : rx'.buf[k] = <<Len(delivered) + 1, k>>
                 /\ \E c : q = Position(Len(delivered) + 1, Len(rx'.buf), rx'.nextSn, c,
                                        ev' = "SEND_FC")
                           /\ rx'.cfSinceFc = IF ev' = "SEND_FC" THEN 0 ELSE c
                 /\ q.off # 0
                 /\ ev' = "SEND_FC" => rx'.fc = CTS
<1> USE FrameAssumption
<1> DEFINE m == Len(delivered) + 1
           have == Len(rx.buf)
           share == Share(sent[m], have)
           r == Accepted(rx, f)
           part == SubSeq(f.data, 1, share)
<1>1. rx.state = "WAIT_CF"
  <2>1. RxPosition.off # 0
    BY DEF MovesConsecutive
  <2>2. QED
    BY <2>1, RxPositionState, RxFacts
<1>2. /\ m \in 1 .. Len(sent) /\ have \in 1 .. sent[m] - 1
      /\ f.pci = "CF" /\ f.dlc = Dlc /\ f.n = rx.nextSn
      /\ Carries(f, m, have, share)
      /\ q = AfterConsecutive(sent[m], rx.blockSize, RxPosition)
      /\ rx.total = sent[m]
      /\ \A k \in 1 .. have : rx.buf[k] = <<m, k>>
  BY <1>1, RxPositionState DEF MovesConsecutive, ReliableInv, DeliveredSoFar
<1>3. ValidDlc(f) /\ InSequence(rx, f)
  BY <1>2 DEF ValidDlc, InSequence
<1>4. f.data \in Seq(Byte) /\ Len(f.data) = CfData /\ CfData \in Nat
  BY <1>2, <1>3 DEF Frame, CfData
<1>5. /\ share = Take(rx, f) /\ share \in 0 .. CfData /\ have + share <= sent[m]
      /\ have \in Nat /\ sent[m] \in Nat /\ share \in Nat
  <2> HIDE DEF m, have
  <2>1. have \in Nat /\ sent[m] \in Nat /\ rx.total - have = sent[m] - have
        /\ f.dlc - 1 = CfData /\ sent[m] - have > 0
    BY <1>2, RxFacts DEF CfData, have
  <2>2. Take(rx, f) = IF sent[m] - have < CfData THEN sent[m] - have ELSE CfData
    BY <2>1 DEF Take, have
  <2>3. share = IF sent[m] - have > CfData THEN CfData ELSE sent[m] - have
    BY DEF Share
  <2> HIDE DEF share
  <2>4. QED
    BY <1>4, <2>1, <2>2, <2>3
<1>6. part \in Seq(Byte) /\ Len(part) = share /\ \A k \in 1 .. share : part[k] = f.data[k]
  BY <1>4, <1>5, PrefixOfSeq
<1>7. /\ rx.buf \o part \in Seq(Byte) /\ Len(rx.buf \o part) = have + share
      /\ \A k \in 1 .. have + share :
           (rx.buf \o part)[k] = IF k <= have THEN rx.buf[k] ELSE part[k - have]
  <2> HIDE DEF have, part, share
  <2>1. rx.buf \in Seq(Byte) /\ have = Len(rx.buf)
    BY RxFacts DEF have
  <2>2. /\ rx.buf \o part \in Seq(Byte)
        /\ Len(rx.buf \o part) = Len(rx.buf) + Len(part)
        /\ \A k \in 1 .. Len(rx.buf) + Len(part) :
             (rx.buf \o part)[k] = IF k <= Len(rx.buf) THEN rx.buf[k]
                                   ELSE part[k - Len(rx.buf)]
    BY <1>6, <2>1, ConcatProperties
  <2>3. QED
    BY <1>6, <2>1, <2>2
<1>8. \A k \in 1 .. have + share : (rx.buf \o part)[k] = <<m, k>>
  <2>1. TAKE k \in 1 .. have + share
  <2>2. CASE k <= have
    BY <1>2, <1>7, <2>2
  <2>3. CASE k > have
    <3>1. k - have \in 1 .. share /\ have + (k - have) = k
      BY <1>5, <2>3
    <3>2. part[k - have] = <<m, have + (k - have)>>
      BY <1>2, <1>6, <3>1 DEF Carries
    <3>3. QED
      BY <1>5, <1>7, <2>3, <3>1, <3>2
  <2>4. QED
    BY <1>5, <2>2, <2>3
<1>9. /\ r.buf = rx.buf \o part /\ r.total = sent[m] /\ r.state = "WAIT_CF"
      /\ r.nextSn = (rx.nextSn + 1) % SnMod /\ r.cfSinceFc = rx.cfSinceFc + 1
      /\ r.blockSize = rx.blockSize /\ r.bufferLimit = rx.bufferLimit
  BY <1>1, <1>2, <1>5, RxFacts DEF Accepted, RxState
<1>10. {"fc", "state", "cfSinceFc"} \subseteq DOMAIN r
  BY RxFacts DEF Accepted, RxState
<1>11. \/ Complete(r) /\ rx' = [r EXCEPT !.state = "IDLE"] /\ ev' = "MESSAGE"
       \/ /\ ~Complete(r) /\ BlockDone(r)
          /\ rx' = [r EXCEPT !.cfSinceFc = 0, !.fc = CTS] /\ ev' = "SEND_FC"
       \/ ~Complete(r) /\ ~BlockDone(r) /\ rx' = r /\ ev' = "NONE"
  BY <1>1, <1>2, <1>3
     DEF RxFrame, RxInvalidDlc, RxSingle, RxFirst, RxConsecutive, RxFlowControl, RxReserved
<1> HIDE DEF m, have, share, r, part
<1>12. Complete(r) <=> have + share >= sent[m]
  BY <1>7, <1>9 DEF Complete
<1>13. RxPosition.m = m /\ RxPosition.off = have /\ RxPosition.sn = rx.nextSn
       /\ RxPosition.c = rx.cfSinceFc
  BY <1>1, RxPositionState DEF m, have
<1>14. Len(delivered) < Len(sent) /\ m + 1 = Len(delivered) + 2
  BY <1>2, RxFacts DEF m
<1>15. CASE Complete(r) /\ rx' = [r EXCEPT !.state = "IDLE"] /\ ev' = "MESSAGE"
  <2>1. rx'.state = "IDLE" /\ rx'.buf = rx.buf \o part
        /\ rx'.blockSize = rx.blockSize /\ rx'.bufferLimit = rx.bufferLimit
    BY <1>9, <1>10, <1>15
  <2>2. have + share = sent[m]
    BY <1>5, <1>12, <1>15
  <2>3. rx'.buf = Payload(m, sent[m])
    BY <1>7, <1>8, <2>1, <2>2, PayloadFromBytes
  <2>4. q = StartOf(m + 1)
    BY <1>2, <1>12, <1>13, <1>15 DEF AfterConsecutive, share
  <2>5. QED
    BY <1>14, <1>15, <2>1, <2>3, <2>4 DEF m
<1>16. CASE ~Complete(r) /\ ev' \in {"SEND_FC", "NONE"}
  <2> DEFINE c == rx.cfSinceFc + 1
  <2>1. /\ rx'.state = "WAIT_CF" /\ rx'.buf = rx.buf \o part /\ rx'.total = sent[m]
        /\ rx'.nextSn = (rx.nextSn + 1) % SnMod
        /\ rx'.cfSinceFc = IF ev' = "SEND_FC" THEN 0 ELSE c
        /\ rx'.blockSize = rx.blockSize /\ rx'.bufferLimit = rx.bufferLimit
        /\ ev' = "SEND_FC" => rx'.fc = CTS
    <3>1. CASE rx' = [r EXCEPT !.cfSinceFc = 0, !.fc = CTS] /\ ev' = "SEND_FC"
      BY <1>9, <1>10, <3>1
    <3>2. CASE rx' = r /\ ev' = "NONE"
      BY <1>9, <3>2
    <3>3. QED
      BY <1>11, <1>16, <3>1, <3>2
  <2>2. (ev' = "SEND_FC") = (rx.blockSize # 0 /\ c >= rx.blockSize)
    BY <1>9, <1>11, <1>16 DEF BlockDone
  <2>3. q = Position(m, have + share, (rx.nextSn + 1) % SnMod, c,
                     rx.blockSize # 0 /\ c >= rx.blockSize)
    BY <1>2, <1>12, <1>13, <1>16 DEF AfterConsecutive, share
  <2>4. Len(rx'.buf) = have + share
    BY <1>7, <2>1
  <2>5. q = Position(m, Len(rx'.buf), rx'.nextSn, c, ev' = "SEND_FC")
    BY <2>1, <2>2, <2>3, <2>4
  <2>6. q.off # 0
    BY <1>2, <1>5, <2>3 DEF Position
  <2> HIDE DEF c
  <2>7. \A k \in 1 .. Len(rx'.buf) : rx'.buf[k] = <<m, k>>
    BY <1>8, <2>1, <2>4
  <2>8. QED
    BY <1>14, <1>16, <2>1, <2>5, <2>6, <2>7 DEF m
<1>17. QED
  BY <1>11, <1>15, <1>16

\* What a step of the receiver leaves alone, and what its caller makes of it.
LEMMA ReceiveFrame ==
    ASSUME ReliableInv, Receive
    PROVE  /\ toRx # <<>> /\ toRx \in Seq(Frame) /\ toRx' = Tail(toRx)
           /\ Len(toRx) \in Nat /\ Len(toRx) > 0
           /\ Head(toRx) = toRx[1] /\ toRx[1] \in Frame /\ RxFrame(toRx[1])
           /\ toTx = <<>> /\ UNCHANGED <<tx, sent>>
           /\ ev' = "SEND_FC" => /\ toTx' = Append(toTx, FcFrame(rx'.fc, rx'.blockSize))
                                 /\ delivered' = delivered
           /\ ev' = "MESSAGE" => /\ delivered' = Append(delivered, rx'.buf)
                                 /\ toTx' = toTx
           /\ ev' = "NONE" => delivered' = delivered /\ toTx' = toTx
<1>1. toRx # <<>> /\ toRx' = Tail(toRx) /\ RxFrame(Head(toRx)) /\ Serve /\ UNCHANGED <<tx, sent>>
  BY DEF Receive
<1>2. toRx \in Seq(Frame)
  BY DEF ReliableInv, LinkInv, LinkTypeOK
<1>3. Head(toRx) = toRx[1] /\ Len(toRx) \in Nat /\ Len(toRx) > 0
  BY <1>1, <1>2, LenProperties, EmptySeq, HeadTailProperties
<1>4. toRx[1] \in Frame
  BY <1>2, <1>3, ElementOfSeq
<1>5. toTx = <<>>
  BY <1>1 DEF ReliableInv, ReliableState, Answered
<1>6. QED
  BY <1>1, <1>2, <1>3, <1>4, <1>5 DEF Serve

\* A step after which the receiver stands at the chain's second position.
LEMMA ReceiveShrinks ==
    ASSUME ReliableInv, LinkInv', Receive, NEW pos, Chain(pos),
           ev' \in {"MESSAGE", "NONE"},
           rx'.blockSize = rx.blockSize, rx'.bufferLimit = rx.bufferLimit,
           RxPosition' = pos[2], DeliveredSoFar'
    PROVE  ReliableInv'
<1>1. toTx = <<>> /\ toTx' = <<>> /\ UNCHANGED <<tx, sent>> /\ toRx # <<>> /\ toRx' = Tail(toRx)
  BY ReceiveFrame
<1>2. TxPosition' = TxPosition
  BY <1>1 DEF TxPosition, TxStopped, BlockSent
<1>3. \E pos2 : Chain(pos2)'
  BY <1>1, <1>2, ChainShrinks DEF ReliableInv
<1>4. ReliableState'
  BY <1>1 DEF ReliableInv, ReliableState
<1>5. QED
  BY <1>3, <1>4 DEF ReliableInv

\* A step that completes a message.
LEMMA ReceiveMessage ==
    ASSUME ReliableInv, LinkInv', Receive, NEW pos, Chain(pos),
           ev' = "MESSAGE", rx'.state = "IDLE",
           rx'.buf = Payload(Len(delivered) + 1, sent[Len(delivered) + 1]),
           rx'.blockSize = rx.blockSize, rx'.bufferLimit = rx.bufferLimit,
           Len(delivered) < Len(sent), pos[2] = StartOf(Len(delivered) + 2)
    PROVE  ReliableInv'
<1>1. delivered' = Append(delivered, rx'.buf) /\ sent' = sent
  BY ReceiveFrame
<1>2. /\ delivered \in Seq(Seq(Byte)) /\ Len(delivered) \in Nat /\ Len(sent) \in Nat
  BY RxFacts
<1>3. rx'.buf \in Seq(Byte)
  BY DEF LinkInv, LinkTypeOK, RxTypeOK, RxState
<1>4. /\ Len(delivered') = Len(delivered) + 1
      /\ \A i \in 1 .. Len(delivered) : delivered'[i] = delivered[i]
      /\ delivered'[Len(delivered) + 1] = rx'.buf
  BY <1>1, <1>2, <1>3, AppendProperties
<1>5. ASSUME NEW i \in 1 .. Len(delivered')
      PROVE  delivered'[i] = Payload(i, sent[i])
  <2>1. CASE i = Len(delivered) + 1
    BY <1>4, <2>1
  <2>2. CASE i # Len(delivered) + 1
    <3>1. i \in 1 .. Len(delivered)
      BY <1>2, <1>4, <2>2
    <3>2. QED
      BY <1>4, <3>1 DEF ReliableInv, DeliveredSoFar
  <2>3. QED
    BY <2>1, <2>2
<1>6. DeliveredSoFar'
  BY <1>1, <1>2, <1>4, <1>5 DEF DeliveredSoFar
<1>7. RxPosition' = pos[2]
  <2>1. RxPosition' = StartOf(Len(delivered') + 1)
    BY DEF RxPosition
  <2>2. Len(delivered') + 1 = Len(delivered) + 2
    BY <1>2, <1>4
  <2>3. QED
    BY <2>1, <2>2
<1>8. QED
  BY <1>6, <1>7, ReceiveShrinks

\* When the first frame leads to where flow control is due, none follows it.
LEMMA DueIsLast ==
    ASSUME ReliableInv, Receive, NEW pos, Chain(pos), pos[2].due, pos[2].off # 0
    PROVE  Len(toRx) = 1
<1>1. SUFFICES ASSUME Len(toRx) # 1 PROVE FALSE
  OBVIOUS
<1>2. Len(toRx) \in Nat /\ Len(toRx) > 0
  BY ReceiveFrame
<1>3. 2 \in 1 .. Len(toRx)
  BY <1>1, <1>2
<1>4. Moves(sent, rx.blockSize, pos[2], toRx[2], pos[2 + 1])
  BY <1>3 DEF Chain
<1>5. QED
  BY <1>4, NoMoveWhenDue

\* A step that leaves the receiver in a message, with or without an answer.
LEMMA ReceivePart ==
    ASSUME ReliableInv, LinkInv', Receive, NEW pos, Chain(pos), NEW c,
           ev' \in {"SEND_FC", "NONE"}, rx'.state = "WAIT_CF",
           rx'.total = sent[Len(delivered) + 1],
           \A k \in 1 .. Len(rx'.buf) : rx'.buf[k] = <<Len(delivered) + 1, k>>,
           rx'.blockSize = rx.blockSize, rx'.bufferLimit = rx.bufferLimit,
           Len(delivered) < Len(sent),
           pos[2] = Position(Len(delivered) + 1, Len(rx'.buf), rx'.nextSn, c,
                             ev' = "SEND_FC"),
           rx'.cfSinceFc = IF ev' = "SEND_FC" THEN 0 ELSE c,
           pos[2].off # 0, ev' = "SEND_FC" => rx'.fc = CTS
    PROVE  ReliableInv'
<1>1. delivered' = delivered /\ UNCHANGED <<tx, sent>> /\ toTx = <<>>
  BY ReceiveFrame
<1>2. DeliveredSoFar'
  BY <1>1 DEF ReliableInv, DeliveredSoFar
<1>3. RxPosition' = Position(Len(delivered) + 1, Len(rx'.buf), rx'.nextSn,
                             rx'.cfSinceFc, FALSE)
  BY <1>1 DEF RxPosition
<1>4. CASE ev' = "NONE"
  <2>1. RxPosition' = pos[2]
    BY <1>3, <1>4
  <2>2. QED
    BY <1>2, <1>4, <2>1, ReceiveShrinks
<1>5. CASE ev' = "SEND_FC"
  <2>1. pos[2].due
    <3>1. pos[2].due = (ev' = "SEND_FC")
      BY DEF Position
    <3>2. QED
      BY <1>5, <3>1, Zenon
  <2>2. Len(toRx) = 1
    BY <2>1, DueIsLast
  <2>3. pos[2] = TxPosition
    BY <2>2 DEF Chain
  <2>4. TxStopped /\ pos[2] = Position(tx.msg, tx.sent, tx.nextSn, tx.cfInBlock, TxStopped)
    BY <1>1, <2>1, <2>3 DEF TxPosition, StartOf, Position
  <2>5. /\ tx.msg = Len(delivered) + 1 /\ tx.sent = Len(rx'.buf)
        /\ tx.nextSn = rx'.nextSn
    BY <2>4 DEF Position
  <2>6. toTx' = <<FcFrame(CTS, rx'.blockSize)>>
    BY <1>1, <1>5, ReceiveFrame
  <2>7. toRx' = <<>>
    <3>1. toRx \in Seq(Frame) /\ toRx # <<>> /\ toRx' = Tail(toRx)
      BY ReceiveFrame
    <3>2. Tail(toRx) \in Seq(Frame) /\ Len(Tail(toRx)) = 0
      BY <2>2, <3>1, HeadTailProperties
    <3>3. QED
      BY <3>1, <3>2, EmptySeq
  <2>8. TxStopped' /\ Answered'
    BY <1>1, <1>5, <2>4, <2>6, <2>7 DEF TxStopped, BlockSent, Answered
  <2>9. ReliableState'
    BY <1>1, <1>5, <2>8 DEF ReliableInv, ReliableState
  <2>10. TxPosition' = Position(tx.msg, tx.sent, tx.nextSn, 0, FALSE)
    <3>1. tx.state \in {"WAIT_FC", "SENDING"}
      BY <2>4 DEF TxStopped
    <3>2. toTx' # <<>>
      BY <2>6
    <3>3. QED
      BY <1>1, <3>1, <3>2 DEF TxPosition
  <2>11. RxPosition' = TxPosition'
    BY <1>3, <1>5, <2>5, <2>10
  <2>12. PICK pos2 : pos2 = <<RxPosition'>>
    OBVIOUS
  <2>13. Len(toRx') = 0
    BY <2>7, EmptySeq
  <2>14. Chain(pos2)'
    BY <2>11, <2>12, <2>13 DEF Chain
  <2>15. QED
    BY <1>2, <2>9, <2>14 DEF ReliableInv
<1>6. QED
  BY <1>4, <1>5

LEMMA ReliableReceive ==
    ASSUME ReliableBus, ReliableInv, Receive
    PROVE  ReliableInv'
<1> USE FrameAssumption
<1>1. LinkInv'
  BY ReceiveStep DEF ReliableInv
<1>2. PICK pos : Chain(pos)
  BY DEF ReliableInv
<1> DEFINE f == toRx[1]
<1>3. f \in Frame /\ RxFrame(f) /\ 1 \in 1 .. Len(toRx)
  BY ReceiveFrame
<1>4. Moves(sent, rx.blockSize, RxPosition, f, pos[2])
  BY <1>2, <1>3 DEF Chain
<1> HIDE DEF f
<1>5. CASE MovesSingle(sent, RxPosition, f, pos[2])
  BY <1>1, <1>2, <1>3, <1>5, ReceiveSingle, ReceiveMessage
<1>6. CASE MovesFirst(sent, RxPosition, f, pos[2])
  <2>1. /\ ev' = "SEND_FC" /\ rx'.state = "WAIT_CF" /\ rx'.fc = CTS
        /\ rx'.total = sent[Len(delivered) + 1] /\ Len(rx'.buf) = FfData
        /\ \A k \in 1 .. FfData : rx'.buf[k] = <<Len(delivered) + 1, k>>
        /\ rx'.nextSn = 1 /\ rx'.cfSinceFc = 0
        /\ rx'.blockSize = rx.blockSize /\ rx'.bufferLimit = rx.bufferLimit
        /\ Len(delivered) < Len(sent)
    BY <1>3, <1>6, ReceiveFirst
  <2>2. /\ pos[2] = Position(Len(delivered) + 1, FfData, 1, 0, TRUE)
        /\ pos[2].off # 0
    <3>1. pos[2] = Position(RxPosition.m, FfData, 1, 0, TRUE)
      BY <1>6, Zenon DEF MovesFirst
    <3>2. RxPosition.m = Len(delivered) + 1
      BY RxPositionState
    <3>3. pos[2] = Position(Len(delivered) + 1, FfData, 1, 0, TRUE)
      BY <3>1, <3>2, Zenon
    <3>4. Position(Len(delivered) + 1, FfData, 1, 0, TRUE).off = FfData
      BY DEF Position
    <3>5. FfData # 0
      BY DEF FfData
    <3>6. QED
      BY <3>3, <3>4, <3>5, Zenon
  <2>3. pos[2] = Position(Len(delivered) + 1, Len(rx'.buf), rx'.nextSn, 0, ev' = "SEND_FC")
    BY <2>1, <2>2
  <2>4. QED
    BY <1>1, <1>2, <2>1, <2>2, <2>3, ReceivePart DEF Position
<1>7. CASE MovesConsecutive(sent, rx.blockSize, RxPosition, f, pos[2])
  <2>1. /\ rx'.blockSize = rx.blockSize /\ rx'.bufferLimit = rx.bufferLimit
        /\ Len(delivered) < Len(sent)
    BY <1>3, <1>7, ReceiveConsecutive
  <2>2. CASE /\ ev' = "MESSAGE" /\ rx'.state = "IDLE"
             /\ rx'.buf = Payload(Len(delivered) + 1, sent[Len(delivered) + 1])
             /\ pos[2] = StartOf(Len(delivered) + 2)
    BY <1>1, <1>2, <2>1, <2>2, ReceiveMessage
  <2>3. CASE /\ ev' \in {"SEND_FC", "NONE"} /\ rx'.state = "WAIT_CF"
             /\ rx'.total = sent[Len(delivered) + 1]
             /\ \A k \in 1 .. Len(rx'.buf) : rx'.buf[k] = <<Len(delivered) + 1, k>>
             /\ \E c : pos[2] = Position(Len(delivered) + 1, Len(rx'.buf), rx'.nextSn, c,
                                         ev' = "SEND_FC")
                       /\ rx'.cfSinceFc = IF ev' = "SEND_FC" THEN 0 ELSE c
             /\ pos[2].off # 0
             /\ ev' = "SEND_FC" => rx'.fc = CTS
    BY <1>1, <1>2, <2>1, <2>3, ReceivePart
  <2>4. QED
    BY <1>3, <1>7, <2>2, <2>3, ReceiveConsecutive
<1>8. QED
  BY <1>4, <1>5, <1>6, <1>7 DEF Moves

-----------------------------------------------------------------------------
(* The invariant, and what it means. *)

LEMMA ReliableStep ==
    ASSUME ReliableBus, ReliableInv, [Next]_vars
    PROVE  ReliableInv'
<1>1. ASSUME NEW len \in Lengths, Begin(len)
      PROVE  ReliableInv'
  BY <1>1, ReliableBegin
<1>2. CASE Protocol
  BY <1>2, ReliableSend, ReliableFlowControl, ReliableReceive DEF Protocol
<1>3. CASE Lose
  BY <1>3 DEF Lose, ReliableBus, ReliableInv, LinkInv, LinkTypeOK
<1>4. ASSUME NEW f \in Foreign, Intrude(f)
      PROVE  ReliableInv'
  BY <1>4 DEF Intrude, ReliableBus, ReliableInv, LinkInv, LinkTypeOK
<1>5. CASE UNCHANGED vars
  <2>1. UNCHANGED <<rx, ev, tx, toRx, toTx, sent, delivered>>
    BY <1>5 DEF vars
  <2>2. LinkInv'
    BY <1>5, LinkInvStep DEF ReliableInv
  <2>3. ReliableState'
    BY <2>1 DEF ReliableInv, ReliableState, Answered, TxStopped, BlockSent
  <2>4. DeliveredSoFar'
    BY <2>1 DEF ReliableInv, DeliveredSoFar
  <2>5. RxPosition' = RxPosition /\ TxPosition' = TxPosition
    BY <2>1 DEF RxPosition, TxPosition, TxStopped, BlockSent
  <2>6. PICK pos : Chain(pos)
    BY DEF ReliableInv
  <2>7. Chain(pos)'
    BY <2>1, <2>5, <2>6 DEF Chain
  <2>8. QED
    BY <2>2, <2>3, <2>4, <2>7 DEF ReliableInv
<1>6. QED
  BY <1>1, <1>2, <1>3, <1>4, <1>5 DEF Next

LEMMA ReliableInvariant == ReliableBus => (Spec => []ReliableInv)
<1> SUFFICES ASSUME ReliableBus PROVE Spec => []ReliableInv
  OBVIOUS
<1>1. Init => ReliableInv
  BY ReliableInit
<1>2. ReliableInv /\ [Next]_vars => ReliableInv'
  BY ReliableStep
<1>3. QED
  BY <1>1, <1>2, PTL DEF Spec

\* No bus, no buffer and no block size lets the two sides wait for each other:
\* where the sender awaits flow control with nothing under way the receiver
\* would stand at a position where flow control is due, and it never does.
LEMMA ReliableNoMutualWait ==
    ASSUME ReliableInv
    PROVE  NoMutualWait
<1>1. SUFFICES ASSUME tx.state = "WAIT_FC", toRx = <<>>, toTx = <<>>
               PROVE  FALSE
  BY DEF NoMutualWait
<1>2. PICK pos : Chain(pos)
  BY DEF ReliableInv
<1>3. RxPosition = TxPosition
  BY <1>1, <1>2, EmptySeq DEF Chain
<1>4. TxPosition = Position(tx.msg, tx.sent, tx.nextSn, tx.cfInBlock, TxStopped)
  BY <1>1 DEF TxPosition
<1>5. TxStopped
  BY <1>1 DEF TxStopped
<1>6. ~RxPosition.due
  BY RxPositionState
<1>7. Position(tx.msg, tx.sent, tx.nextSn, tx.cfInBlock, TxStopped).due = TxStopped
  BY DEF Position
<1>8. QED
  BY <1>3, <1>4, <1>5, <1>6, <1>7, Zenon

\* Every step of the link is a step of the service or leaves it alone.
LEMMA ServiceStep ==
    ASSUME ReliableBus, ReliableInv, ReliableInv', [Next]_vars
    PROVE  [Service!Next]_Service!serviceVars
<1>1. ASSUME NEW len \in Lengths, Begin(len)
      PROVE  Service!Submit(len)
  BY <1>1 DEF Begin, Service!Submit
<1>2. CASE Send \/ FlowControl \/ Lose \/ \E f \in Foreign : Intrude(f)
  BY <1>2 DEF Send, Transmit, FlowControl, Lose, Intrude, Service!serviceVars
<1>3. CASE Receive
  <2>1. ev' \in {"NONE", "SEND_FC", "MESSAGE"}
    BY DEF ReliableInv, ReliableState
  <2>2. CASE ev' # "MESSAGE"
    BY <1>3, <2>1, <2>2, ReceiveFrame DEF Service!serviceVars
  <2>3. CASE ev' = "MESSAGE"
    <3>1. delivered' = Append(delivered, rx'.buf) /\ sent' = sent
      BY <1>3, <2>3, ReceiveFrame
    <3>2. delivered \in Seq(Seq(Byte)) /\ Len(delivered) \in Nat /\ Len(sent) \in Nat
      BY RxFacts
    <3>3. rx'.buf \in Seq(Byte)
      BY DEF ReliableInv, LinkInv, LinkTypeOK, RxTypeOK, RxState
    <3>4. Len(delivered') = Len(delivered) + 1 /\ delivered'[Len(delivered) + 1] = rx'.buf
      BY <3>1, <3>2, <3>3, AppendProperties
    <3>5. Len(delivered') <= Len(sent')
      BY DEF ReliableInv, DeliveredSoFar
    <3>6. \A i \in 1 .. Len(delivered') : delivered'[i] = Payload(i, sent'[i])
      BY DEF ReliableInv, DeliveredSoFar, Payload
    <3>7. rx'.buf = Payload(Len(delivered) + 1, sent[Len(delivered) + 1])
      BY <3>1, <3>2, <3>4, <3>6
    <3>8. Service!Message(Len(delivered) + 1)
            = Payload(Len(delivered) + 1, sent[Len(delivered) + 1])
      BY DEF Service!Message, Payload
    <3>9. Service!Deliver
      BY <3>1, <3>2, <3>4, <3>5, <3>7, <3>8 DEF Service!Deliver
    <3>10. QED
      BY <3>9 DEF Service!Next
  <2>4. QED
    BY <2>2, <2>3
<1>4. CASE UNCHANGED vars
  BY <1>4 DEF vars, Service!serviceVars
<1>5. QED
  BY <1>1, <1>2, <1>3, <1>4 DEF Next, Protocol, Service!Next

\* On a reliable bus, with a receiver that accepts what the sender sends, the
\* two sides never wait for each other: they agree on when flow control is due
\* for every block size, message length, frame size and sequence-number width.
THEOREM NeverMutualWait == ReliableBus => (Spec => []NoMutualWait)
<1> SUFFICES ASSUME ReliableBus PROVE Spec => []NoMutualWait
  OBVIOUS
<1>1. Spec => []ReliableInv
  BY ReliableInvariant
<1>2. ReliableInv => NoMutualWait
  BY ReliableNoMutualWait
<1>3. QED
  BY <1>1, <1>2, PTL

\* On a reliable bus isotp_rx_frame reports no error: what the sender's half
\* produces is what the receiver's half expects.
THEOREM NeverReportsError == ReliableBus => (Spec => []NoErrorReported)
<1> SUFFICES ASSUME ReliableBus PROVE Spec => []NoErrorReported
  OBVIOUS
<1>1. Spec => []ReliableInv
  BY ReliableInvariant
<1>2. ReliableInv => NoErrorReported
  BY DEF ReliableInv, ReliableState, NoErrorReported
<1>3. QED
  BY <1>1, <1>2, PTL

\* On a reliable bus every step of the link is a step of the service: messages
\* come out whole, once, and in the order they went in (the safety part of
\* ReliableService; that they do come out is model-checked).
THEOREM ImplementsService ==
    ReliableBus => (Spec => Service!Init /\ [][Service!Next]_Service!serviceVars)
<1> SUFFICES ASSUME ReliableBus
             PROVE  Spec => Service!Init /\ [][Service!Next]_Service!serviceVars
  OBVIOUS
<1>1. Spec => []ReliableInv
  BY ReliableInvariant
<1>2. Init => Service!Init
  BY DEF Init, Service!Init
<1>3. ReliableInv /\ ReliableInv' /\ [Next]_vars => [Service!Next]_Service!serviceVars
  BY ServiceStep
<1>4. QED
  BY <1>1, <1>2, <1>3, PTL DEF Spec

=============================================================================
