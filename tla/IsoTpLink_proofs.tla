-------------------------- MODULE IsoTpLink_proofs --------------------------
(* Proofs about IsoTpLink, for every width of the protocol, every policy of  *)
(* the receiver and every choice of messages, losses and foreign frames.     *)
EXTENDS IsoTpLink, SequenceTheorems, TLAPS

-----------------------------------------------------------------------------
(* The receiver, whatever frame it is fed. *)

\* SubSeq from the first element on.
LEMMA PrefixOfSeq ==
    ASSUME NEW S, NEW s \in Seq(S), NEW n \in 0 .. Len(s)
    PROVE  /\ SubSeq(s, 1, n) \in Seq(S)
           /\ Len(SubSeq(s, 1, n)) = n
           /\ \A i \in 1 .. n : SubSeq(s, 1, n)[i] = s[i]
<1>1. CASE n = 0
  <2>1. SubSeq(s, 1, n) = <<>>
    BY <1>1, SubSeqEmpty
  <2>2. QED
    BY <1>1, <2>1, EmptySeq
<1>2. CASE n # 0
  BY <1>2, SubSeqProperties, LenProperties
<1>3. QED
  BY <1>1, <1>2

\* A rejected frame leaves a receiver with nothing in its buffer.
LEMMA AbortedType ==
    ASSUME rx \in RxState
    PROVE  Aborted(rx) \in RxState
<1>1. <<>> \in Seq(Byte)
  BY EmptySeq
<1>2. 0 \in 0 .. MaxPayload /\ 0 \in 0 .. SnMod - 1 /\ 0 \in Nat
  BY FrameAssumption
<1>3. QED
  BY <1>1, <1>2, Zenon DEF Aborted, RxState

\* Every frame keeps the receiver's type and its bounds.
LEMMA RxFrameStep ==
    ASSUME RxTypeOK, RxWithinBuffer, NEW f \in Frame, RxFrame(f)
    PROVE  RxTypeOK' /\ RxWithinBuffer'
<1> USE FrameAssumption DEF RxTypeOK
<1>1. ASSUME NEW e \in Event, Reject(e)
      PROVE  RxTypeOK' /\ RxWithinBuffer'
  <2>1. rx' = Aborted(rx) /\ ev' = e
    BY <1>1 DEF Reject
  <2>2. rx'.state = "IDLE" /\ Len(rx'.buf) = 0 /\ rx'.total = 0
        /\ rx'.bufferLimit = rx.bufferLimit
    BY <2>1, EmptySeq DEF Aborted, RxState
  <2>3. QED
    BY <2>1, <2>2, AbortedType DEF RxWithinBuffer, RxState
<1>2. ASSUME NEW e \in Event, Ignore(e)
      PROVE  RxTypeOK' /\ RxWithinBuffer'
  BY <1>2 DEF Ignore, RxWithinBuffer
<1>3. CASE RxInvalidDlc(f)
  BY <1>2, <1>3 DEF RxInvalidDlc, Event
<1>4. CASE RxSingle(f)
  <2>1. CASE MalformedSingle(f) /\ Reject("ERR_LENGTH")
    BY <1>1, <2>1 DEF Event
  <2>2. CASE Reject("ERR_OVERFLOW")
    BY <1>1, <2>2 DEF Event
  <2>3. CASE /\ ~MalformedSingle(f) /\ f.n <= rx.bufferLimit
             /\ rx' = [rx EXCEPT !.buf = SubSeq(f.data, 1, f.n),
                                 !.total = f.n,
                                 !.state = "IDLE"]
             /\ ev' = "MESSAGE"
    <3>1. f.n \in 1 .. Len(f.data) /\ f.data \in Seq(Byte)
      BY <1>4, <2>3 DEF RxSingle, MalformedSingle, ValidDlc, Frame
    <3>2. /\ SubSeq(f.data, 1, f.n) \in Seq(Byte)
          /\ Len(SubSeq(f.data, 1, f.n)) = f.n
      BY <3>1, LenProperties, PrefixOfSeq
    <3>3. f.n \in 0 .. MaxPayload
      BY <2>3, <3>1, LenProperties DEF RxState
    <3>4. rx' \in RxState
      BY <2>3, <3>2, <3>3, Zenon DEF RxState
    <3>5. /\ rx'.state = "IDLE" /\ rx'.total = f.n
          /\ rx'.buf = SubSeq(f.data, 1, f.n)
          /\ rx'.bufferLimit = rx.bufferLimit
      BY <2>3 DEF RxState
    <3>6. QED
      BY <2>3, <3>2, <3>3, <3>4, <3>5 DEF Event, RxWithinBuffer
  <2>4. QED
    BY <1>4, <2>1, <2>2, <2>3 DEF RxSingle
<1>5. CASE RxFirst(f)
  <2>1. CASE MalformedFirst(f) /\ Reject("ERR_LENGTH")
    BY <1>1, <2>1 DEF Event
  <2>2. CASE rx' = [Aborted(rx) EXCEPT !.fc = OVFLW] /\ ev' = "ERR_OVERFLOW"
    <3>1. rx'.state = "IDLE" /\ Len(rx'.buf) = 0 /\ rx'.total = 0
          /\ rx'.bufferLimit = rx.bufferLimit
      BY <2>2, EmptySeq DEF Aborted, RxState
    <3>2. rx' \in RxState
      BY <2>2, AbortedType DEF RxState
    <3>3. QED
      BY <2>2, <3>1, <3>2 DEF RxWithinBuffer, RxState, Event
  <2>3. CASE /\ ~MalformedFirst(f) /\ f.n <= rx.bufferLimit
             /\ rx' = [rx EXCEPT !.buf = SubSeq(f.data, 1, FfData),
                                 !.total = f.n,
                                 !.nextSn = 1,
                                 !.cfSinceFc = 0,
                                 !.state = "WAIT_CF",
                                 !.fc = CTS]
             /\ ev' = "SEND_FC"
    <3>1. f.data \in Seq(Byte) /\ Len(f.data) = FfData /\ f.n \in Dlc .. MaxPayload
      BY <1>5, <2>3 DEF RxFirst, MalformedFirst, ValidDlc, Frame
    <3>2. /\ SubSeq(f.data, 1, FfData) \in Seq(Byte)
          /\ Len(SubSeq(f.data, 1, FfData)) = FfData
      BY <3>1, PrefixOfSeq DEF FfData
    <3>3. f.n \in 0 .. MaxPayload /\ 1 \in 0 .. SnMod - 1 /\ 0 \in Nat
      BY <3>1
    <3>4. rx' \in RxState
      BY <2>3, <3>2, <3>3, Zenon DEF RxState
    <3>5. /\ rx'.state = "WAIT_CF" /\ rx'.total = f.n
          /\ rx'.buf = SubSeq(f.data, 1, FfData)
          /\ rx'.bufferLimit = rx.bufferLimit
          /\ rx'.blockSize = rx.blockSize /\ rx'.cfSinceFc = 0
      BY <2>3 DEF RxState
    <3>6. rx.blockSize \in Nat
      BY DEF RxState
    <3>7. QED
      BY <2>3, <3>1, <3>2, <3>4, <3>5, <3>6 DEF Event, RxWithinBuffer, FfData
  <2>4. QED
    BY <1>5, <2>1, <2>2, <2>3 DEF RxFirst
<1>6. CASE RxConsecutive(f)
  <2>1. CASE Ignore("ERR_UNEXPECTED")
    BY <1>2, <2>1 DEF Event
  <2>2. CASE Reject("ERR_SEQUENCE")
    BY <1>1, <2>2 DEF Event
  <2> DEFINE r == Accepted(rx, f)
  <2>3. ASSUME rx.state = "WAIT_CF"
        PROVE  /\ r \in RxState
               /\ Len(r.buf) \in FfData .. r.total
               /\ r.state = "WAIT_CF" /\ r.total <= r.bufferLimit
               /\ r.total \in Nat /\ r.blockSize \in Nat /\ r.cfSinceFc \in Nat
    <3>1. /\ Len(rx.buf) \in FfData .. rx.total - 1
          /\ rx.buf \in Seq(Byte) /\ rx.total \in 0 .. MaxPayload
          /\ rx.total <= rx.bufferLimit
      BY <2>3 DEF RxWithinBuffer, RxState
    <3>2. f.data \in Seq(Byte) /\ Len(f.data) = f.dlc - 1 /\ f.dlc \in 1 .. Dlc
      BY <1>6 DEF RxConsecutive, ValidDlc, Frame
    <3>3. Take(rx, f) \in 0 .. Len(f.data) /\ Take(rx, f) <= rx.total - Len(rx.buf)
      BY <3>1, <3>2, LenProperties DEF Take
    <3> DEFINE part == SubSeq(f.data, 1, Take(rx, f))
    <3>4. part \in Seq(Byte) /\ Len(part) = Take(rx, f)
      BY <3>2, <3>3, PrefixOfSeq
    <3>5. rx.buf \o part \in Seq(Byte)
          /\ Len(rx.buf \o part) = Len(rx.buf) + Take(rx, f)
      BY <3>1, <3>4, ConcatProperties
    <3>6. (rx.nextSn + 1) % SnMod \in 0 .. SnMod - 1
      BY DEF RxState
    <3>7. r.buf = rx.buf \o part /\ r.total = rx.total /\ r.state = rx.state
          /\ r.bufferLimit = rx.bufferLimit
      BY DEF Accepted, RxState
    <3>8. rx.cfSinceFc + 1 \in Nat
      BY DEF RxState
    <3>9. r \in RxState
      BY <3>5, <3>6, <3>8, Zenon DEF Accepted, RxState
    <3>10. r.blockSize \in Nat /\ r.cfSinceFc \in Nat
      BY <3>9, Zenon DEF RxState
    <3> HIDE DEF r
    <3>11. QED
      BY <2>3, <3>1, <3>3, <3>4, <3>5, <3>7, <3>9, <3>10, LenProperties DEF FfData
  <2> HIDE DEF r
  <2>4. CASE /\ rx.state = "WAIT_CF"
             /\ Complete(r) /\ rx' = [r EXCEPT !.state = "IDLE"]
             /\ ev' = "MESSAGE"
    <3>1. Len(r.buf) = r.total
      BY <2>3, <2>4 DEF Complete, RxState, FfData
    <3>2. rx' \in RxState
      BY <2>3, <2>4, Zenon DEF RxState
    <3>3. /\ rx'.state = "IDLE" /\ rx'.total = r.total /\ rx'.buf = r.buf
          /\ rx'.bufferLimit = r.bufferLimit
      BY <2>3, <2>4 DEF RxState
    <3>4. QED
      BY <2>3, <2>4, <3>1, <3>2, <3>3 DEF Event, RxWithinBuffer, FfData
  <2>5. CASE /\ rx.state = "WAIT_CF"
             /\ ~Complete(r) /\ BlockDone(r)
             /\ rx' = [r EXCEPT !.cfSinceFc = 0, !.fc = CTS]
             /\ ev' = "SEND_FC"
    <3>1. rx' \in RxState
      BY <2>3, <2>5, Zenon DEF RxState
    <3>2. /\ rx'.state = "WAIT_CF" /\ rx'.total = r.total /\ rx'.buf = r.buf
          /\ rx'.bufferLimit = r.bufferLimit
          /\ rx'.blockSize = r.blockSize /\ rx'.cfSinceFc = 0
      BY <2>3, <2>5 DEF RxState
    <3>3. QED
      BY <2>3, <2>5, <3>1, <3>2 DEF Event, RxWithinBuffer, FfData, Complete
  <2>6. CASE /\ rx.state = "WAIT_CF"
             /\ ~Complete(r) /\ ~BlockDone(r)
             /\ rx' = r
             /\ ev' = "NONE"
    BY <2>3, <2>6 DEF RxState, Event, RxWithinBuffer, FfData, Complete, BlockDone
  <2>7. QED
    BY <1>6, <2>1, <2>2, <2>4, <2>5, <2>6 DEF RxConsecutive, r
<1>7. CASE RxFlowControl(f)
  BY <1>2, <1>7 DEF RxFlowControl, Event
<1>8. CASE RxReserved(f)
  BY <1>2, <1>8 DEF RxReserved, Event
<1>9. QED
  BY <1>3, <1>4, <1>5, <1>6, <1>7, <1>8 DEF RxFrame

\* The receiver asks for flow control only to grant a block.
LEMMA SendFcIsCts ==
    ASSUME RxTypeOK, NEW f, RxFrame(f), ev' = "SEND_FC"
    PROVE  rx'.fc = CTS
<1>1. CASE RxFirst(f)
  BY <1>1 DEF RxFirst, Reject, RxTypeOK, RxState
<1>2. CASE RxConsecutive(f)
  <2> DEFINE r == Accepted(rx, f)
  <2>1. rx' = [r EXCEPT !.cfSinceFc = 0, !.fc = CTS] /\ rx.state = "WAIT_CF"
    BY <1>2 DEF RxConsecutive, Reject, Ignore
  <2>2. "fc" \in DOMAIN r
    BY DEF RxTypeOK, RxState, Accepted
  <2> HIDE DEF r
  <2>3. QED
    BY <2>1, <2>2
<1>3. CASE RxInvalidDlc(f) \/ RxSingle(f) \/ RxFlowControl(f) \/ RxReserved(f)
  BY <1>3 DEF RxInvalidDlc, RxSingle, RxFlowControl, RxReserved, Reject, Ignore
<1>4. QED
  BY <1>1, <1>2, <1>3 DEF RxFrame

-----------------------------------------------------------------------------
(* The sender. *)

\* A slice of the payload is a sequence of bytes of the size asked for.
LEMMA SliceProperties ==
    ASSUME NEW count \in Nat, NEW size \in Nat,
           \A k \in 1 .. count : <<tx.msg, tx.sent + k>> \in Byte
    PROVE  /\ Slice(count, size) \in Seq(Byte)
           /\ Len(Slice(count, size)) = size
           /\ \A k \in 1 .. size : Slice(count, size)[k] =
                IF k <= count THEN <<tx.msg, tx.sent + k>> ELSE Pad
<1> DEFINE s == [ k \in 1 .. size |->
                    IF k <= count THEN <<tx.msg, tx.sent + k>> ELSE Pad ]
<1>1. \A k \in 1 .. size :
        (IF k <= count THEN <<tx.msg, tx.sent + k>> ELSE Pad) \in Byte
  BY FrameAssumption
<1>2. s \in [1 .. size -> Byte]
  BY <1>1
<1>3. s \in Seq(Byte)
  BY <1>2, SeqDef
<1>4. Len(s) = size
  BY <1>2, <1>3, LenProperties
<1>5. Slice(count, size) = s
  BY DEF Slice
<1>6. QED
  BY <1>3, <1>4, <1>5

\* What the caller's history says of the sender, and the bytes that follow.
LEMMA TxBytes ==
    ASSUME LinkTypeOK, TxOnMessage, tx.state # "NONE",
           NEW k \in 1 .. tx.len - tx.sent
    PROVE  <<tx.msg, tx.sent + k>> \in Byte
<1>1. tx.msg \in 1 .. MaxMsgs
  BY DEF LinkTypeOK, TxOnMessage, TxTypeOK, TxState
<1>2. tx.sent + k \in 1 .. MaxPayload
  BY FrameAssumption DEF LinkTypeOK, TxTypeOK, TxState
<1>3. QED
  BY <1>1, <1>2, LinkAssumption

\* The frames isotp_tx_next builds are frames.
LEMMA SentFrames ==
    ASSUME LinkTypeOK, TxOnMessage, TxWithinGrant
    PROVE  /\ TxSingle => SingleFrame \in Frame
           /\ TxFirst => FirstFrame \in Frame
           /\ TxConsecutive => ConsecutiveFrame \in Frame
<1> USE FrameAssumption DEF CfData, FfData
<1>1. /\ tx.len \in 0 .. MaxPayload /\ tx.sent \in 0 .. MaxPayload
      /\ tx.nextSn \in Nat
  BY DEF LinkTypeOK, TxTypeOK, TxState
<1>2. ASSUME TxSingle PROVE SingleFrame \in Frame
  <2>1. tx.state # "NONE" /\ tx.len <= CfData /\ tx.sent = 0
    BY <1>2 DEF TxSingle, TxOnMessage
  <2>2. /\ Slice(tx.len, CfData) \in Seq(Byte)
        /\ Len(Slice(tx.len, CfData)) = CfData
    BY <1>1, <2>1, TxBytes, SliceProperties
  <2>3. QED
    BY <1>1, <2>2 DEF SingleFrame, Frame, Pci, ValidDlc
<1>3. ASSUME TxFirst PROVE FirstFrame \in Frame
  <2>1. tx.state # "NONE" /\ tx.len > CfData /\ tx.sent = 0
    BY <1>3 DEF TxFirst, TxOnMessage
  <2>2. FfData \in Nat /\ \A k \in 1 .. FfData : k \in 1 .. tx.len - tx.sent
    BY <1>1, <2>1
  <2>3. \A k \in 1 .. FfData : <<tx.msg, tx.sent + k>> \in Byte
    BY <2>1, <2>2, TxBytes
  <2>4. /\ Slice(FfData, FfData) \in Seq(Byte)
        /\ Len(Slice(FfData, FfData)) = FfData
    BY <2>2, <2>3, SliceProperties
  <2>5. QED
    BY <1>1, <2>4 DEF FirstFrame, Frame, Pci, ValidDlc
<1>4. ASSUME TxConsecutive PROVE ConsecutiveFrame \in Frame
  <2>1. tx.state # "NONE" /\ tx.sent < tx.len
    BY <1>1, <1>4 DEF TxConsecutive, TxWithinGrant
  <2>2. TxTake \in Nat /\ CfData \in Nat /\ TxTake <= tx.len - tx.sent
    BY <1>1, <2>1 DEF TxTake
  <2>3. \A k \in 1 .. TxTake : k \in 1 .. tx.len - tx.sent
    BY <1>1, <2>2
  <2>4. \A k \in 1 .. TxTake : <<tx.msg, tx.sent + k>> \in Byte
    BY <2>1, <2>3, TxBytes
  <2>5. /\ Slice(TxTake, CfData) \in Seq(Byte)
        /\ Len(Slice(TxTake, CfData)) = CfData
    BY <2>2, <2>4, SliceProperties
  <2>6. QED
    BY <1>1, <2>5 DEF ConsecutiveFrame, Frame, Pci, ValidDlc
<1>5. QED
  BY <1>2, <1>3, <1>4

-----------------------------------------------------------------------------
(* The link. *)

\* What every reachable state of the link satisfies, whatever the bus does.
LinkInv == LinkTypeOK /\ RxWithinBuffer /\ TxOnMessage /\ TxWithinGrant

LEMMA LinkInvInit == Init => LinkInv
<1> SUFFICES ASSUME Init PROVE LinkInv
  OBVIOUS
<1> USE FrameAssumption, LinkAssumption
<1>1. PICK limit \in BufferLimits, bs \in BlockSizes : RxInit(limit, bs)
  BY DEF Init
<1>2. <<>> \in Seq(Byte) /\ Len(<<>>) = 0
  BY EmptySeq
<1>3. RxTypeOK /\ RxWithinBuffer
  BY <1>1, <1>2 DEF RxInit, RxTypeOK, RxState, Event, RxWithinBuffer
<1>4. TxTypeOK /\ TxOnMessage /\ TxWithinGrant
  BY DEF Init, TxInit, TxTypeOK, TxState, TxOnMessage, TxWithinGrant
<1>5. QED
  BY <1>2, <1>3, <1>4, EmptySeq DEF LinkInv, LinkTypeOK, Init

\* The steps of the sender's own state machine.
LEMMA BeginStep ==
    ASSUME LinkInv, NEW len \in Lengths, Begin(len)
    PROVE  LinkInv'
<1> USE FrameAssumption, LinkAssumption
<1>1. /\ sent \in Seq(Lengths) /\ Len(sent) < MaxMsgs /\ sent' = Append(sent, len)
      /\ len \in 1 .. MaxPayload
      /\ tx' = [ state |-> "IDLE", msg |-> Len(sent) + 1, len |-> len, sent |-> 0,
                 nextSn |-> 1, blockSize |-> 0, cfInBlock |-> 0 ]
  BY DEF Begin, TxBegin, LinkInv, LinkTypeOK
<1>2. /\ sent' \in Seq(Lengths) /\ Len(sent') = Len(sent) + 1
      /\ sent'[Len(sent) + 1] = len
  BY <1>1, AppendProperties
<1>3. Len(sent) \in Nat
  BY <1>1, LenProperties
<1>4. TxTypeOK' /\ TxOnMessage' /\ TxWithinGrant'
  BY <1>1, <1>2, <1>3 DEF TxTypeOK, TxState, TxOnMessage, TxWithinGrant
<1>5. DOMAIN sent = 1 .. Len(sent) /\ DOMAIN sent' = 1 .. Len(sent) + 1
  BY <1>1, <1>2, LenProperties
<1>6. abandoned' \subseteq DOMAIN sent'
  BY <1>3, <1>5 DEF Begin, LinkInv, LinkTypeOK, TxOnMessage
<1>7. RxTypeOK' /\ RxWithinBuffer'
  BY DEF Begin, rxVars, LinkInv, LinkTypeOK, RxTypeOK, RxWithinBuffer
<1>8. QED
  BY <1>1, <1>2, <1>3, <1>4, <1>6, <1>7 DEF Begin, LinkInv, LinkTypeOK

LEMMA SendStep ==
    ASSUME LinkInv, Send
    PROVE  LinkInv'
<1> USE FrameAssumption DEF CfData, FfData
<1>1. /\ tx \in TxState
      /\ tx.len \in 0 .. MaxPayload /\ tx.sent \in 0 .. MaxPayload
      /\ tx.nextSn \in 0 .. SnMod - 1 /\ tx.cfInBlock \in Nat
      /\ tx.blockSize \in Nat
  BY DEF LinkInv, LinkTypeOK, TxTypeOK, TxState
<1>2. ASSUME NEW f \in Frame, Transmit(f),
             TxTypeOK', TxOnMessage', TxWithinGrant'
      PROVE  LinkInv'
  BY <1>2, AppendProperties
     DEF LinkInv, LinkTypeOK, RxTypeOK, RxWithinBuffer, Transmit, rxVars
<1>3. CASE TxSingle /\ Transmit(SingleFrame)
  <2>1. tx' \in TxState
    BY <1>1, <1>3, Zenon DEF TxSingle, TxState
  <2>2. tx'.state = "DONE" /\ tx'.msg = tx.msg /\ tx'.len = tx.len
    BY <1>1, <1>3 DEF TxSingle, TxState
  <2>3. TxTypeOK' /\ TxOnMessage' /\ TxWithinGrant'
    BY <1>3, <2>1, <2>2
       DEF TxSingle, Transmit, LinkInv, TxTypeOK, TxOnMessage, TxWithinGrant
  <2>4. QED
    BY <1>2, <1>3, <2>3, SentFrames DEF LinkInv
<1>4. CASE TxFirst /\ Transmit(FirstFrame)
  <2>1. FfData \in 0 .. MaxPayload
    OBVIOUS
  <2>2. tx' \in TxState
    BY <1>1, <1>4, <2>1, Zenon DEF TxFirst, TxState
  <2>3. /\ tx'.state = "WAIT_FC" /\ tx'.msg = tx.msg /\ tx'.len = tx.len
        /\ tx'.sent = FfData
    BY <1>1, <1>4 DEF TxFirst, TxState
  <2>4. TxTypeOK' /\ TxOnMessage' /\ TxWithinGrant'
    BY <1>1, <1>4, <2>2, <2>3
       DEF TxFirst, Transmit, LinkInv, TxTypeOK, TxOnMessage, TxWithinGrant
  <2>5. QED
    BY <1>2, <1>4, <2>4, SentFrames DEF LinkInv
<1>5. CASE TxConsecutive /\ Transmit(ConsecutiveFrame)
  <2>1. tx.sent \in FfData .. tx.len - 1 /\ tx.state = "SENDING"
    BY <1>5 DEF TxConsecutive, LinkInv, TxWithinGrant
  <2>2. tx.sent + TxTake \in 0 .. MaxPayload /\ tx.sent + TxTake >= FfData
    BY <1>1, <2>1 DEF TxTake
  <2>3. (tx.nextSn + 1) % SnMod \in 0 .. SnMod - 1 /\ tx.cfInBlock + 1 \in Nat
    BY <1>1
  <2>4. tx' \in TxState
    BY <1>1, <1>5, <2>2, <2>3, Zenon DEF TxConsecutive, TxState
  <2>5. /\ tx'.state = IF tx.sent + TxTake >= tx.len THEN "DONE" ELSE "SENDING"
        /\ tx'.msg = tx.msg /\ tx'.len = tx.len
        /\ tx'.sent = tx.sent + TxTake /\ tx'.blockSize = tx.blockSize
        /\ tx'.cfInBlock = tx.cfInBlock + 1
    BY <1>1, <1>5 DEF TxConsecutive, TxState
  <2>6. tx.blockSize # 0 => tx.cfInBlock < tx.blockSize
    BY <1>1, <1>5 DEF TxConsecutive, BlockSent
  <2>7. TxTypeOK' /\ TxWithinGrant'
    BY <1>1, <2>2, <2>4, <2>5, <2>6 DEF TxTypeOK, TxWithinGrant
  <2>8. TxOnMessage'
    BY <1>5, <2>1, <2>5 DEF LinkInv, TxOnMessage, Transmit
  <2>9. QED
    BY <1>2, <1>5, <2>7, <2>8, SentFrames DEF LinkInv
<1>6. CASE /\ TxEndBlock
           /\ UNCHANGED <<rxVars, toRx, toTx, sent, delivered, abandoned, lost, foreign>>
  <2>1. tx' \in TxState
    BY <1>1, <1>6, Zenon DEF TxEndBlock, TxState
  <2>2. /\ tx'.state = "WAIT_FC" /\ tx'.msg = tx.msg /\ tx'.len = tx.len
        /\ tx'.sent = tx.sent
    BY <1>1, <1>6 DEF TxEndBlock, TxState
  <2>3. TxTypeOK' /\ TxOnMessage' /\ TxWithinGrant'
    BY <1>6, <2>1, <2>2
       DEF TxEndBlock, LinkInv, TxTypeOK, TxOnMessage, TxWithinGrant
  <2>4. QED
    BY <1>6, <2>3 DEF LinkInv, LinkTypeOK, RxTypeOK, RxWithinBuffer, rxVars
<1>7. QED
  BY <1>3, <1>4, <1>5, <1>6 DEF Send

LEMMA FlowControlStep ==
    ASSUME LinkInv, FlowControl
    PROVE  LinkInv'
<1> USE FrameAssumption DEF CfData, FfData
<1> DEFINE f == Head(toTx)
<1>1. f \in Frame /\ toTx' \in Seq(Frame)
  BY HeadTailProperties DEF FlowControl, LinkInv, LinkTypeOK
<1>2. f.bs \in Nat
  BY <1>1 DEF Frame
<1>3. tx \in TxState
  BY DEF LinkInv, LinkTypeOK, TxTypeOK
<1>4. UNCHANGED <<rx, ev, toRx, sent, delivered, abandoned, lost, foreign>>
  BY DEF FlowControl, rxVars
<1>5. ASSUME tx' \in TxState, tx'.msg = tx.msg, tx'.len = tx.len, tx'.sent = tx.sent,
             tx.state \in {"WAIT_FC", "SENDING"},
             \/ tx'.state = "SENDING" /\ tx'.cfInBlock = 0
             \/ tx'.state \in {"WAIT_FC", "ABORTED"}
      PROVE  TxTypeOK' /\ TxOnMessage' /\ TxWithinGrant'
  BY <1>4, <1>5 DEF LinkInv, TxTypeOK, TxState, TxOnMessage, TxWithinGrant
<1> HIDE DEF f
<1>6. TxTypeOK' /\ TxOnMessage' /\ TxWithinGrant'
  <2>1. CASE TxIgnore(f)
    BY <1>4, <2>1
       DEF TxIgnore, LinkInv, LinkTypeOK, TxTypeOK, TxOnMessage, TxWithinGrant
  <2>2. CASE TxContinue(f)
    <3>1. tx' \in TxState
      BY <1>2, <1>3, <2>2, Zenon DEF TxContinue, TxState
    <3>2. QED
      BY <1>3, <1>5, <2>2, <3>1 DEF TxContinue, FcIgnorable, TxState
  <2>3. CASE TxWait(f)
    <3>1. tx' \in TxState
      BY <1>3, <2>3, Zenon DEF TxWait, TxState
    <3>2. QED
      BY <1>3, <1>5, <2>3, <3>1 DEF TxWait, FcIgnorable, TxState
  <2>4. CASE TxAbort(f)
    <3>1. tx' \in TxState
      BY <1>3, <2>4, Zenon DEF TxAbort, TxState
    <3>2. QED
      BY <1>3, <1>5, <2>4, <3>1 DEF TxAbort, FcIgnorable, TxState
  <2>5. QED
    BY <2>1, <2>2, <2>3, <2>4 DEF FlowControl, TxFlowControl, f
<1>7. QED
  BY <1>1, <1>4, <1>6 DEF LinkInv, LinkTypeOK, RxTypeOK, RxWithinBuffer

LEMMA ReceiveStep ==
    ASSUME LinkInv, Receive
    PROVE  LinkInv'
<1> DEFINE f == Head(toRx)
<1>1. f \in Frame /\ toRx' \in Seq(Frame)
  BY HeadTailProperties DEF Receive, LinkInv, LinkTypeOK
<1>2. RxFrame(f)
  BY DEF Receive
<1> HIDE DEF f
<1>3. RxTypeOK' /\ RxWithinBuffer'
  BY <1>1, <1>2, RxFrameStep DEF LinkInv, LinkTypeOK
<1>4. UNCHANGED <<tx, sent, abandoned, lost, foreign>>
  BY DEF Receive
<1>5. toTx' \in Seq(Frame) /\ delivered' \in Seq(Seq(Byte))
  <2>1. CASE ev' = "SEND_FC" /\ toTx' = Append(toTx, FcFrame(rx'.fc, rx'.blockSize))
             /\ UNCHANGED delivered
    <3>1. rx'.fc = CTS
      BY <1>2, <2>1, SendFcIsCts DEF LinkInv, LinkTypeOK
    <3>2. rx'.blockSize \in Nat
      BY <1>3 DEF RxTypeOK, RxState
    <3>3. FcFrame(rx'.fc, rx'.blockSize) \in Frame
      BY <3>1, <3>2, FrameAssumption, EmptySeq DEF FcFrame, CTS, Frame, Pci
    <3>4. QED
      BY <2>1, <3>3, AppendProperties DEF LinkInv, LinkTypeOK
  <2>2. CASE ev' = "MESSAGE" /\ delivered' = Append(delivered, rx'.buf)
             /\ UNCHANGED toTx
    <3>1. rx'.buf \in Seq(Byte)
      BY <1>3 DEF RxTypeOK, RxState
    <3>2. QED
      BY <2>2, <3>1, AppendProperties DEF LinkInv, LinkTypeOK
  <2>3. CASE UNCHANGED <<toTx, delivered>>
    BY <2>3 DEF LinkInv, LinkTypeOK
  <2>4. QED
    BY <2>1, <2>2, <2>3 DEF Receive, Serve
<1>6. QED
  BY <1>1, <1>3, <1>4, <1>5
     DEF LinkInv, LinkTypeOK, TxTypeOK, TxOnMessage, TxWithinGrant

LEMMA FaultStep ==
    ASSUME LinkInv, Lose \/ \E f \in Foreign : Intrude(f)
    PROVE  LinkInv'
<1>1. toRx' \in Seq(Frame) /\ toTx' \in Seq(Frame)
  <2>1. toRx \in Seq(Frame) /\ toTx \in Seq(Frame)
    BY DEF LinkInv, LinkTypeOK
  <2>2. CASE Lose
    BY <2>1, <2>2, HeadTailProperties DEF Lose
  <2>3. ASSUME NEW f \in Foreign, Intrude(f)
        PROVE  toRx' \in Seq(Frame) /\ toTx' \in Seq(Frame)
    <3>1. f \in Frame
      BY <2>3, LinkAssumption
    <3>2. /\ Append(toRx, f) \in Seq(Frame)
          /\ Append(toTx, f) \in Seq(Frame)
      BY <2>1, <3>1, AppendProperties
    <3>3. QED
      BY <2>1, <2>3, <3>2 DEF Intrude
  <2>4. QED
    BY <2>2, <2>3
<1>2. lost' \in 0 .. MaxLost /\ foreign' \in 0 .. MaxForeign
  BY LinkAssumption DEF Lose, Intrude, LinkInv, LinkTypeOK
<1>3. UNCHANGED <<rx, ev, tx, sent, delivered, abandoned>>
  BY DEF Lose, Intrude, rxVars
<1>4. QED
  BY <1>1, <1>2, <1>3 DEF LinkInv, LinkTypeOK, RxTypeOK, RxWithinBuffer,
                          TxTypeOK, TxOnMessage, TxWithinGrant

LEMMA LinkInvStep == LinkInv /\ [Next]_vars => LinkInv'
<1> SUFFICES ASSUME LinkInv, [Next]_vars PROVE LinkInv'
  OBVIOUS
<1>1. ASSUME NEW len \in Lengths, Begin(len) PROVE LinkInv'
  BY <1>1, BeginStep
<1>2. CASE Send
  BY <1>2, SendStep
<1>3. CASE FlowControl
  BY <1>3, FlowControlStep
<1>4. CASE Receive
  BY <1>4, ReceiveStep
<1>5. CASE Lose \/ \E f \in Foreign : Intrude(f)
  BY <1>5, FaultStep
<1>6. CASE UNCHANGED vars
  BY <1>6 DEF vars, LinkInv, LinkTypeOK, RxTypeOK, RxWithinBuffer,
              TxTypeOK, TxOnMessage, TxWithinGrant
<1>7. QED
  BY <1>1, <1>2, <1>3, <1>4, <1>5, <1>6 DEF Next, Protocol

\* The inductive invariant of the link holds in every reachable state.
LEMMA LinkInvariant == Spec => []LinkInv
<1>1. Init => LinkInv
  BY LinkInvInit
<1>2. LinkInv /\ [Next]_vars => LinkInv'
  BY LinkInvStep
<1>3. QED
  BY <1>1, <1>2, PTL DEF Spec

\* Every variable of the link keeps its type.
THEOREM LinkTypeCorrect == Spec => []LinkTypeOK
BY LinkInvariant, PTL DEF LinkInv

\* isotp_rx_frame never stores beyond the message it was told of nor beyond
\* its buffer limit, whatever frames arrive, well-formed or not.
THEOREM ReceiverStaysWithinBuffer == Spec => []RxWithinBuffer
BY LinkInvariant, PTL DEF LinkInv

\* isotp_tx_next never sends beyond the granted block nor beyond the message,
\* whatever flow control arrives.
THEOREM SenderStaysWithinGrant == Spec => []TxWithinGrant
BY LinkInvariant, PTL DEF LinkInv

=============================================================================
