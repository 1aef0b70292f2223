------------------------- MODULE IsoTpIntact_proofs -------------------------
(* On a bus that loses frames the receiver is never deceived: what it stores *)
(* is at its place, and what comes out are whole messages, in order, at most *)
(* once, although the transport has neither timers nor a checksum.           *)
(*                                                                           *)
(* What is under way to the receiver is always the end of what the sender    *)
(* has sent, without a gap.  A receiver inside a message is at most as many  *)
(* consecutive frames behind the head of the queue as were lost, so sequence *)
(* numbers tell a gap from none as long as fewer were lost than there are    *)
(* numbers; and when more were lost and it does not notice, it has taken     *)
(* fewer frames than the message has and can never complete it.  A first     *)
(* frame that is lost is followed by nothing, because a patient sender waits *)
(* for flow control, and the receiver grants a block only when it has had    *)
(* all that was sent: its count and the sender's of the block agree.         *)
EXTENDS IsoTpReliable_proofs, FiniteSetTheorems

\* The bytes of a message in its first frame and k consecutive ones.
Off(k) == FfData + k * CfData

\* The number of consecutive frames whose bytes end at off.
CfsIn(off) == (off - FfData) \div CfData

\* The message a frame belongs to, told by its first byte, and its number in
\* that message: 0 for a single or a first frame.
MsgOf(f) == f.data[1][1]
NumOf(f) == IF f.pci = "CF" THEN CfsIn(f.data[1][2] - 1) + 1 ELSE 0

\* Frame f is one that the sender made of a message, when the messages have the
\* lengths len.
Genuine(len, f) ==
    /\ MsgOf(f) \in 1 .. Len(len) /\ NumOf(f) \in Nat /\ f.dlc = Dlc
    /\ \/ /\ f.pci = "SF" /\ f.n = len[MsgOf(f)] /\ f.n <= CfData
          /\ Carries(f, MsgOf(f), 0, f.n)
       \/ /\ f.pci = "FF" /\ f.n = len[MsgOf(f)] /\ f.n > CfData
          /\ Carries(f, MsgOf(f), 0, FfData)
       \/ /\ f.pci = "CF" /\ NumOf(f) # 0 /\ f.n = NumOf(f) % SnMod
          /\ len[MsgOf(f)] > CfData /\ len[MsgOf(f)] > Off(NumOf(f) - 1)
          /\ Carries(f, MsgOf(f), Off(NumOf(f) - 1),
                     Share(len[MsgOf(f)], Off(NumOf(f) - 1)))

\* Frame g was sent right after frame f.
Succeeds(f, g) ==
    IF g.pci = "CF" THEN MsgOf(g) = MsgOf(f) /\ NumOf(g) = NumOf(f) + 1
                    ELSE MsgOf(g) > MsgOf(f)

\* The sender is inside a message, and has sent TxNum of its consecutive frames.
Inside == tx.state \in {"WAIT_FC", "SENDING"}
TxNum == CfsIn(tx.sent)

\* What is under way to the receiver is the end of what the sender has sent.
Queue ==
    /\ \A k \in 1 .. Len(toRx) : Genuine(sent, toRx[k])
    /\ \A k \in 1 .. Len(toRx) - 1 : Succeeds(toRx[k], toRx[k + 1])
    /\ \A k \in 1 .. Len(toRx) :
         MsgOf(toRx[k]) <= tx.msg /\ (tx.state = "IDLE" => MsgOf(toRx[k]) < tx.msg)

Sender ==
    /\ tx.state = "NONE" => sent = <<>>
    /\ tx.state = "IDLE" => tx.nextSn = 1 /\ tx.cfInBlock = 0
    /\ Inside =>
         /\ TxNum \in Nat /\ tx.sent = Off(TxNum) /\ tx.len > CfData
         /\ tx.nextSn = (TxNum + 1) % SnMod
         /\ toRx # <<>> => MsgOf(toRx[Len(toRx)]) = tx.msg
         /\ \A k \in 1 .. Len(toRx) :
              MsgOf(toRx[k]) = tx.msg => NumOf(toRx[k]) + (Len(toRx) - k) = TxNum

Answers == \A k \in 1 .. Len(toTx) : toTx[k] = FcFrame(CTS, rx.blockSize)

Stream == Queue /\ Sender /\ Answers

\* The message the receiver is in, and how many of its consecutive frames it
\* has taken.
RxMsg == rx.buf[1][1]
RxNum == CfsIn(Len(rx.buf))

InPlace == rx.buf = Payload(RxMsg, Len(rx.buf))

\* After k consecutive frames of the receiver's message the next is yet to
\* come: if the receiver has missed one and not noticed, it can never complete
\* the message, since then it has taken fewer than there were.
Ahead(k) == k \in RxNum .. RxNum + lost /\ (InPlace \/ k > RxNum)

Receiving ==
    rx.state = "WAIT_CF" =>
        /\ RxMsg \in 1 .. Len(sent) /\ rx.total = sent[RxMsg]
        /\ RxMsg <= tx.msg /\ (tx.state = "IDLE" => RxMsg < tx.msg)
        /\ RxNum \in Nat /\ Len(rx.buf) = Off(RxNum)
        /\ rx.nextSn = (RxNum + 1) % SnMod
        /\ toRx # <<>> =>
             IF toRx[1].pci = "CF"
             THEN MsgOf(toRx[1]) = RxMsg /\ Ahead(NumOf(toRx[1]) - 1)
             ELSE MsgOf(toRx[1]) > RxMsg
        /\ toRx = <<>> /\ Inside /\ tx.msg = RxMsg => Ahead(TxNum)
        /\ toRx = <<>> /\ Inside /\ (tx.state = "SENDING" \/ lost = 0 \/ toTx # <<>>)
             => tx.msg = RxMsg

\* The last message delivered.
LastMsg == IF delivered = <<>> THEN 0 ELSE delivered[Len(delivered)][1][1]

Delivering ==
    /\ \A k \in 1 .. Len(delivered) : Intact(delivered[k])
    /\ \A j, k \in 1 .. Len(delivered) : j < k => delivered[j][1][1] < delivered[k][1][1]
    /\ LastMsg <= tx.msg /\ (tx.state = "IDLE" => LastMsg < tx.msg)
    /\ rx.state = "WAIT_CF" => LastMsg < RxMsg
    /\ toRx # <<>> =>
         LastMsg <= MsgOf(toRx[1]) /\ (toRx[1].pci # "CF" => LastMsg < MsgOf(toRx[1]))

\* With a patient caller the sender goes on only when the receiver answers.
Patient ==
    /\ tx.state # "ABORTED"
    /\ \A k \in 1 .. Len(toRx) :
         toRx[k].pci = "FF" =>
             k = Len(toRx) /\ tx.state = "WAIT_FC" /\ toTx = <<>>
    /\ toTx # <<>> =>
         /\ Len(toTx) = 1 /\ toRx = <<>> /\ TxStopped
         /\ rx.state = "WAIT_CF" /\ RxMsg = tx.msg /\ RxNum = TxNum
         /\ rx.cfSinceFc = 0
    /\ tx.state = "SENDING" => tx.blockSize = rx.blockSize
    /\ rx.state = "WAIT_CF" /\ rx.blockSize # 0 =>
         IF Inside /\ tx.msg = RxMsg
         THEN /\ TxNum <= RxNum - rx.cfSinceFc + rx.blockSize
              /\ tx.state = "SENDING" /\ ~BlockSent =>
                   TxNum - tx.cfInBlock = RxNum - rx.cfSinceFc
         ELSE sent[RxMsg] <= Off(RxNum - rx.cfSinceFc + rx.blockSize)

\* The bus loses frames or the caller gives up, but not both.
OneFault == lost = 0 \/ abandoned = {}

IntactState ==
    /\ abandoned = {} => Patient
    /\ OneFault => Receiving /\ Delivering

IntactInv == foreign = 0 => Stream /\ IntactState /\ StoredInPlace

-----------------------------------------------------------------------------
(* Arithmetic. *)

LEMMA OffStep ==
    ASSUME NEW k \in Int
    PROVE  /\ Off(k) \in Int /\ Off(k + 1) = Off(k) + CfData
           /\ CfsIn(Off(k)) = k
BY FrameAssumption DEF Off, CfsIn, CfData, FfData

LEMMA OffMonotone ==
    ASSUME NEW j \in Int, NEW k \in Int, j <= k
    PROVE  Off(j) <= Off(k)
<1> DEFINE d == k - j
           c == CfData
<1>1. d \in Nat /\ k = j + d /\ c \in Nat
  BY FrameAssumption DEF CfData
<1> HIDE DEF d, c
<1>2. d * c >= 0 /\ (j + d) * c = j * c + d * c
  BY <1>1
<1>3. QED
  BY <1>1, <1>2, FrameAssumption DEF Off, FfData, c

\* A number is a multiple of SnMod and its sequence number.
LEMMA Division ==
    ASSUME NEW a \in Int
    PROVE  \E q \in Int : a = SnMod * q + (a % SnMod)
<1>1. a \div SnMod \in Int /\ a = SnMod * (a \div SnMod) + (a % SnMod)
  BY FrameAssumption
<1>2. QED
  BY <1>1

LEMMA Remainder ==
    ASSUME NEW a \in Int
    PROVE  a % SnMod \in 0 .. SnMod - 1
BY FrameAssumption

LEMMA RemainderOf ==
    ASSUME NEW q \in Int, NEW r \in 0 .. SnMod - 1
    PROVE  (SnMod * q + r) % SnMod = r
BY FrameAssumption

\* Sequence numbers count modulo SnMod.
LEMMA NextNumber ==
    ASSUME NEW a \in Nat
    PROVE  ((a % SnMod) + 1) % SnMod = (a + 1) % SnMod
<1>1. PICK q \in Int : a = SnMod * q + (a % SnMod)
  <2>1. a \in Int
    OBVIOUS
  <2>2. QED
    BY <2>1, Division
<1> USE FrameAssumption
<1> DEFINE r == a % SnMod
<1>2. r \in 0 .. SnMod - 1 /\ a = SnMod * q + r
  BY <1>1, Remainder
<1> HIDE DEF r
<1>3. SnMod * q \in Int /\ SnMod * (q + 1) = SnMod * q + SnMod
  OBVIOUS
<1>4. CASE r + 1 < SnMod
  <2>1. r + 1 \in 0 .. SnMod - 1 /\ a + 1 = SnMod * q + (r + 1)
    BY <1>2, <1>3, <1>4
  <2>2. (SnMod * q + (r + 1)) % SnMod = r + 1
    BY <2>1, RemainderOf
  <2>3. (SnMod * 0 + (r + 1)) % SnMod = r + 1
    BY <2>1, RemainderOf
  <2>4. SnMod * 0 + (r + 1) = r + 1
    BY <1>2
  <2>5. (r + 1) % SnMod = r + 1
    BY <2>3, <2>4
  <2>6. QED
    BY <2>1, <2>2, <2>5 DEF r
<1>5. CASE r + 1 = SnMod
  <2>1. a + 1 = SnMod * (q + 1) + 0 /\ r + 1 = SnMod * 1 + 0
    BY <1>2, <1>3, <1>5
  <2>2. (SnMod * (q + 1) + 0) % SnMod = 0
    BY RemainderOf
  <2>3. (SnMod * 1 + 0) % SnMod = 0
    BY RemainderOf
  <2>4. QED
    BY <2>1, <2>2, <2>3 DEF r
<1>6. QED
  BY <1>2, <1>4, <1>5

\* A gap shows as long as it is shorter than the numbers go round.
LEMMA SameNumber ==
    ASSUME NEW a \in Nat, NEW b \in Nat, a <= b, b - a < SnMod,
           a % SnMod = b % SnMod
    PROVE  a = b
<1>1. PICK q \in Int : a = SnMod * q + (a % SnMod)
  <2>1. a \in Int
    OBVIOUS
  <2>2. QED
    BY <2>1, Division
<1>2. PICK p \in Int : b = SnMod * p + (b % SnMod)
  <2>1. b \in Int
    OBVIOUS
  <2>2. QED
    BY <2>1, Division
<1> USE FrameAssumption
<1> DEFINE r == a % SnMod
<1>3. r \in Int /\ a = SnMod * q + r /\ b = SnMod * p + r
  BY <1>1, <1>2, Remainder
<1> HIDE DEF r
<1> DEFINE d == p - q
<1>4. d \in Int /\ p = q + d
  OBVIOUS
<1> HIDE DEF d
<1>5. SnMod * p = SnMod * q + SnMod * d
  BY <1>4
<1>6. b - a = SnMod * d
  BY <1>3, <1>4, <1>5
<1>7. CASE d >= 1
  <2>1. SnMod * d >= SnMod
    BY <1>4, <1>7
  <2>2. QED
    BY <1>6, <2>1
<1>8. CASE d <= -1
  <2>1. SnMod * d < 0
    BY <1>4, <1>8
  <2>2. QED
    BY <1>6, <2>1
<1>9. CASE d = 0
  BY <1>6, <1>9
<1>10. QED
  BY <1>4, <1>7, <1>8, <1>9

-----------------------------------------------------------------------------
(* The queue and the sender. *)

\* The lengths of the messages begun.
LEMMA Begun ==
    ASSUME LinkInv
    PROVE  /\ sent \in Seq(Nat) /\ Len(sent) \in Nat
           /\ \A m \in 1 .. Len(sent) : sent[m] \in 1 .. MaxPayload
           /\ toRx \in Seq(Frame) /\ Len(toRx) \in Nat
           /\ toTx \in Seq(Frame) /\ Len(toTx) \in Nat
<1>1. sent \in Seq(Lengths) /\ toRx \in Seq(Frame) /\ toTx \in Seq(Frame)
  BY DEF LinkInv, LinkTypeOK
<1>2. Lengths \subseteq Nat
  BY LinkAssumption
<1>3. \A m \in 1 .. Len(sent) : sent[m] \in 1 .. MaxPayload
  BY <1>1, ElementOfSeq, LinkAssumption
<1>4. QED
  BY <1>1, <1>2, <1>3, SeqMonotonic, LenProperties

\* Frames of old messages do not mind a new one.
LEMMA GenuineStable ==
    ASSUME NEW len \in Seq(Nat), NEW new \in Seq(Nat), NEW f,
           Len(len) <= Len(new), \A i \in 1 .. Len(len) : new[i] = len[i],
           Genuine(len, f)
    PROVE  Genuine(new, f)
<1>1. MsgOf(f) \in 1 .. Len(new) /\ new[MsgOf(f)] = len[MsgOf(f)]
  BY LenProperties DEF Genuine
<1>2. QED
  BY <1>1 DEF Genuine

LEMMA QueueBegin ==
    ASSUME LinkInv, Stream, NEW len \in Lengths, Begin(len)
    PROVE  Stream'
<1>1. /\ UNCHANGED <<rx, toRx, toTx>> /\ sent' = Append(sent, len)
      /\ tx' = [ state |-> "IDLE", msg |-> Len(sent) + 1, len |-> len, sent |-> 0,
                 nextSn |-> 1, blockSize |-> 0, cfInBlock |-> 0 ]
  BY DEF Begin, TxBegin, rxVars
<1>2. sent \in Seq(Nat) /\ Len(sent) \in Nat /\ len \in Nat
  BY Begun, LinkAssumption
<1>3. /\ sent' \in Seq(Nat) /\ Len(sent') = Len(sent) + 1
      /\ \A i \in 1 .. Len(sent) : sent'[i] = sent[i]
  BY <1>1, <1>2, AppendProperties
<1>4. \A k \in 1 .. Len(toRx) : Genuine(sent', toRx[k])
  BY <1>2, <1>3, GenuineStable DEF Stream, Queue
<1>5. \A k \in 1 .. Len(toRx) : MsgOf(toRx[k]) < Len(sent) + 1
  BY <1>2 DEF Stream, Queue, Genuine
<1>6. Queue'
  BY <1>1, <1>2, <1>4, <1>5 DEF Stream, Queue, Genuine
<1>7. Sender' /\ Answers'
  BY <1>1 DEF Stream, Sender, Inside, Answers
<1>8. QED
  BY <1>6, <1>7 DEF Stream

\* A frame joins the queue: it is genuine, the sender's, and follows the last.
LEMMA QueueAppend ==
    ASSUME LinkInv, Stream, NEW f \in Frame, toRx' = Append(toRx, f),
           UNCHANGED <<rx, sent, toTx>>, tx'.msg = tx.msg,
           tx.state # "NONE", tx'.state \notin {"NONE", "IDLE"},
           Genuine(sent, f), MsgOf(f) = tx.msg,
           f.pci = "CF" => Inside /\ NumOf(f) = TxNum + 1,
           f.pci # "CF" => tx.state = "IDLE" /\ NumOf(f) = 0,
           Inside' => /\ TxNum' \in Nat /\ tx'.sent = Off(TxNum') /\ tx'.len > CfData
                      /\ tx'.nextSn = (TxNum' + 1) % SnMod /\ TxNum' = NumOf(f)
    PROVE  Stream'
<1> DEFINE n == Len(toRx)
<1>1. toRx \in Seq(Frame) /\ n \in Nat
  BY Begun
<1>2. /\ Len(toRx') = n + 1 /\ toRx'[n + 1] = f
      /\ \A k \in 1 .. n : toRx'[k] = toRx[k]
  BY <1>1, AppendProperties
<1>3. tx.msg \in Nat
  BY TxMessage
<1>4. \A k \in 1 .. n : MsgOf(toRx[k]) \in Nat /\ NumOf(toRx[k]) \in Nat
  BY Begun DEF Stream, Queue, Genuine
<1> HIDE DEF n
<1>5. \A k \in 1 .. n + 1 : Genuine(sent, toRx'[k])
  BY <1>1, <1>2 DEF Stream, Queue, n
<1>6. \A k \in 1 .. n + 1 : MsgOf(toRx'[k]) <= tx.msg
  BY <1>1, <1>2, <1>3 DEF Stream, Queue, n
<1>7. ASSUME NEW k \in 1 .. n
      PROVE  Succeeds(toRx'[k], toRx'[k + 1])
  <2>1. CASE k = n
    <3>1. toRx # <<>> /\ n - n = 0 /\ n \in 1 .. n
      BY <1>1, <2>1, EmptySeq DEF n
    <3>2. CASE f.pci = "CF"
      <4>1. MsgOf(toRx[n]) = tx.msg
        BY <3>1, <3>2 DEF Stream, Sender, n
      <4>2. NumOf(toRx[n]) + (n - n) = TxNum
        BY <3>1, <3>2, <4>1 DEF Stream, Sender, n
      <4>3. NumOf(f) = NumOf(toRx[n]) + 1
        BY <1>4, <3>1, <3>2, <4>2
      <4>4. QED
        BY <1>2, <2>1, <3>2, <4>1, <4>3 DEF Succeeds
    <3>3. CASE f.pci # "CF"
      BY <1>2, <1>4, <2>1, <3>1, <3>3 DEF Stream, Queue, Succeeds, n
    <3>4. QED
      BY <3>2, <3>3
  <2>2. CASE k # n
    BY <1>1, <1>2, <2>2 DEF Stream, Queue, n
  <2>3. QED
    BY <2>1, <2>2
<1>8. Queue'
  BY <1>1, <1>2, <1>5, <1>6, <1>7 DEF Queue
<1>9. ASSUME Inside'
      PROVE  /\ toRx' # <<>> => MsgOf(toRx'[Len(toRx')]) = tx.msg
             /\ \A k \in 1 .. n + 1 :
                  MsgOf(toRx'[k]) = tx.msg => NumOf(toRx'[k]) + (n + 1 - k) = TxNum'
  <2>1. ASSUME NEW k \in 1 .. n, MsgOf(toRx[k]) = tx.msg
        PROVE  NumOf(toRx[k]) + (n + 1 - k) = TxNum'
    <3>1. f.pci = "CF"
      BY <1>3, <2>1 DEF Stream, Queue, n
    <3>2. NumOf(toRx[k]) + (n - k) = TxNum
      BY <2>1, <3>1 DEF Stream, Sender, n
    <3>3. QED
      BY <1>1, <1>4, <1>9, <2>1, <3>1, <3>2
  <2>2. NumOf(f) + (n + 1 - (n + 1)) = TxNum'
    BY <1>1, <1>9
  <2>3. QED
    BY <1>1, <1>2, <2>1, <2>2
<1>10. Sender'
  <2>1. tx'.state # "NONE" /\ tx'.state # "IDLE"
    OBVIOUS
  <2>2. ASSUME Inside'
        PROVE  /\ toRx' # <<>> => MsgOf(toRx'[Len(toRx')]) = tx'.msg
               /\ \A k \in 1 .. Len(toRx') :
                    MsgOf(toRx'[k]) = tx'.msg =>
                      NumOf(toRx'[k]) + (Len(toRx') - k) = TxNum'
    <3>1. MsgOf(toRx'[Len(toRx')]) = tx'.msg
      BY <1>2
    <3>2. ASSUME NEW k \in 1 .. Len(toRx'), MsgOf(toRx'[k]) = tx'.msg
          PROVE  NumOf(toRx'[k]) + (Len(toRx') - k) = TxNum'
      <4>1. k \in 1 .. n + 1 /\ MsgOf(toRx'[k]) = tx.msg
        BY <1>2, <3>2
      <4>2. QED
        BY <1>1, <1>2, <1>9, <2>2, <4>1
    <3>3. QED
      BY <3>1, <3>2
  <2>3. QED
    BY <2>1, <2>2 DEF Sender
<1>11. Answers'
  BY DEF Stream, Answers
<1>12. QED
  BY <1>8, <1>10, <1>11 DEF Stream

\* The first byte of a slice tells its message and its place.
LEMMA SliceFirst ==
    ASSUME LinkInv, tx.state # "NONE", NEW count \in Nat, NEW size \in Nat,
           count <= size, 1 <= count, count <= tx.len - tx.sent
    PROVE  /\ Slice(count, size)[1][1] = tx.msg
           /\ Slice(count, size)[1][2] = tx.sent + 1
           /\ \A k \in 1 .. count : Slice(count, size)[k] = <<tx.msg, tx.sent + k>>
<1>1. tx.len \in Nat /\ tx.sent \in Nat
  BY TxMessage
<1>2. \A k \in 1 .. count : <<tx.msg, tx.sent + k>> \in Byte
  <2>1. TAKE k \in 1 .. count
  <2>2. k \in 1 .. tx.len - tx.sent
    BY <1>1
  <2>3. QED
    BY <2>2, TxBytes DEF LinkInv
<1>3. \A k \in 1 .. count : Slice(count, size)[k] = <<tx.msg, tx.sent + k>>
  BY <1>2, SlicePrefix
<1>4. 1 \in 1 .. count
  OBVIOUS
<1>5. Slice(count, size)[1] = <<tx.msg, tx.sent + 1>>
  BY <1>3, <1>4
<1>6. QED
  BY <1>3, <1>5

LEMMA GenuineSingle ==
    ASSUME LinkInv, TxSingle
    PROVE  /\ Genuine(sent, SingleFrame) /\ MsgOf(SingleFrame) = tx.msg
           /\ SingleFrame.pci = "SF" /\ NumOf(SingleFrame) = 0
<1>1. tx.state = "IDLE" /\ tx.len <= CfData /\ tx.sent = 0
  BY DEF TxSingle, LinkInv, TxOnMessage
<1>2. tx.msg \in 1 .. Len(sent) /\ sent[tx.msg] = tx.len /\ tx.len \in 1 .. MaxPayload
  BY <1>1, TxMessage, Begun
<1>3. CfData \in Nat /\ tx.len \in Nat /\ 1 <= tx.len /\ tx.len <= tx.len - tx.sent
  BY <1>1, <1>2, FrameAssumption DEF CfData
<1> DEFINE d == Slice(tx.len, CfData)
<1>4. d[1][1] = tx.msg /\ \A k \in 1 .. tx.len : d[k] = <<tx.msg, 0 + k>>
  BY <1>1, <1>3, SliceFirst
<1>5. /\ SingleFrame.data = d /\ SingleFrame.pci = "SF"
      /\ SingleFrame.dlc = Dlc /\ SingleFrame.n = tx.len
  BY DEF SingleFrame
<1> HIDE DEF d
<1>6. MsgOf(SingleFrame) = tx.msg /\ NumOf(SingleFrame) = 0
  BY <1>4, <1>5 DEF MsgOf, NumOf
<1>7. QED
  BY <1>1, <1>2, <1>4, <1>5, <1>6 DEF Genuine, Carries

LEMMA GenuineFirst ==
    ASSUME LinkInv, TxFirst
    PROVE  /\ Genuine(sent, FirstFrame) /\ MsgOf(FirstFrame) = tx.msg
           /\ FirstFrame.pci = "FF" /\ NumOf(FirstFrame) = 0
<1>1. tx.state = "IDLE" /\ tx.len > CfData /\ tx.sent = 0
  BY DEF TxFirst, LinkInv, TxOnMessage
<1>2. tx.msg \in 1 .. Len(sent) /\ sent[tx.msg] = tx.len /\ tx.len \in 1 .. MaxPayload
  BY <1>1, TxMessage, Begun
<1>3. FfData \in Nat /\ 1 <= FfData /\ FfData <= tx.len - tx.sent
  BY <1>1, <1>2, FrameAssumption DEF CfData, FfData
<1> DEFINE d == Slice(FfData, FfData)
<1>4. d[1][1] = tx.msg /\ \A k \in 1 .. FfData : d[k] = <<tx.msg, 0 + k>>
  BY <1>1, <1>3, SliceFirst
<1>5. /\ FirstFrame.data = d /\ FirstFrame.pci = "FF"
      /\ FirstFrame.dlc = Dlc /\ FirstFrame.n = tx.len
  BY DEF FirstFrame
<1> HIDE DEF d
<1>6. MsgOf(FirstFrame) = tx.msg /\ NumOf(FirstFrame) = 0
  BY <1>4, <1>5 DEF MsgOf, NumOf
<1>7. QED
  BY <1>1, <1>2, <1>4, <1>5, <1>6 DEF Genuine, Carries

LEMMA GenuineConsecutive ==
    ASSUME LinkInv, Stream, TxConsecutive
    PROVE  /\ Genuine(sent, ConsecutiveFrame) /\ MsgOf(ConsecutiveFrame) = tx.msg
           /\ ConsecutiveFrame.pci = "CF" /\ NumOf(ConsecutiveFrame) = TxNum + 1
<1>1. tx.state = "SENDING" /\ tx.sent \in FfData .. tx.len - 1
  BY DEF TxConsecutive, LinkInv, TxWithinGrant
<1>2. tx.msg \in 1 .. Len(sent) /\ sent[tx.msg] = tx.len /\ tx.len \in Nat /\ tx.sent \in Nat
  BY <1>1, TxMessage
<1>3. TxNum \in Nat /\ tx.sent = Off(TxNum) /\ tx.len > CfData /\ tx.nextSn = (TxNum + 1) % SnMod
  BY <1>1 DEF Stream, Sender, Inside
<1>4. TxTake = Share(tx.len, tx.sent)
  BY DEF TxTake, Share
<1>5. CfData \in Nat /\ TxTake \in Nat /\ 1 <= TxTake /\ TxTake <= CfData
      /\ TxTake <= tx.len - tx.sent
  BY <1>1, <1>2, FrameAssumption DEF CfData, FfData, TxTake
<1> DEFINE d == Slice(TxTake, CfData)
<1>6. d[1][1] = tx.msg /\ d[1][2] = tx.sent + 1
      /\ \A k \in 1 .. TxTake : d[k] = <<tx.msg, tx.sent + k>>
  BY <1>1, <1>5, SliceFirst
<1>7. /\ ConsecutiveFrame.data = d /\ ConsecutiveFrame.pci = "CF"
      /\ ConsecutiveFrame.dlc = Dlc /\ ConsecutiveFrame.n = tx.nextSn
  BY DEF ConsecutiveFrame
<1> HIDE DEF d
<1>8. MsgOf(ConsecutiveFrame) = tx.msg /\ NumOf(ConsecutiveFrame) = TxNum + 1
  <2>1. ConsecutiveFrame.data[1][1] = tx.msg
    BY <1>6, <1>7
  <2>2. ConsecutiveFrame.data[1][2] - 1 = tx.sent
    BY <1>2, <1>6, <1>7
  <2>3. QED
    BY <1>7, <2>1, <2>2 DEF MsgOf, NumOf, TxNum
<1>9. TxNum + 1 \in Nat /\ TxNum + 1 # 0 /\ TxNum + 1 - 1 = TxNum
  BY <1>3
<1>10. Carries(ConsecutiveFrame, tx.msg, Off(TxNum), Share(tx.len, Off(TxNum)))
  BY <1>3, <1>4, <1>6, <1>7 DEF Carries
<1>11. tx.len > Off(TxNum)
  BY <1>1, <1>2, <1>3
<1>12. QED
  BY <1>2, <1>3, <1>7, <1>8, <1>9, <1>10, <1>11 DEF Genuine

LEMMA QueueSend ==
    ASSUME LinkInv, Stream, Send
    PROVE  Stream'
<1> USE FrameAssumption
<1>1. tx.state # "NONE"
  BY DEF Send, TxSingle, TxFirst, TxConsecutive, TxEndBlock
<1>2. /\ tx \in TxState /\ tx.len \in Nat /\ tx.sent \in Nat /\ tx.nextSn \in Nat
      /\ tx.len <= MaxPayload
  BY <1>1, TxMessage DEF TxState
<1>3. CASE TxSingle /\ Transmit(SingleFrame)
  <2>1. tx.state = "IDLE" /\ tx'.state = "DONE" /\ tx'.msg = tx.msg
    BY <1>2, <1>3 DEF TxSingle, TxState
  <2>2. SingleFrame \in Frame
    BY <1>3, SentFrames DEF LinkInv
  <2>3. /\ toRx' = Append(toRx, SingleFrame) /\ UNCHANGED <<rx, sent, toTx>>
    BY <1>3 DEF Transmit, rxVars
  <2>4. ~Inside'
    BY <2>1 DEF Inside
  <2>5. QED
    BY <1>1, <1>3, <2>1, <2>2, <2>3, <2>4, GenuineSingle, QueueAppend
<1>4. CASE TxFirst /\ Transmit(FirstFrame)
  <2>1. /\ tx.state = "IDLE" /\ tx'.state = "WAIT_FC" /\ tx'.msg = tx.msg
        /\ tx'.sent = FfData /\ tx'.len = tx.len /\ tx.len > CfData
        /\ tx'.nextSn = tx.nextSn
    BY <1>2, <1>4 DEF TxFirst, TxState
  <2>2. FirstFrame \in Frame
    BY <1>4, SentFrames DEF LinkInv
  <2>3. /\ toRx' = Append(toRx, FirstFrame) /\ UNCHANGED <<rx, sent, toTx>>
    BY <1>4 DEF Transmit, rxVars
  <2>4. Off(0) = FfData
    BY DEF Off, FfData, CfData
  <2>5. TxNum' = 0
    BY <2>1, <2>4, OffStep DEF TxNum
  <2>6. tx'.nextSn = (0 + 1) % SnMod
    BY <2>1 DEF Stream, Sender
  <2>7. QED
    BY <1>1, <1>4, <2>1, <2>2, <2>3, <2>4, <2>5, <2>6, GenuineFirst, QueueAppend
<1>5. CASE TxConsecutive /\ Transmit(ConsecutiveFrame)
  <2>1. /\ tx.state = "SENDING" /\ tx'.msg = tx.msg /\ tx'.len = tx.len
        /\ tx'.sent = tx.sent + TxTake /\ tx'.nextSn = (tx.nextSn + 1) % SnMod
        /\ tx'.state = IF tx.sent + TxTake >= tx.len THEN "DONE" ELSE "SENDING"
    BY <1>2, <1>5 DEF TxConsecutive, TxState
  <2>2. ConsecutiveFrame \in Frame
    BY <1>5, SentFrames DEF LinkInv
  <2>3. /\ toRx' = Append(toRx, ConsecutiveFrame) /\ UNCHANGED <<rx, sent, toTx>>
    BY <1>5 DEF Transmit, rxVars
  <2>4. Inside /\ TxNum \in Nat /\ tx.sent = Off(TxNum) /\ tx.nextSn = (TxNum + 1) % SnMod
        /\ tx.len > CfData
    BY <2>1 DEF Stream, Sender, Inside
  <2>5. ASSUME Inside'
        PROVE  /\ TxNum' \in Nat /\ tx'.sent = Off(TxNum') /\ tx'.len > CfData
               /\ tx'.nextSn = (TxNum' + 1) % SnMod /\ TxNum' = TxNum + 1
    <3>1. ~(tx.sent + TxTake >= tx.len)
      BY <2>1, <2>5 DEF Inside
    <3>2. TxTake = CfData
      BY <1>2, <3>1 DEF TxTake, CfData
    <3>3. tx'.sent = Off(TxNum + 1)
      BY <2>1, <2>4, <3>2, OffStep
    <3>4. TxNum' = TxNum + 1
      BY <2>4, <3>3, OffStep DEF TxNum
    <3>5. tx'.nextSn = (TxNum + 1 + 1) % SnMod
      BY <2>1, <2>4, NextNumber
    <3>6. QED
      BY <2>1, <2>4, <3>3, <3>4, <3>5
  <2>6. /\ Genuine(sent, ConsecutiveFrame) /\ MsgOf(ConsecutiveFrame) = tx.msg
        /\ ConsecutiveFrame.pci = "CF" /\ NumOf(ConsecutiveFrame) = TxNum + 1
    BY <1>5, GenuineConsecutive
  <2>7. tx'.state \notin {"NONE", "IDLE"}
    BY <2>1
  <2>8. QED
    BY <1>1, <2>1, <2>2, <2>3, <2>4, <2>5, <2>6, <2>7, QueueAppend
<1>6. CASE /\ TxEndBlock
           /\ UNCHANGED <<rxVars, toRx, toTx, sent, delivered, abandoned, lost, foreign>>
  <2>1. /\ tx.state = "SENDING" /\ tx'.state = "WAIT_FC" /\ tx'.msg = tx.msg
        /\ tx'.len = tx.len /\ tx'.sent = tx.sent /\ tx'.nextSn = tx.nextSn
    BY <1>2, <1>6 DEF TxEndBlock, TxState
  <2>2. UNCHANGED <<rx, toRx, toTx, sent>>
    BY <1>6 DEF rxVars
  <2>3. QED
    BY <2>1, <2>2 DEF Stream, Queue, Sender, Answers, Inside, TxNum
<1>7. QED
  BY <1>3, <1>4, <1>5, <1>6 DEF Send

\* The frame at the head leaves the queue, however it goes.
LEMMA QueueTail ==
    ASSUME LinkInv, Stream, toRx # <<>>, toRx' = Tail(toRx), UNCHANGED <<tx, sent>>
    PROVE  Queue' /\ Sender'
<1> DEFINE n == Len(toRx)
<1>1. /\ toRx \in Seq(Frame) /\ n \in Nat /\ n > 0
      /\ Len(toRx') = n - 1 /\ \A k \in 1 .. n - 1 : toRx'[k] = toRx[k + 1]
  BY Begun, EmptySeq, HeadTailProperties
<1> HIDE DEF n
<1>2. \A k \in 1 .. n - 1 : k + 1 \in 1 .. n
  BY <1>1
<1>3. Queue'
  <2>1. \A k \in 1 .. n - 1 : Genuine(sent, toRx'[k])
    BY <1>1, <1>2 DEF Stream, Queue, n
  <2>2. ASSUME NEW k \in 1 .. n - 1 - 1
        PROVE  Succeeds(toRx'[k], toRx'[k + 1])
    <3>1. k + 1 \in 1 .. n - 1 /\ k \in 1 .. n - 1
      BY <1>1
    <3>2. Succeeds(toRx[k + 1], toRx[k + 1 + 1])
      BY <3>1 DEF Stream, Queue, n
    <3>3. QED
      BY <1>1, <3>1, <3>2
  <2>3. \A k \in 1 .. n - 1 :
          MsgOf(toRx'[k]) <= tx.msg /\ (tx.state = "IDLE" => MsgOf(toRx'[k]) < tx.msg)
    BY <1>1, <1>2 DEF Stream, Queue, n
  <2>4. QED
    BY <1>1, <2>1, <2>2, <2>3 DEF Queue
<1>4. Sender'
  <2>1. ASSUME Inside
        PROVE  /\ toRx' # <<>> => MsgOf(toRx'[n - 1]) = tx.msg
               /\ \A k \in 1 .. n - 1 :
                    MsgOf(toRx'[k]) = tx.msg => NumOf(toRx'[k]) + (n - 1 - k) = TxNum
    <3>1. ASSUME toRx' # <<>> PROVE MsgOf(toRx'[n - 1]) = tx.msg
      <4>1. n - 1 \in 1 .. n - 1 /\ n - 1 + 1 = n
        BY <1>1, <3>1, EmptySeq, HeadTailProperties
      <4>2. QED
        BY <1>1, <2>1, <4>1 DEF Stream, Sender, n
    <3>2. ASSUME NEW k \in 1 .. n - 1, MsgOf(toRx'[k]) = tx.msg
          PROVE  NumOf(toRx'[k]) + (n - 1 - k) = TxNum
      <4>1. toRx'[k] = toRx[k + 1] /\ k + 1 \in 1 .. n
        BY <1>1, <1>2
      <4>2. NumOf(toRx[k + 1]) + (n - (k + 1)) = TxNum
        BY <2>1, <3>2, <4>1 DEF Stream, Sender, n
      <4>3. n - (k + 1) = n - 1 - k
        BY <1>1
      <4>4. QED
        BY <4>1, <4>2, <4>3
    <3>3. QED
      BY <3>1, <3>2
  <2>2. TxNum' = TxNum /\ Inside' = Inside
    BY DEF TxNum, Inside
  <2>3. QED
    BY <1>1, <2>1, <2>2 DEF Stream, Sender
<1>5. QED
  BY <1>3, <1>4

LEMMA QueueFlowControl ==
    ASSUME LinkInv, Stream, FlowControl
    PROVE  /\ Stream'
           /\ \/ UNCHANGED tx /\ ~Inside
              \/ /\ Inside /\ tx'.state = "SENDING" /\ tx'.blockSize = rx.blockSize
                 /\ tx'.cfInBlock = 0 /\ tx'.msg = tx.msg /\ tx'.sent = tx.sent
<1> USE FrameAssumption
<1>1. /\ UNCHANGED <<rx, toRx, sent>> /\ toTx # <<>> /\ toTx' = Tail(toTx)
      /\ TxFlowControl(Head(toTx))
  BY DEF FlowControl, rxVars
<1>2. /\ Len(toTx) \in Nat /\ Len(toTx) > 0 /\ Head(toTx) = toTx[1]
      /\ Len(toTx') = Len(toTx) - 1
      /\ \A k \in 1 .. Len(toTx) - 1 : toTx'[k] = toTx[k + 1]
  BY <1>1, Begun, EmptySeq, HeadTailProperties
<1> DEFINE f == FcFrame(CTS, rx.blockSize)
<1>3. Head(toTx) = f
  BY <1>2 DEF Stream, Answers
<1>4. f.dlc = Dlc /\ f.pci = "FC" /\ f.n = CTS /\ f.bs = rx.blockSize
  BY DEF FcFrame
<1> HIDE DEF f
<1>5. Answers'
  <2>1. ASSUME NEW k \in 1 .. Len(toTx) - 1
        PROVE  toTx'[k] = FcFrame(CTS, rx.blockSize)
    BY <1>2 DEF Stream, Answers
  <2>2. QED
    BY <1>1, <1>2, <2>1 DEF Answers
<1>6. CASE ~Inside
  <2>1. UNCHANGED tx
    BY <1>1, <1>3, <1>6
       DEF TxFlowControl, TxIgnore, TxContinue, TxWait, TxAbort, FcIgnorable, Inside
  <2>2. QED
    BY <1>1, <1>5, <1>6, <2>1 DEF Stream, Queue, Sender, Inside, TxNum
<1>7. CASE Inside
  <2>1. TxContinue(f)
    BY <1>1, <1>3, <1>4, <1>7
       DEF TxFlowControl, TxIgnore, TxWait, TxAbort, FcIgnorable, Inside, CTS, WAIT
  <2>2. tx \in TxState
    BY DEF LinkInv, LinkTypeOK, TxTypeOK
  <2>3. /\ tx'.state = "SENDING" /\ tx'.blockSize = rx.blockSize
        /\ tx'.cfInBlock = 0 /\ tx'.msg = tx.msg /\ tx'.sent = tx.sent
        /\ tx'.len = tx.len /\ tx'.nextSn = tx.nextSn
    BY <1>4, <2>1, <2>2 DEF TxContinue, TxState
  <2>4. Queue'
    BY <1>1, <1>7, <2>3 DEF Stream, Queue, Inside
  <2>5. Sender'
    BY <1>1, <1>7, <2>3 DEF Stream, Sender, Inside, TxNum
  <2>6. QED
    BY <1>5, <1>7, <2>3, <2>4, <2>5 DEF Stream
<1>8. QED
  BY <1>6, <1>7

-----------------------------------------------------------------------------
(* What the receiver makes of the sender's frames. *)

\* The receiver's part of the types and bounds.
LEMMA RxNow ==
    ASSUME LinkInv
    PROVE  /\ rx \in RxState /\ rx.buf \in Seq(Byte) /\ Len(rx.buf) \in Nat
           /\ rx.total \in Nat /\ rx.blockSize \in Nat /\ rx.cfSinceFc \in Nat
           /\ rx.nextSn \in Nat /\ rx.state \in {"IDLE", "WAIT_CF"}
           /\ rx.bufferLimit \in Nat /\ rx.bufferLimit <= MaxPayload
           /\ delivered \in Seq(Seq(Byte)) /\ Len(delivered) \in Nat
           /\ rx.state = "WAIT_CF" =>
                /\ Len(rx.buf) \in FfData .. rx.total - 1
                /\ rx.blockSize # 0 => rx.cfSinceFc < rx.blockSize
<1>1. rx \in RxState /\ delivered \in Seq(Seq(Byte))
  BY DEF LinkInv, LinkTypeOK, RxTypeOK
<1>2. rx.state = "WAIT_CF" =>
        /\ Len(rx.buf) \in FfData .. rx.total - 1
        /\ rx.blockSize # 0 => rx.cfSinceFc < rx.blockSize
  BY DEF LinkInv, RxWithinBuffer
<1>3. QED
  BY <1>1, <1>2, LenProperties, FrameAssumption DEF RxState

\* The receiver has nothing: it refused what came.
Empty(r) == r.state = "IDLE" /\ r.buf = <<>>

LEMMA SingleOutcome ==
    ASSUME LinkInv, NEW f \in Frame, Genuine(sent, f), f.pci = "SF", RxFrame(f)
    PROVE  /\ rx'.blockSize = rx.blockSize /\ rx'.state = "IDLE" /\ ev' # "SEND_FC"
           /\ \/ ev' # "MESSAGE" /\ Empty(rx')
              \/ ev' = "MESSAGE" /\ rx'.buf = Payload(MsgOf(f), sent[MsgOf(f)])
<1> USE FrameAssumption
<1> DEFINE m == MsgOf(f)
<1>1. /\ m \in 1 .. Len(sent) /\ f.n = sent[m] /\ f.n <= CfData
      /\ f.dlc = Dlc /\ Carries(f, m, 0, f.n)
  BY DEF Genuine
<1>2. f.n \in 1 .. CfData /\ ValidDlc(f)
  BY <1>1, Begun DEF CfData, ValidDlc
<1>3. f.data \in Seq(Byte) /\ Len(f.data) = CfData
  BY <1>1, <1>2 DEF Frame, CfData
<1>4. RxSingle(f)
  BY <1>2
     DEF RxFrame, RxInvalidDlc, RxFirst, RxConsecutive, RxFlowControl, RxReserved
<1>5. CASE Reject("ERR_LENGTH") \/ Reject("ERR_OVERFLOW")
  BY <1>5, RxNow DEF Reject, Aborted, RxState, Empty
<1>6. CASE /\ rx' = [rx EXCEPT !.buf = SubSeq(f.data, 1, f.n), !.total = f.n,
                               !.state = "IDLE"]
           /\ ev' = "MESSAGE"
  <2> DEFINE s == SubSeq(f.data, 1, f.n)
  <2>1. s \in Seq(Byte) /\ Len(s) = f.n /\ \A k \in 1 .. f.n : s[k] = f.data[k]
    BY <1>2, <1>3, PrefixOfSeq
  <2>2. \A k \in 1 .. f.n : f.data[k] = <<m, k>>
    BY <1>1, <1>2 DEF Carries
  <2> HIDE DEF m, s
  <2>3. s = Payload(m, f.n)
    BY <2>1, <2>2, PayloadFromBytes
  <2>4. rx'.state = "IDLE" /\ rx'.buf = s /\ rx'.blockSize = rx.blockSize
    BY <1>6, RxNow DEF s, RxState
  <2>5. QED
    BY <1>1, <1>6, <2>3, <2>4 DEF m
<1>7. QED
  BY <1>4, <1>5, <1>6 DEF RxSingle

LEMMA FirstOutcome ==
    ASSUME LinkInv, NEW f \in Frame, Genuine(sent, f), f.pci = "FF", RxFrame(f)
    PROVE  /\ rx'.blockSize = rx.blockSize /\ ev' # "MESSAGE"
           /\ \/ ev' # "SEND_FC" /\ Empty(rx')
              \/ /\ ev' = "SEND_FC" /\ rx'.state = "WAIT_CF"
                 /\ rx'.buf = Payload(MsgOf(f), FfData)
                 /\ rx'.total = sent[MsgOf(f)]
                 /\ rx'.nextSn = 1 /\ rx'.cfSinceFc = 0
<1> USE FrameAssumption
<1> DEFINE m == MsgOf(f)
<1>1. m \in 1 .. Len(sent) /\ f.n = sent[m] /\ f.dlc = Dlc /\ Carries(f, m, 0, FfData)
  BY DEF Genuine
<1>2. ValidDlc(f)
  BY <1>1 DEF ValidDlc
<1>3. f.data \in Seq(Byte) /\ Len(f.data) = FfData /\ FfData \in Nat
  BY <1>1, <1>2 DEF Frame, FfData
<1>4. RxFirst(f)
  BY <1>2
     DEF RxFrame, RxInvalidDlc, RxSingle, RxConsecutive, RxFlowControl, RxReserved
<1>5. CASE Reject("ERR_LENGTH")
  BY <1>5, RxNow DEF Reject, Aborted, RxState, Empty
<1>6. CASE rx' = [Aborted(rx) EXCEPT !.fc = OVFLW] /\ ev' = "ERR_OVERFLOW"
  BY <1>6, RxNow DEF Aborted, RxState, Empty
<1>7. CASE /\ rx' = [rx EXCEPT !.buf = SubSeq(f.data, 1, FfData), !.total = f.n,
                               !.nextSn = 1, !.cfSinceFc = 0,
                               !.state = "WAIT_CF", !.fc = CTS]
           /\ ev' = "SEND_FC"
  <2> DEFINE s == SubSeq(f.data, 1, FfData)
  <2>1. s \in Seq(Byte) /\ Len(s) = FfData /\ \A k \in 1 .. FfData : s[k] = f.data[k]
    BY <1>3, PrefixOfSeq
  <2>2. \A k \in 1 .. FfData : f.data[k] = <<m, k>>
    BY <1>1, <1>3 DEF Carries
  <2> HIDE DEF m, s
  <2>3. s = Payload(m, FfData)
    BY <2>1, <2>2, PayloadFromBytes
  <2>4. /\ rx'.state = "WAIT_CF" /\ rx'.buf = s /\ rx'.blockSize = rx.blockSize
        /\ rx'.total = f.n /\ rx'.nextSn = 1 /\ rx'.cfSinceFc = 0
    BY <1>7, RxNow DEF s, RxState
  <2>5. QED
    BY <1>1, <1>7, <2>3, <2>4 DEF m
<1>8. QED
  BY <1>4, <1>5, <1>6, <1>7 DEF RxFirst

\* A consecutive frame that is refused.
LEMMA ConsecutiveRefused ==
    ASSUME LinkInv, NEW f \in Frame, Genuine(sent, f), f.pci = "CF", RxFrame(f),
           rx.state = "IDLE" \/ f.n # rx.nextSn
    PROVE  /\ rx'.blockSize = rx.blockSize /\ rx'.state = "IDLE"
           /\ ev' # "MESSAGE" /\ ev' # "SEND_FC"
           /\ (rx'.buf = rx.buf /\ rx.state = "IDLE") \/ Empty(rx')
<1> USE FrameAssumption
<1>1. ValidDlc(f)
  BY DEF Genuine, ValidDlc
<1>2. RxConsecutive(f)
  BY <1>1
     DEF RxFrame, RxInvalidDlc, RxSingle, RxFirst, RxFlowControl, RxReserved
<1>3. CASE rx.state # "WAIT_CF" /\ Ignore("ERR_UNEXPECTED")
  BY <1>3, RxNow DEF Ignore
<1>4. CASE Reject("ERR_SEQUENCE")
  BY <1>4, RxNow DEF Reject, Aborted, RxState, Empty
<1>5. QED
  BY <1>2, <1>3, <1>4, RxNow DEF RxConsecutive, InSequence

\* A consecutive frame that carries the number the receiver expects is taken,
\* whatever it carries.
LEMMA ConsecutiveTaken ==
    ASSUME LinkInv, NEW f \in Frame, Genuine(sent, f), f.pci = "CF", RxFrame(f),
           rx.state = "WAIT_CF", f.n = rx.nextSn,
           RxMsg \in 1 .. Len(sent), rx.total = sent[RxMsg],
           RxNum \in Nat, Len(rx.buf) = Off(RxNum)
    PROVE  /\ rx'.blockSize = rx.blockSize /\ RxMsg' = RxMsg
           /\ InPlace /\ MsgOf(f) = RxMsg /\ NumOf(f) = RxNum + 1 => InPlace'
           /\ \/ /\ ev' = "MESSAGE" /\ rx'.state = "IDLE"
                 /\ Len(rx'.buf) = sent[RxMsg] /\ sent[RxMsg] <= Off(RxNum + 1)
              \/ /\ sent[RxMsg] > Off(RxNum + 1)
                 /\ rx'.state = "WAIT_CF" /\ rx'.total = rx.total
                 /\ Len(rx'.buf) = Off(RxNum + 1)
                 /\ rx'.nextSn = (rx.nextSn + 1) % SnMod
                 /\ \/ /\ ev' = "SEND_FC" /\ rx'.cfSinceFc = 0
                       /\ rx.blockSize # 0 /\ rx.cfSinceFc + 1 = rx.blockSize
                    \/ /\ ev' = "NONE" /\ rx'.cfSinceFc = rx.cfSinceFc + 1
<1> USE FrameAssumption
<1> DEFINE have == Len(rx.buf)
           total == sent[RxMsg]
           share == Share(total, have)
           r == Accepted(rx, f)
           part == SubSeq(f.data, 1, share)
<1>1. ValidDlc(f) /\ InSequence(rx, f) /\ f.dlc = Dlc
  BY DEF Genuine, ValidDlc, InSequence
<1>2. f.data \in Seq(Byte) /\ Len(f.data) = CfData /\ CfData \in Nat
  BY <1>1 DEF Frame, CfData
<1>3. /\ have \in Nat /\ have >= 1 /\ total \in Nat /\ have < total
      /\ rx.total = total /\ rx.buf \in Seq(Byte)
  BY RxNow, Begun DEF FfData
<1>4. Off(RxNum + 1) = have + CfData
  BY OffStep
<1> HIDE DEF total
<1>5. /\ share = Take(rx, f) /\ share \in 0 .. CfData
      /\ have + share = IF total <= have + CfData THEN total ELSE have + CfData
  <2>1. f.dlc - 1 = CfData
    BY <1>1 DEF CfData
  <2>2. Take(rx, f) = IF total - have < CfData THEN total - have ELSE CfData
    BY <1>3, <2>1 DEF Take
  <2>3. share = IF total - have > CfData THEN CfData ELSE total - have
    BY DEF Share
  <2> HIDE DEF share, have
  <2>4. QED
    BY <1>2, <1>3, <2>2, <2>3
<1> HIDE DEF have, share
<1>6. part \in Seq(Byte) /\ Len(part) = share /\ \A k \in 1 .. share : part[k] = f.data[k]
  BY <1>2, <1>5, PrefixOfSeq
<1> HIDE DEF part
<1>7. /\ Len(rx.buf \o part) = have + share /\ rx.buf \o part \in Seq(Byte)
      /\ \A k \in 1 .. have + share :
           (rx.buf \o part)[k] = IF k <= have THEN rx.buf[k] ELSE part[k - have]
  <2>1. have = Len(rx.buf)
    BY DEF have
  <2>2. /\ Len(rx.buf \o part) = Len(rx.buf) + Len(part) /\ rx.buf \o part \in Seq(Byte)
        /\ \A k \in 1 .. Len(rx.buf) + Len(part) :
             (rx.buf \o part)[k] = IF k <= Len(rx.buf) THEN rx.buf[k]
                                   ELSE part[k - Len(rx.buf)]
    BY <1>3, <1>6, ConcatProperties
  <2>3. QED
    BY <1>6, <2>1, <2>2
<1>8. /\ r.buf = rx.buf \o part /\ r.total = rx.total /\ r.state = "WAIT_CF"
      /\ r.nextSn = (rx.nextSn + 1) % SnMod /\ r.cfSinceFc = rx.cfSinceFc + 1
      /\ r.blockSize = rx.blockSize
  BY <1>5, RxNow DEF Accepted, RxState, part
<1>9. {"fc", "state", "cfSinceFc"} \subseteq DOMAIN r
  BY RxNow DEF Accepted, RxState
<1>10. \/ Complete(r) /\ rx' = [r EXCEPT !.state = "IDLE"] /\ ev' = "MESSAGE"
       \/ /\ ~Complete(r) /\ BlockDone(r)
          /\ rx' = [r EXCEPT !.cfSinceFc = 0, !.fc = CTS] /\ ev' = "SEND_FC"
       \/ ~Complete(r) /\ ~BlockDone(r) /\ rx' = r /\ ev' = "NONE"
  BY <1>1 DEF RxFrame, RxInvalidDlc, RxSingle, RxFirst, RxConsecutive, RxFlowControl, RxReserved
<1> HIDE DEF r
<1>11. rx'.buf = rx.buf \o part /\ rx'.blockSize = rx.blockSize
  <2>1. CASE rx' = [r EXCEPT !.state = "IDLE"]
    BY <1>8, <1>9, <2>1
  <2>2. CASE rx' = [r EXCEPT !.cfSinceFc = 0, !.fc = CTS]
    BY <1>8, <1>9, <2>2
  <2>3. CASE rx' = r
    BY <1>8, <2>3
  <2>4. QED
    BY <1>10, <2>1, <2>2, <2>3
<1>12. Complete(r) <=> total <= have + CfData
  BY <1>2, <1>3, <1>5, <1>7, <1>8 DEF Complete
<1>13. RxMsg' = RxMsg
  <2>1. 1 \in 1 .. have + share /\ 1 <= have
    BY <1>3, <1>5
  <2>2. (rx.buf \o part)[1] = rx.buf[1]
    BY <1>7, <2>1
  <2>3. QED
    BY <1>11, <2>2 DEF RxMsg
<1>14. ASSUME InPlace, MsgOf(f) = RxMsg, NumOf(f) = RxNum + 1
       PROVE  InPlace'
  <2>1. /\ NumOf(f) - 1 = RxNum /\ Carries(f, RxMsg, Off(NumOf(f) - 1),
                                           Share(total, Off(NumOf(f) - 1)))
    BY <1>14 DEF Genuine, total
  <2>2. \A k \in 1 .. share : part[k] = <<RxMsg, have + k>>
    BY <1>6, <2>1 DEF Carries, share, have
  <2>3. \A k \in 1 .. have : rx.buf[k] = <<RxMsg, k>>
    BY <1>14 DEF InPlace, Payload, have
  <2>4. ASSUME NEW k \in 1 .. have + share
        PROVE  (rx.buf \o part)[k] = <<RxMsg, k>>
    <3>1. CASE k <= have
      BY <1>7, <2>3, <3>1
    <3>2. CASE k > have
      <4>1. k - have \in 1 .. share /\ have + (k - have) = k /\ ~(k <= have)
        BY <1>3, <1>5, <3>2
      <4>2. part[k - have] = <<RxMsg, have + (k - have)>>
        BY <2>2, <4>1
      <4>3. (rx.buf \o part)[k] = part[k - have]
        BY <1>7, <4>1
      <4>4. QED
        BY <4>1, <4>2, <4>3
    <3>3. k \in Int /\ have \in Int
      BY <1>3, <1>5
    <3>4. k <= have \/ k > have
      BY <3>3
    <3>5. QED
      BY <3>1, <3>2, <3>4
  <2>5. rx.buf \o part = Payload(RxMsg, Len(rx.buf \o part))
    BY <1>7, <2>4, PayloadFromBytes
  <2>6. QED
    BY <1>11, <1>13, <2>5 DEF InPlace
<1>15. CASE Complete(r)
  <2>1. ev' = "MESSAGE" /\ rx'.state = "IDLE"
    BY <1>9, <1>10, <1>15
  <2>2. Len(rx'.buf) = total /\ total <= Off(RxNum + 1)
    BY <1>4, <1>5, <1>7, <1>11, <1>12, <1>15
  <2>3. QED
    BY <1>11, <1>13, <1>14, <2>1, <2>2 DEF total
<1>16. CASE ~Complete(r)
  <2>1. /\ rx'.state = "WAIT_CF" /\ rx'.total = rx.total
        /\ rx'.nextSn = (rx.nextSn + 1) % SnMod
    <3>1. CASE rx' = [r EXCEPT !.cfSinceFc = 0, !.fc = CTS]
      BY <1>8, <1>9, <3>1
    <3>2. CASE rx' = r
      BY <1>8, <3>2
    <3>3. QED
      BY <1>10, <1>16, <3>1, <3>2
  <2>2. total > Off(RxNum + 1) /\ Len(rx'.buf) = Off(RxNum + 1)
    BY <1>2, <1>3, <1>4, <1>5, <1>7, <1>11, <1>12, <1>16
  <2>3. CASE BlockDone(r)
    <3>1. ev' = "SEND_FC" /\ rx'.cfSinceFc = 0
      BY <1>8, <1>9, <1>10, <1>16, <2>3
    <3>2. rx.blockSize # 0 /\ rx.cfSinceFc + 1 = rx.blockSize
      BY <1>8, <2>3, RxNow DEF BlockDone
    <3>3. QED
      BY <1>11, <1>13, <1>14, <2>1, <2>2, <3>1, <3>2 DEF total
  <2>4. CASE ~BlockDone(r)
    <3>1. ev' = "NONE" /\ rx'.cfSinceFc = rx.cfSinceFc + 1
      BY <1>8, <1>10, <1>16, <2>4
    <3>2. QED
      BY <1>11, <1>13, <1>14, <2>1, <2>2, <3>1 DEF total
  <2>5. QED
    BY <2>3, <2>4
<1>17. QED
  BY <1>15, <1>16

-----------------------------------------------------------------------------
(* The head of the queue, and the last message delivered. *)

\* What is known of a frame that leaves the queue, and of the one behind it.
LEMMA HeadLeaves ==
    ASSUME LinkInv, Stream, toRx # <<>>, toRx' = Tail(toRx)
    PROVE  /\ toRx[1] \in Frame /\ Head(toRx) = toRx[1] /\ Genuine(sent, toRx[1])
           /\ MsgOf(toRx[1]) \in 1 .. Len(sent) /\ NumOf(toRx[1]) \in Nat
           /\ toRx[1].pci \in {"SF", "FF", "CF"}
           /\ toRx[1].pci # "CF" => NumOf(toRx[1]) = 0
           /\ MsgOf(toRx[1]) <= tx.msg /\ (tx.state = "IDLE" => MsgOf(toRx[1]) < tx.msg)
           /\ toRx' = <<>> /\ Inside =>
                /\ MsgOf(toRx[1]) = tx.msg /\ NumOf(toRx[1]) = TxNum
                /\ toRx[1].pci # "SF"
           /\ toRx' # <<>> =>
                /\ MsgOf(toRx'[1]) \in 1 .. Len(sent) /\ NumOf(toRx'[1]) \in Nat
                /\ IF toRx'[1].pci = "CF"
                   THEN /\ MsgOf(toRx'[1]) = MsgOf(toRx[1]) /\ toRx[1].pci # "SF"
                        /\ NumOf(toRx'[1]) = NumOf(toRx[1]) + 1
                   ELSE MsgOf(toRx'[1]) > MsgOf(toRx[1])
<1> DEFINE n == Len(toRx)
           f == toRx[1]
<1>1. /\ toRx \in Seq(Frame) /\ n \in Nat /\ n > 0 /\ Head(toRx) = f /\ f \in Frame
      /\ Len(toRx') = n - 1 /\ \A k \in 1 .. n - 1 : toRx'[k] = toRx[k + 1]
  BY Begun, EmptySeq, HeadTailProperties, ElementOfSeq
<1>2. toRx' \in Seq(Frame)
  BY <1>1, HeadTailProperties
<1> HIDE DEF n
<1>3. 1 \in 1 .. n
  BY <1>1
<1>4. Genuine(sent, f)
  BY <1>3 DEF Stream, Queue, n
<1>5. /\ MsgOf(f) \in 1 .. Len(sent) /\ NumOf(f) \in Nat
      /\ f.pci \in {"SF", "FF", "CF"} /\ (f.pci # "CF" => NumOf(f) = 0)
  BY <1>4 DEF Genuine, NumOf
<1>6. MsgOf(f) <= tx.msg /\ (tx.state = "IDLE" => MsgOf(f) < tx.msg)
  BY <1>3 DEF Stream, Queue, n
<1>7. ASSUME toRx' = <<>>, Inside
      PROVE  MsgOf(f) = tx.msg /\ NumOf(f) = TxNum /\ f.pci # "SF"
  <2>1. n = 1 /\ 1 - 1 = 0
    <3>1. Len(toRx') = 0
      BY <1>7, EmptySeq
    <3>2. n - 1 = 0
      BY <1>1, <3>1
    <3>3. QED
      BY <1>1, <3>2
  <2>2. MsgOf(f) = tx.msg /\ NumOf(f) + (1 - 1) = TxNum /\ tx.len > CfData
    BY <1>3, <1>7, <2>1 DEF Stream, Sender, n
  <2>3. sent[tx.msg] = tx.len /\ tx.len \in Nat
    BY <1>7, TxMessage DEF Inside
  <2>4. CfData \in Nat
    BY FrameAssumption DEF CfData
  <2>5. f.pci # "SF"
    BY <1>4, <2>2, <2>3, <2>4 DEF Genuine
  <2>6. QED
    BY <1>5, <2>2, <2>5
<1>8. ASSUME toRx' # <<>>
      PROVE  /\ MsgOf(toRx'[1]) \in 1 .. Len(sent) /\ NumOf(toRx'[1]) \in Nat
             /\ IF toRx'[1].pci = "CF"
                THEN /\ MsgOf(toRx'[1]) = MsgOf(f) /\ f.pci # "SF"
                     /\ NumOf(toRx'[1]) = NumOf(f) + 1
                ELSE MsgOf(toRx'[1]) > MsgOf(f)
  <2> DEFINE g == toRx[2]
  <2>1. n - 1 > 0
    BY <1>1, <1>2, <1>8, EmptySeq
  <2>2. 1 \in 1 .. n - 1 /\ 2 \in 1 .. n /\ 1 + 1 = 2
    BY <1>1, <2>1
  <2>3. toRx'[1] = g /\ Genuine(sent, g) /\ Succeeds(f, g)
    BY <1>1, <2>2 DEF Stream, Queue, n
  <2> HIDE DEF g, f
  <2>4. MsgOf(g) \in 1 .. Len(sent) /\ NumOf(g) \in Nat
    BY <2>3 DEF Genuine
  <2>5. ASSUME g.pci = "CF" PROVE f.pci # "SF"
    <3>1. sent[MsgOf(g)] > CfData /\ MsgOf(g) = MsgOf(f)
      BY <2>3, <2>5 DEF Genuine, Succeeds
    <3>2. sent[MsgOf(g)] \in Nat /\ CfData \in Nat
      BY <2>4, Begun, FrameAssumption DEF CfData
    <3>3. QED
      BY <1>4, <3>1, <3>2 DEF Genuine
  <2>6. QED
    BY <2>3, <2>4, <2>5 DEF Succeeds
<1>9. QED
  BY <1>1, <1>4, <1>5, <1>6, <1>7, <1>8

\* The first byte of a message tells its number.
LEMMA IntactFirst ==
    ASSUME LinkInv, NEW m \in 1 .. Len(sent)
    PROVE  Payload(m, sent[m])[1][1] = m
<1>1. 1 \in 1 .. sent[m]
  BY Begun
<1>2. Payload(m, sent[m])[1] = <<m, 1>>
  BY <1>1 DEF Payload
<1>3. QED
  BY <1>2

LEMMA LastDelivered ==
    ASSUME LinkInv, Delivering
    PROVE  LastMsg \in 0 .. Len(sent)
<1>1. CASE delivered = <<>>
  BY <1>1, Begun DEF LastMsg
<1>2. CASE delivered # <<>>
  <2>1. Len(delivered) \in 1 .. Len(delivered)
    BY <1>2, RxNow, EmptySeq
  <2>2. Intact(delivered[Len(delivered)])
    BY <2>1 DEF Delivering
  <2>3. PICK m \in DOMAIN sent : delivered[Len(delivered)] = Payload(m, sent[m])
    BY <2>2 DEF Intact
  <2>4. m \in 1 .. Len(sent)
    BY Begun, LenProperties
  <2>5. QED
    BY <1>2, <2>3, <2>4, IntactFirst DEF LastMsg
<1>3. QED
  BY <1>1, <1>2

-----------------------------------------------------------------------------
(* The sender's steps. *)

LEMMA IntactBegin ==
    ASSUME LinkInv, Stream, IntactState, NEW len \in Lengths, Begin(len)
    PROVE  IntactState'
<1>1. /\ UNCHANGED <<rx, toRx, toTx, delivered, lost>> /\ sent' = Append(sent, len)
      /\ tx'.state = "IDLE" /\ tx'.msg = Len(sent) + 1
  BY DEF Begin, TxBegin, rxVars
<1>2. sent \in Seq(Nat) /\ Len(sent) \in Nat /\ len \in Nat
  BY Begun, LinkAssumption
<1>3. /\ Len(sent') = Len(sent) + 1 /\ sent' \in Seq(Nat)
      /\ \A i \in 1 .. Len(sent) : sent'[i] = sent[i]
  BY <1>1, <1>2, AppendProperties
<1>4. DOMAIN sent = 1 .. Len(sent) /\ DOMAIN sent' = 1 .. Len(sent) + 1
  BY <1>2, <1>3, LenProperties
<1>5. \/ tx.state \in {"NONE", "DONE", "ABORTED"} /\ abandoned' = abandoned
      \/ abandoned' # {}
  BY DEF Begin
<1>6. ASSUME OneFault' PROVE OneFault
  BY <1>1, <1>5, <1>6 DEF OneFault
<1>7. ASSUME OneFault' PROVE Receiving'
  <2>1. Receiving
    BY <1>6, <1>7 DEF IntactState
  <2>2. ~Inside'
    BY <1>1 DEF Inside
  <2>3. RxMsg' = RxMsg /\ RxNum' = RxNum /\ InPlace' = InPlace
    BY <1>1 DEF RxMsg, RxNum, InPlace
  <2>4. ASSUME rx.state = "WAIT_CF", toRx # <<>>, toRx[1].pci = "CF"
        PROVE  Ahead(NumOf(toRx[1]) - 1)'
    BY <1>1, <2>1, <2>3, <2>4 DEF Receiving, Ahead
  <2>5. rx.state = "WAIT_CF" =>
          RxMsg \in 1 .. Len(sent) /\ RxMsg < Len(sent) + 1 /\ sent'[RxMsg] = sent[RxMsg]
    BY <1>2, <1>3, <2>1 DEF Receiving
  <2>6. QED
    BY <1>1, <1>2, <1>3, <2>1, <2>2, <2>3, <2>4, <2>5 DEF Receiving
<1>8. ASSUME OneFault' PROVE Delivering'
  <2>1. Delivering
    BY <1>6, <1>8 DEF IntactState
  <2>2. LastMsg' = LastMsg /\ RxMsg' = RxMsg
    BY <1>1 DEF LastMsg, RxMsg
  <2>3. LastMsg < Len(sent) + 1 /\ LastMsg <= Len(sent) + 1
    BY <1>2, <2>1, LastDelivered
  <2>4. ASSUME NEW k \in 1 .. Len(delivered)
        PROVE  Intact(delivered[k])'
    <3>1. PICK m \in DOMAIN sent : delivered[k] = Payload(m, sent[m])
      BY <2>1 DEF Delivering, Intact
    <3>2. m \in DOMAIN sent' /\ delivered'[k] = Payload(m, sent'[m])
      BY <1>1, <1>2, <1>3, <1>4, <3>1
    <3>3. QED
      BY <1>1, <3>2 DEF Intact
  <2>5. QED
    BY <1>1, <2>1, <2>2, <2>3, <2>4 DEF Delivering
<1>9. ASSUME abandoned' = {} PROVE Patient'
  <2>1. Patient /\ abandoned = {}
    BY <1>5, <1>9 DEF IntactState
  <2>2. tx.state \in {"NONE", "DONE"}
    BY <1>5, <1>9, <2>1 DEF Patient
  <2>3. toTx = <<>> /\ \A k \in 1 .. Len(toRx) : toRx[k].pci # "FF"
    BY <2>1, <2>2 DEF Patient, TxStopped
  <2>4. Receiving
    BY <2>1 DEF IntactState, OneFault
  <2>5. RxMsg' = RxMsg /\ RxNum' = RxNum /\ ~Inside /\ ~Inside'
    BY <1>1, <2>2 DEF RxMsg, RxNum, Inside
  <2>6. rx.state = "WAIT_CF" => sent'[RxMsg] = sent[RxMsg]
    BY <1>3, <2>4 DEF Receiving
  <2>7. QED
    BY <1>1, <2>1, <2>3, <2>5, <2>6 DEF Patient
<1>10. QED
  BY <1>7, <1>8, <1>9 DEF IntactState

\* A frame joins the queue.
LEMMA IntactAppend ==
    ASSUME LinkInv, Stream, IntactState, NEW f \in Frame, toRx' = Append(toRx, f),
           UNCHANGED <<rx, sent, toTx, delivered, lost, abandoned>>, tx'.msg = tx.msg,
           tx.state # "NONE", tx'.state \notin {"NONE", "IDLE"}, MsgOf(f) = tx.msg,
           f.pci = "CF" => tx.state = "SENDING" /\ NumOf(f) = TxNum + 1,
           f.pci # "CF" => tx.state = "IDLE"
    PROVE  OneFault' => Receiving' /\ Delivering'
<1> SUFFICES ASSUME OneFault' PROVE Receiving' /\ Delivering'
  OBVIOUS
<1>1. Receiving /\ Delivering
  BY DEF IntactState, OneFault
<1>2. toRx \in Seq(Frame) /\ Len(toRx) \in Nat
  BY Begun
<1>3. /\ toRx' # <<>>
      /\ IF toRx = <<>> THEN toRx'[1] = f ELSE toRx'[1] = toRx[1]
  <2>1. /\ Len(toRx') = Len(toRx) + 1 /\ toRx'[Len(toRx) + 1] = f
        /\ \A k \in 1 .. Len(toRx) : toRx'[k] = toRx[k]
    BY <1>2, AppendProperties
  <2>2. toRx' # <<>>
    BY <1>2, <2>1, EmptySeq
  <2>3. CASE toRx = <<>>
    BY <2>1, <2>2, <2>3, EmptySeq
  <2>4. CASE toRx # <<>>
    <3>1. 1 \in 1 .. Len(toRx)
      BY <1>2, <2>4, EmptySeq
    <3>2. QED
      BY <2>1, <2>2, <2>4, <3>1
  <2>5. QED
    BY <2>3, <2>4
<1>4. RxMsg' = RxMsg /\ RxNum' = RxNum /\ InPlace' = InPlace /\ LastMsg' = LastMsg
  BY DEF RxMsg, RxNum, InPlace, LastMsg
<1>5. tx.msg \in Nat
  BY TxMessage
<1>6. ASSUME rx.state = "WAIT_CF"
      PROVE  IF toRx'[1].pci = "CF"
             THEN MsgOf(toRx'[1]) = RxMsg /\ Ahead(NumOf(toRx[1]) - 1)'
             ELSE MsgOf(toRx'[1]) > RxMsg
  <2>1. CASE toRx # <<>>
    BY <1>1, <1>3, <1>4, <1>6, <2>1 DEF Receiving, Ahead
  <2>2. CASE toRx = <<>> /\ f.pci = "CF"
    <3>1. Inside /\ TxNum \in Nat
      BY <2>2 DEF Inside, Stream, Sender
    <3>2. tx.msg = RxMsg /\ Ahead(TxNum)
      BY <1>1, <1>6, <2>2, <3>1 DEF Receiving
    <3>3. NumOf(f) - 1 = TxNum
      BY <2>2, <3>1
    <3>4. QED
      BY <1>3, <1>4, <2>2, <3>2, <3>3 DEF Ahead
  <2>3. CASE toRx = <<>> /\ f.pci # "CF"
    BY <1>1, <1>3, <1>6, <2>3 DEF Receiving
  <2>4. QED
    BY <2>1, <2>2, <2>3
<1>7. Receiving'
  BY <1>1, <1>3, <1>4, <1>6 DEF Receiving
<1>8. LastMsg <= MsgOf(toRx'[1]) /\ (toRx'[1].pci # "CF" => LastMsg < MsgOf(toRx'[1]))
  BY <1>1, <1>3 DEF Delivering
<1>9. Delivering'
  BY <1>1, <1>3, <1>4, <1>8 DEF Delivering, Intact
<1>10. QED
  BY <1>7, <1>9

\* The first frames among those under way when one joins them.
LEMMA FirstsAppend ==
    ASSUME LinkInv, NEW f \in Frame, toRx' = Append(toRx, f),
           \A k \in 1 .. Len(toRx) : toRx[k].pci # "FF"
    PROVE  \A k \in 1 .. Len(toRx') : toRx'[k].pci = "FF" => k = Len(toRx') /\ f.pci = "FF"
<1>1. toRx \in Seq(Frame) /\ Len(toRx) \in Nat
  BY Begun
<1>2. /\ Len(toRx') = Len(toRx) + 1 /\ toRx'[Len(toRx) + 1] = f
      /\ \A k \in 1 .. Len(toRx) : toRx'[k] = toRx[k]
  BY <1>1, AppendProperties
<1>3. TAKE k \in 1 .. Len(toRx')
<1>4. CASE k = Len(toRx) + 1
  BY <1>2, <1>4
<1>5. CASE k # Len(toRx) + 1
  <2>1. k \in 1 .. Len(toRx)
    BY <1>1, <1>2, <1>5
  <2>2. QED
    BY <1>2, <2>1
<1>6. QED
  BY <1>4, <1>5

LEMMA IntactSend ==
    ASSUME LinkInv, Stream, IntactState, Send
    PROVE  IntactState'
<1> USE FrameAssumption
<1>1. tx.state # "NONE"
  BY DEF Send, TxSingle, TxFirst, TxConsecutive, TxEndBlock
<1>2. /\ tx \in TxState /\ tx.len \in Nat /\ tx.sent \in Nat /\ tx.cfInBlock \in Nat
      /\ tx.blockSize \in Nat /\ tx.msg \in Nat
  BY <1>1, TxMessage
<1>3. /\ UNCHANGED <<rx, toTx, sent, delivered, abandoned, lost>>
      /\ RxMsg' = RxMsg /\ RxNum' = RxNum /\ InPlace' = InPlace /\ LastMsg' = LastMsg
      /\ OneFault' = OneFault
  BY DEF Send, Transmit, rxVars, RxMsg, RxNum, InPlace, LastMsg, OneFault
<1>4. ASSUME tx.state = "IDLE", abandoned = {}
      PROVE  /\ Patient /\ toTx = <<>> /\ Receiving
             /\ \A k \in 1 .. Len(toRx) : toRx[k].pci # "FF"
  BY <1>4 DEF IntactState, OneFault, Patient, TxStopped
<1>5. CASE TxSingle /\ Transmit(SingleFrame)
  <2>1. tx.state = "IDLE" /\ tx'.state = "DONE" /\ tx'.msg = tx.msg
    BY <1>2, <1>5 DEF TxSingle, TxState
  <2>2. SingleFrame \in Frame /\ toRx' = Append(toRx, SingleFrame)
    BY <1>5, SentFrames DEF LinkInv, Transmit
  <2>3. MsgOf(SingleFrame) = tx.msg /\ SingleFrame.pci = "SF"
    BY <1>5, GenuineSingle
  <2>4. OneFault' => Receiving' /\ Delivering'
    BY <1>1, <1>3, <2>1, <2>2, <2>3, IntactAppend
  <2>5. ASSUME abandoned' = {} PROVE Patient'
    <3>1. /\ Patient /\ toTx = <<>>
          /\ \A k \in 1 .. Len(toRx) : toRx[k].pci # "FF"
      BY <1>3, <1>4, <2>1, <2>5
    <3>2. \A k \in 1 .. Len(toRx') : toRx'[k].pci # "FF"
      BY <2>2, <2>3, <3>1, FirstsAppend
    <3>3. ~Inside /\ ~Inside'
      BY <2>1 DEF Inside
    <3>4. QED
      BY <1>3, <2>1, <3>1, <3>2, <3>3 DEF Patient
  <2>6. QED
    BY <2>4, <2>5 DEF IntactState
<1>6. CASE TxFirst /\ Transmit(FirstFrame)
  <2>1. tx.state = "IDLE" /\ tx'.state = "WAIT_FC" /\ tx'.msg = tx.msg
    BY <1>2, <1>6 DEF TxFirst, TxState
  <2>2. FirstFrame \in Frame /\ toRx' = Append(toRx, FirstFrame)
    BY <1>6, SentFrames DEF LinkInv, Transmit
  <2>3. MsgOf(FirstFrame) = tx.msg /\ FirstFrame.pci = "FF"
    BY <1>6, GenuineFirst
  <2>4. OneFault' => Receiving' /\ Delivering'
    BY <1>1, <1>3, <2>1, <2>2, <2>3, IntactAppend
  <2>5. ASSUME abandoned' = {} PROVE Patient'
    <3>1. /\ Patient /\ toTx = <<>> /\ Receiving
          /\ \A k \in 1 .. Len(toRx) : toRx[k].pci # "FF"
      BY <1>3, <1>4, <2>1, <2>5
    <3>2. \A k \in 1 .. Len(toRx') : toRx'[k].pci = "FF" => k = Len(toRx')
      BY <2>2, <3>1, FirstsAppend
    <3>3. ~Inside /\ (rx.state = "WAIT_CF" => tx.msg # RxMsg)
      BY <1>2, <2>1, <3>1 DEF Inside, Receiving
    <3>4. QED
      BY <1>3, <2>1, <3>1, <3>2, <3>3 DEF Patient
  <2>6. QED
    BY <2>4, <2>5 DEF IntactState
<1>7. CASE TxConsecutive /\ Transmit(ConsecutiveFrame)
  <2>1. /\ tx.state = "SENDING" /\ ~BlockSent /\ tx'.msg = tx.msg
        /\ tx'.sent = tx.sent + TxTake /\ tx'.cfInBlock = tx.cfInBlock + 1
        /\ tx'.blockSize = tx.blockSize
        /\ tx'.state = IF tx.sent + TxTake >= tx.len THEN "DONE" ELSE "SENDING"
    BY <1>2, <1>7 DEF TxConsecutive, TxState
  <2>2. ConsecutiveFrame \in Frame /\ toRx' = Append(toRx, ConsecutiveFrame)
    BY <1>7, SentFrames DEF LinkInv, Transmit
  <2>3. /\ MsgOf(ConsecutiveFrame) = tx.msg /\ ConsecutiveFrame.pci = "CF"
        /\ NumOf(ConsecutiveFrame) = TxNum + 1
    BY <1>7, GenuineConsecutive
  <2>4. OneFault' => Receiving' /\ Delivering'
    BY <1>1, <1>3, <2>1, <2>2, <2>3, IntactAppend
  <2>5. Inside /\ TxNum \in Nat /\ tx.sent = Off(TxNum)
    BY <2>1 DEF Stream, Sender, Inside
  <2>6. ASSUME abandoned' = {} PROVE Patient'
    <3>1. Patient /\ Receiving
      BY <1>3, <2>6 DEF IntactState, OneFault
    <3>2. toTx = <<>> /\ \A k \in 1 .. Len(toRx) : toRx[k].pci # "FF"
      BY <2>1, <3>1 DEF Patient, TxStopped
    <3>3. \A k \in 1 .. Len(toRx') : toRx'[k].pci # "FF"
      BY <2>2, <2>3, <3>2, FirstsAppend
    <3>4. tx.blockSize = rx.blockSize
      BY <2>1, <3>1 DEF Patient
    <3>5. ASSUME rx.state = "WAIT_CF", rx.blockSize # 0, tx.msg # RxMsg
          PROVE  sent[RxMsg] <= Off(RxNum - rx.cfSinceFc + rx.blockSize)
      BY <3>1, <3>5 DEF Patient
    <3>6. ASSUME rx.state = "WAIT_CF", rx.blockSize # 0, tx.msg = RxMsg
          PROVE  IF Inside'
                 THEN /\ TxNum' <= RxNum - rx.cfSinceFc + rx.blockSize
                      /\ TxNum' - tx'.cfInBlock = RxNum - rx.cfSinceFc
                 ELSE sent[RxMsg] <= Off(RxNum - rx.cfSinceFc + rx.blockSize)
      <4>1. TxNum - tx.cfInBlock = RxNum - rx.cfSinceFc /\ RxNum \in Nat
        BY <2>1, <2>5, <3>1, <3>6 DEF Patient, Receiving
      <4>2. tx.cfInBlock < rx.blockSize
        BY <1>2, <2>1, <3>4, <3>6, RxNow DEF BlockSent
      <4>3. TxNum + 1 <= RxNum - rx.cfSinceFc + rx.blockSize
        BY <1>2, <2>5, <4>1, <4>2, RxNow
      <4>4. CASE tx.sent + TxTake >= tx.len
        <5>1. tx.len <= tx.sent + CfData
          BY <1>2, <4>4 DEF TxTake, CfData
        <5>2. tx.len <= Off(TxNum + 1)
          BY <2>5, <5>1, OffStep
        <5>3. /\ TxNum + 1 \in Int /\ RxNum - rx.cfSinceFc + rx.blockSize \in Int
          BY <2>5, <4>1, RxNow
        <5>4. Off(TxNum + 1) <= Off(RxNum - rx.cfSinceFc + rx.blockSize)
          BY <4>3, <5>3, OffMonotone
        <5>5. Off(TxNum + 1) \in Int /\ Off(RxNum - rx.cfSinceFc + rx.blockSize) \in Int
          BY <5>3, OffStep
        <5>6. sent[RxMsg] = tx.len
          BY <1>1, <3>6, TxMessage
        <5>7. ~Inside'
          BY <2>1, <4>4 DEF Inside
        <5>8. QED
          BY <1>2, <5>2, <5>4, <5>5, <5>6, <5>7
      <4>5. CASE ~(tx.sent + TxTake >= tx.len)
        <5>1. TxTake = CfData
          BY <1>2, <4>5 DEF TxTake, CfData
        <5>2. tx'.sent = Off(TxNum + 1)
          BY <2>1, <2>5, <5>1, OffStep
        <5>3. TxNum' = TxNum + 1
          BY <2>5, <5>2, OffStep DEF TxNum
        <5>4. TxNum' - tx'.cfInBlock = TxNum - tx.cfInBlock
          BY <1>2, <2>1, <2>5, <5>3
        <5>5. Inside'
          BY <2>1, <4>5 DEF Inside
        <5>6. QED
          BY <4>1, <4>3, <5>3, <5>4, <5>5
      <4>6. QED
        BY <4>4, <4>5
    <3>7. tx'.state \in {"DONE", "SENDING"}
      BY <2>1
    <3>8. QED
      BY <1>3, <2>1, <2>5, <3>2, <3>3, <3>4, <3>5, <3>6, <3>7 DEF Patient
  <2>7. QED
    BY <2>4, <2>6 DEF IntactState
<1>8. CASE /\ TxEndBlock
           /\ UNCHANGED <<rxVars, toRx, toTx, sent, delivered, abandoned, lost, foreign>>
  <2>1. /\ tx.state = "SENDING" /\ BlockSent /\ tx'.state = "WAIT_FC"
        /\ tx'.msg = tx.msg /\ tx'.sent = tx.sent /\ toRx' = toRx
    BY <1>2, <1>8 DEF TxEndBlock, TxState
  <2>2. Inside /\ Inside' /\ TxNum' = TxNum /\ TxStopped /\ TxStopped'
    BY <2>1 DEF Inside, TxNum, TxStopped
  <2>3. ASSUME OneFault' PROVE Receiving'
    <3>1. Receiving
      BY <1>3, <2>3 DEF IntactState
    <3>2. QED
      BY <1>3, <2>1, <2>2, <3>1 DEF Receiving, Ahead
  <2>4. ASSUME OneFault' PROVE Delivering'
    <3>1. Delivering
      BY <1>3, <2>4 DEF IntactState
    <3>2. QED
      BY <1>3, <2>1, <2>2, <3>1 DEF Delivering, Intact
  <2>5. ASSUME abandoned' = {} PROVE Patient'
    <3>1. Patient
      BY <1>3, <2>5 DEF IntactState
    <3>2. QED
      BY <1>3, <2>1, <2>2, <3>1 DEF Patient
  <2>6. QED
    BY <2>3, <2>4, <2>5 DEF IntactState
<1>9. QED
  BY <1>5, <1>6, <1>7, <1>8 DEF Send

LEMMA IntactFlowControl ==
    ASSUME LinkInv, Stream, IntactState, FlowControl
    PROVE  IntactState'
<1>1. /\ UNCHANGED <<rx, toRx, sent, delivered, abandoned, lost>> /\ toTx # <<>>
      /\ toTx' = Tail(toTx)
      /\ RxMsg' = RxMsg /\ RxNum' = RxNum /\ InPlace' = InPlace /\ LastMsg' = LastMsg
      /\ OneFault' = OneFault
  BY DEF FlowControl, rxVars, RxMsg, RxNum, InPlace, LastMsg, OneFault
<1>2. \/ UNCHANGED tx /\ ~Inside
      \/ /\ Inside /\ tx'.state = "SENDING" /\ tx'.blockSize = rx.blockSize
         /\ tx'.cfInBlock = 0 /\ tx'.msg = tx.msg /\ tx'.sent = tx.sent
  BY QueueFlowControl
<1>3. /\ Inside' = Inside /\ TxNum' = TxNum /\ tx'.msg = tx.msg
      /\ tx'.state = "IDLE" <=> tx.state = "IDLE"
  BY <1>2 DEF Inside, TxNum
<1>4. ASSUME OneFault' PROVE Receiving'
  <2>1. Receiving
    BY <1>1, <1>4 DEF IntactState
  <2>2. rx.state = "WAIT_CF" /\ toRx = <<>> /\ Inside => tx.msg = RxMsg
    BY <1>1, <2>1 DEF Receiving
  <2>3. QED
    BY <1>1, <1>3, <2>1, <2>2 DEF Receiving, Ahead
<1>5. ASSUME OneFault' PROVE Delivering'
  <2>1. Delivering
    BY <1>1, <1>5 DEF IntactState
  <2>2. QED
    BY <1>1, <1>3, <2>1 DEF Delivering, Intact
<1>6. ASSUME abandoned' = {} PROVE Patient'
  <2>1. Patient /\ Receiving
    BY <1>1, <1>6 DEF IntactState, OneFault
  <2>2. /\ Len(toTx) = 1 /\ toRx = <<>> /\ TxStopped /\ rx.state = "WAIT_CF"
        /\ RxMsg = tx.msg /\ RxNum = TxNum /\ rx.cfSinceFc = 0
    BY <1>1, <2>1 DEF Patient
  <2>3. toTx' = <<>>
    <3>1. Len(toTx') = 1 - 1 /\ toTx' \in Seq(Frame)
      BY <1>1, <2>2, Begun, HeadTailProperties
    <3>2. QED
      BY <3>1, EmptySeq
  <2>4. Inside /\ tx'.state = "SENDING" /\ tx'.blockSize = rx.blockSize /\ tx'.cfInBlock = 0
    BY <1>2, <2>2 DEF TxStopped, Inside
  <2>5. TxNum \in Nat /\ RxNum - 0 + rx.blockSize >= TxNum /\ TxNum - 0 = RxNum - 0
    BY <2>2, <2>4, RxNow DEF Stream, Sender
  <2>6. \A k \in 1 .. Len(toRx) : FALSE
    BY <2>2, EmptySeq
  <2>7. QED
    BY <1>1, <1>3, <2>2, <2>3, <2>4, <2>5, <2>6 DEF Patient
<1>7. QED
  BY <1>4, <1>5, <1>6 DEF IntactState

-----------------------------------------------------------------------------
(* Losses. *)

\* The head of the queue is lost.
LEMMA IntactLoseToRx ==
    ASSUME LinkInv, Stream, Patient, Receiving, Delivering,
           toRx # <<>>, toRx' = Tail(toRx), lost' = lost + 1,
           UNCHANGED <<rx, tx, toTx, sent, delivered>>
    PROVE  Patient' /\ Receiving' /\ Delivering'
<1> DEFINE n == Len(toRx)
           f == toRx[1]
           g == toRx'[1]
<1>1. /\ toRx \in Seq(Frame) /\ n \in Nat /\ Len(toRx') = n - 1
      /\ \A k \in 1 .. n - 1 : toRx'[k] = toRx[k + 1]
  BY Begun, EmptySeq, HeadTailProperties
<1>2. /\ RxMsg' = RxMsg /\ RxNum' = RxNum /\ InPlace' = InPlace /\ LastMsg' = LastMsg
      /\ Inside' = Inside /\ TxNum' = TxNum /\ TxStopped' = TxStopped
      /\ BlockSent' = BlockSent
  BY DEF RxMsg, RxNum, InPlace, LastMsg, Inside, TxNum, TxStopped, BlockSent
<1>3. /\ MsgOf(f) \in 1 .. Len(sent) /\ NumOf(f) \in Nat /\ f.pci \in {"SF", "FF", "CF"}
      /\ MsgOf(f) <= tx.msg
      /\ toRx' = <<>> /\ Inside =>
           MsgOf(f) = tx.msg /\ NumOf(f) = TxNum /\ f.pci # "SF"
      /\ toRx' # <<>> =>
           /\ MsgOf(g) \in 1 .. Len(sent) /\ NumOf(g) \in Nat
           /\ IF g.pci = "CF"
              THEN MsgOf(g) = MsgOf(f) /\ f.pci # "SF" /\ NumOf(g) = NumOf(f) + 1
              ELSE MsgOf(g) > MsgOf(f)
  BY HeadLeaves
<1>4. lost \in Nat
  BY LinkAssumption DEF LinkInv, LinkTypeOK
<1>5. toTx = <<>>
  BY DEF Patient
<1>6. f.pci = "FF" => toRx' = <<>> /\ tx.state = "WAIT_FC"
  <2>1. SUFFICES ASSUME f.pci = "FF" PROVE toRx' = <<>> /\ tx.state = "WAIT_FC"
    OBVIOUS
  <2>2. 1 \in 1 .. n
    BY <1>1, EmptySeq
  <2>3. n = 1 /\ tx.state = "WAIT_FC"
    BY <2>1, <2>2 DEF Patient
  <2>4. Len(toRx') = 0 /\ toRx' \in Seq(Frame)
    BY <1>1, <2>3, HeadTailProperties
  <2>5. QED
    BY <2>3, <2>4, EmptySeq
<1> HIDE DEF f, g
<1>7. Receiving'
  <2>1. SUFFICES ASSUME rx.state = "WAIT_CF"
                 PROVE  /\ toRx' # <<>> =>
                             IF g.pci = "CF"
                             THEN MsgOf(g) = RxMsg /\ Ahead(NumOf(toRx[1]) - 1)'
                             ELSE MsgOf(g) > RxMsg
                        /\ toRx' = <<>> /\ Inside /\ tx.msg = RxMsg => Ahead(TxNum)'
                        /\ toRx' = <<>> /\ Inside /\ tx.state = "SENDING"
                             => tx.msg = RxMsg
    BY <1>2, <1>4, <1>5, <2>1 DEF Receiving, g
  <2>2. RxMsg \in 1 .. Len(sent) /\ RxNum \in Nat
    BY <2>1 DEF Receiving
  <2>3. IF f.pci = "CF" THEN MsgOf(f) = RxMsg /\ Ahead(NumOf(f) - 1)
        ELSE MsgOf(f) > RxMsg
    BY <2>1 DEF Receiving, f
  <2>4. ASSUME f.pci = "CF", NEW k \in Nat, k = NumOf(f)
        PROVE  k \in RxNum .. RxNum + (lost + 1) /\ k > RxNum
    <3>1. NumOf(f) - 1 \in RxNum .. RxNum + lost
      BY <2>3, <2>4 DEF Ahead
    <3>2. QED
      BY <1>3, <1>4, <2>2, <2>4, <3>1
  <2>5. ASSUME toRx' # <<>>
        PROVE  IF g.pci = "CF"
               THEN MsgOf(g) = RxMsg /\ Ahead(NumOf(toRx[1]) - 1)'
               ELSE MsgOf(g) > RxMsg
    <3>1. CASE g.pci = "CF"
      <4>1. f.pci = "CF" /\ MsgOf(g) = MsgOf(f) /\ NumOf(g) = NumOf(f) + 1
        BY <1>3, <1>6, <2>5, <3>1
      <4>2. NumOf(g) - 1 = NumOf(f)
        BY <1>3, <4>1
      <4>3. NumOf(f) \in RxNum .. RxNum + (lost + 1) /\ NumOf(f) > RxNum
        BY <1>3, <2>4, <4>1
      <4>4. Ahead(NumOf(toRx[1]) - 1)'
        BY <1>2, <4>2, <4>3 DEF Ahead, g
      <4>5. QED
        BY <2>3, <3>1, <4>1, <4>4
    <3>2. CASE g.pci # "CF"
      <4>1. MsgOf(g) > MsgOf(f) /\ MsgOf(f) >= RxMsg
        BY <1>3, <2>2, <2>3, <2>5, <3>2
      <4>2. MsgOf(g) \in Nat /\ MsgOf(f) \in Nat /\ RxMsg \in Nat
        BY <1>3, <2>2, <2>5
      <4>3. QED
        BY <3>2, <4>1, <4>2
    <3>3. QED
      BY <3>1, <3>2
  <2>6. ASSUME toRx' = <<>>, Inside, tx.msg = RxMsg
        PROVE  Ahead(TxNum)'
    <3>1. MsgOf(f) = RxMsg /\ NumOf(f) = TxNum
      BY <1>3, <2>6
    <3>2. f.pci = "CF"
      BY <2>2, <2>3, <3>1
    <3>3. TxNum \in RxNum .. RxNum + (lost + 1) /\ TxNum > RxNum
      BY <1>3, <2>4, <3>1, <3>2
    <3>4. QED
      BY <1>2, <3>3 DEF Ahead
  <2>7. ASSUME toRx' = <<>>, Inside, tx.state = "SENDING"
        PROVE  tx.msg = RxMsg
    BY <1>3, <1>6, <2>3, <2>7
  <2>8. QED
    BY <2>5, <2>6, <2>7
<1>8. Delivering'
  <2>1. LastMsg <= MsgOf(f) /\ (f.pci # "CF" => LastMsg < MsgOf(f))
    BY DEF Delivering, f
  <2>2. LastMsg \in Nat
    BY LastDelivered, Begun
  <2>3. ASSUME toRx' # <<>>
        PROVE  LastMsg <= MsgOf(g) /\ (g.pci # "CF" => LastMsg < MsgOf(g))
    <3>1. MsgOf(g) \in Nat /\ MsgOf(f) \in Nat
      BY <1>3, <2>3
    <3>2. CASE g.pci = "CF"
      BY <1>3, <2>1, <2>3, <3>2
    <3>3. CASE g.pci # "CF"
      BY <1>3, <2>1, <2>2, <2>3, <3>1, <3>3
    <3>4. QED
      BY <3>2, <3>3
  <2>4. QED
    BY <1>2, <2>3 DEF Delivering, Intact, g
<1>9. Patient'
  <2>1. ASSUME NEW k \in 1 .. n - 1, toRx'[k].pci = "FF"
        PROVE  k = n - 1 /\ tx.state = "WAIT_FC"
    <3>1. k + 1 \in 1 .. n /\ toRx[k + 1].pci = "FF"
      BY <1>1, <2>1
    <3>2. k + 1 = n /\ tx.state = "WAIT_FC"
      BY <3>1 DEF Patient
    <3>3. k \in Int
      BY <1>1
    <3>4. k = (k + 1) - 1
      BY <3>3
    <3>5. QED
      BY <3>2, <3>4
  <2>2. QED
    BY <1>1, <1>2, <1>5, <2>1 DEF Patient
<1>10. QED
  BY <1>7, <1>8, <1>9

LEMMA IntactLose ==
    ASSUME LinkInv, Stream, IntactState, Lose
    PROVE  Stream' /\ IntactState'
<1>1. lost' = lost + 1 /\ UNCHANGED <<rx, tx, sent, delivered, abandoned>> /\ lost \in Nat
  BY LinkAssumption DEF Lose, rxVars, LinkInv, LinkTypeOK
<1>2. ASSUME OneFault' PROVE abandoned = {} /\ Patient /\ Receiving /\ Delivering
  BY <1>1, <1>2 DEF OneFault, IntactState
<1>3. ASSUME abandoned = {} PROVE OneFault'
  BY <1>1, <1>3 DEF OneFault
<1>4. /\ RxMsg' = RxMsg /\ RxNum' = RxNum /\ InPlace' = InPlace /\ LastMsg' = LastMsg
      /\ Inside' = Inside /\ TxNum' = TxNum /\ TxStopped' = TxStopped
      /\ BlockSent' = BlockSent
  BY <1>1 DEF RxMsg, RxNum, InPlace, LastMsg, Inside, TxNum, TxStopped, BlockSent
<1>5. CASE toRx # <<>> /\ toRx' = Tail(toRx) /\ UNCHANGED toTx
  <2>1. Stream'
    BY <1>1, <1>5, QueueTail DEF Stream, Answers
  <2>2. ASSUME OneFault' PROVE Patient' /\ Receiving' /\ Delivering'
    BY <1>1, <1>2, <1>5, <2>2, IntactLoseToRx
  <2>3. QED
    BY <1>1, <1>3, <2>1, <2>2 DEF IntactState
<1>6. CASE toTx # <<>> /\ toTx' = Tail(toTx) /\ UNCHANGED toRx
  <2>1. /\ Len(toTx') = Len(toTx) - 1 /\ toTx' \in Seq(Frame) /\ Len(toTx) \in Nat
        /\ \A k \in 1 .. Len(toTx) - 1 : toTx'[k] = toTx[k + 1]
    BY <1>6, Begun, HeadTailProperties
  <2>2. Answers'
    <3>1. ASSUME NEW k \in 1 .. Len(toTx) - 1
          PROVE  toTx'[k] = FcFrame(CTS, rx.blockSize)
      BY <2>1 DEF Stream, Answers
    <3>2. QED
      BY <1>1, <2>1, <3>1 DEF Answers
  <2>3. Queue' /\ Sender'
    BY <1>1, <1>4, <1>6 DEF Stream, Queue, Sender
  <2>4. ASSUME OneFault' PROVE Patient' /\ Receiving' /\ Delivering'
    <3>1. Patient /\ Receiving /\ Delivering
      BY <1>2, <2>4
    <3>2. toTx' = <<>> /\ toRx = <<>>
      BY <1>6, <2>1, <3>1, EmptySeq DEF Patient
    <3>3. Patient'
      BY <1>1, <1>4, <1>6, <3>1, <3>2 DEF Patient
    <3>4. rx.state = "WAIT_CF" /\ Inside /\ tx.msg = RxMsg => Ahead(TxNum)'
      <4>1. SUFFICES ASSUME rx.state = "WAIT_CF", Inside, tx.msg = RxMsg
                     PROVE  Ahead(TxNum)'
        OBVIOUS
      <4>2. Ahead(TxNum) /\ RxNum \in Nat
        BY <3>1, <3>2, <4>1 DEF Receiving
      <4>3. QED
        BY <1>1, <1>4, <4>2 DEF Ahead
    <3>5. Receiving'
      BY <1>1, <1>4, <1>6, <3>1, <3>2, <3>4 DEF Receiving
    <3>6. Delivering'
      BY <1>1, <1>4, <1>6, <3>1 DEF Delivering, Intact
    <3>7. QED
      BY <3>3, <3>5, <3>6
  <2>5. QED
    BY <1>1, <1>3, <2>2, <2>3, <2>4 DEF IntactState, Stream
<1>7. QED
  BY <1>5, <1>6 DEF Lose

-----------------------------------------------------------------------------
(* The receiver's steps. *)

\* What the caller makes of the receiver's answer.
LEMMA Served ==
    ASSUME LinkInv, Stream, Receive
    PROVE  /\ toRx # <<>> /\ toRx' = Tail(toRx) /\ RxFrame(toRx[1])
           /\ UNCHANGED <<tx, sent, abandoned, lost, foreign>>
           /\ Inside' = Inside /\ TxNum' = TxNum /\ OneFault' = OneFault
           /\ ev' # "MESSAGE" => delivered' = delivered
           /\ ev' = "MESSAGE" => delivered' = Append(delivered, rx'.buf)
           /\ ev' # "SEND_FC" => toTx' = toTx
           /\ ev' = "SEND_FC" => toTx' = Append(toTx, FcFrame(CTS, rx'.blockSize))
<1>1. /\ toRx # <<>> /\ toRx' = Tail(toRx) /\ RxFrame(Head(toRx)) /\ Serve
      /\ UNCHANGED <<tx, sent, abandoned, lost, foreign>>
  BY DEF Receive
<1>2. Head(toRx) = toRx[1]
  BY <1>1, HeadLeaves
<1>3. ev' = "SEND_FC" => rx'.fc = CTS
  BY <1>1, SendFcIsCts DEF LinkInv, LinkTypeOK
<1>4. Inside' = Inside /\ TxNum' = TxNum /\ OneFault' = OneFault
  BY <1>1 DEF Inside, TxNum, OneFault
<1>5. QED
  BY <1>1, <1>2, <1>3, <1>4 DEF Serve

\* Every frame leaves the receiver's policy alone.
LEMMA BlockSizeKept ==
    ASSUME LinkInv, NEW f, RxFrame(f)
    PROVE  rx'.blockSize = rx.blockSize
<1>1. ASSUME NEW e, Reject(e) PROVE rx'.blockSize = rx.blockSize
  BY <1>1, RxNow DEF Reject, Aborted, RxState
<1>2. ASSUME NEW e, Ignore(e) PROVE rx'.blockSize = rx.blockSize
  BY <1>2 DEF Ignore
<1>3. CASE RxFirst(f)
  BY <1>1, <1>3, RxNow DEF RxFirst, Aborted, RxState
<1>4. CASE RxSingle(f)
  BY <1>1, <1>4, RxNow DEF RxSingle, RxState
<1>5. CASE RxConsecutive(f)
  <2> DEFINE r == Accepted(rx, f)
  <2>1. r.blockSize = rx.blockSize /\ {"fc", "state", "cfSinceFc"} \subseteq DOMAIN r
    BY RxNow DEF Accepted, RxState
  <2>2. CASE rx' = [r EXCEPT !.state = "IDLE"]
    BY <2>1, <2>2
  <2>3. CASE rx' = [r EXCEPT !.cfSinceFc = 0, !.fc = CTS]
    BY <2>1, <2>3
  <2>4. CASE rx' = r
    BY <2>1, <2>4
  <2>5. QED
    BY <1>1, <1>2, <1>5, <2>2, <2>3, <2>4 DEF RxConsecutive
<1>6. QED
  BY <1>2, <1>3, <1>4, <1>5
     DEF RxFrame, RxInvalidDlc, RxFlowControl, RxReserved

LEMMA StreamReceive ==
    ASSUME LinkInv, Stream, Receive
    PROVE  Stream'
<1>1. rx'.blockSize = rx.blockSize
  BY Served, BlockSizeKept
<1>2. Queue' /\ Sender'
  BY Served, QueueTail
<1>3. toTx \in Seq(Frame) /\ FcFrame(CTS, rx.blockSize) \in Frame
  <2>1. <<>> \in Seq(Byte) /\ Len(<<>>) = 0
    BY EmptySeq
  <2>2. QED
    BY <2>1, Begun, RxNow, FrameAssumption
       DEF FcFrame, Frame, Pci, CTS, ValidDlc
<1>4. Answers'
  <2>1. CASE ev' # "SEND_FC"
    BY <1>1, <2>1, Served DEF Stream, Answers
  <2>2. CASE ev' = "SEND_FC"
    <3>1. /\ Len(toTx') = Len(toTx) + 1 /\ Len(toTx) \in Nat
          /\ toTx'[Len(toTx) + 1] = FcFrame(CTS, rx.blockSize)
          /\ \A k \in 1 .. Len(toTx) : toTx'[k] = toTx[k]
      BY <1>1, <1>3, <2>2, Served, Begun, AppendProperties
    <3>2. ASSUME NEW k \in 1 .. Len(toTx) + 1
          PROVE  toTx'[k] = FcFrame(CTS, rx.blockSize)
      BY <3>1 DEF Stream, Answers
    <3>3. QED
      BY <1>1, <3>1, <3>2 DEF Answers
  <2>3. QED
    BY <2>1, <2>2
<1>5. QED
  BY <1>2, <1>4 DEF Stream

\* A message comes out, later than the others.
LEMMA DeliveringMore ==
    ASSUME LinkInv, LinkInv', Stream, Receive, Delivering,
           NEW m \in 1 .. Len(sent), ev' = "MESSAGE", rx'.state = "IDLE",
           rx'.buf = Payload(m, sent[m]), LastMsg < m,
           m <= tx.msg, tx.state = "IDLE" => m < tx.msg, m = MsgOf(toRx[1])
    PROVE  Delivering'
<1> DEFINE n == Len(delivered)
           b == rx'.buf
           g == toRx'[1]
<1>1. delivered' = Append(delivered, b) /\ UNCHANGED <<tx, sent>>
  BY Served
<1>2. b \in Seq(Byte) /\ delivered \in Seq(Seq(Byte)) /\ n \in Nat
  BY RxNow DEF LinkInv, LinkTypeOK, RxTypeOK, RxState
<1>3. /\ Len(delivered') = n + 1 /\ delivered'[n + 1] = b
      /\ \A k \in 1 .. n : delivered'[k] = delivered[k]
      /\ delivered' # <<>>
  BY <1>1, <1>2, AppendProperties, EmptySeq
<1>4. b[1][1] = m
  BY IntactFirst
<1>5. m \in DOMAIN sent
  BY Begun, LenProperties
<1> HIDE DEF n, b, g
<1>6. LastMsg' = m
  BY <1>3, <1>4 DEF LastMsg
<1>7. ASSUME NEW k \in 1 .. n + 1
      PROVE  Intact(delivered[k])'
  <2>1. CASE k = n + 1
    BY <1>1, <1>3, <1>5, <2>1 DEF Intact, b
  <2>2. CASE k # n + 1
    <3>1. k \in 1 .. n
      BY <1>2, <2>2
    <3>2. QED
      BY <1>1, <1>3, <3>1 DEF Delivering, Intact, n
  <2>3. QED
    BY <2>1, <2>2
<1>8. ASSUME NEW j \in 1 .. n
      PROVE  delivered[j][1][1] < m
  <2>1. delivered # <<>> /\ n \in 1 .. n
    BY <1>2, EmptySeq DEF n
  <2>2. LastMsg = delivered[n][1][1]
    BY <2>1 DEF LastMsg, n
  <2>3. CASE j = n
    BY <2>2, <2>3
  <2>4. CASE j # n
    <3>1. j < n
      BY <1>2, <2>4
    <3>2. delivered[j][1][1] < LastMsg
      BY <2>1, <2>2, <3>1 DEF Delivering, n
    <3>3. LastMsg \in Nat /\ m \in Nat
      BY LastDelivered, Begun
    <3>4. delivered[j][1][1] \in Nat
      <4>1. PICK i \in DOMAIN sent : delivered[j] = Payload(i, sent[i])
        BY DEF Delivering, Intact, n
      <4>2. i \in 1 .. Len(sent)
        BY Begun, LenProperties
      <4>3. QED
        BY <4>1, <4>2, IntactFirst, Begun
    <3>5. QED
      BY <3>2, <3>3, <3>4
  <2>5. QED
    BY <2>3, <2>4
<1>9. ASSUME NEW j \in 1 .. n + 1, NEW k \in 1 .. n + 1, j < k
      PROVE  delivered'[j][1][1] < delivered'[k][1][1]
  <2>1. j \in 1 .. n
    BY <1>2, <1>9
  <2>2. CASE k = n + 1
    BY <1>3, <1>4, <1>8, <2>1, <2>2
  <2>3. CASE k # n + 1
    <3>1. k \in 1 .. n
      BY <1>2, <2>3
    <3>2. QED
      BY <1>3, <1>9, <2>1, <3>1 DEF Delivering, n
  <2>4. QED
    BY <2>2, <2>3
<1>10. toRx' # <<>> => m <= MsgOf(g) /\ (g.pci # "CF" => m < MsgOf(g))
  BY Served, HeadLeaves DEF g
<1>11. QED
  BY <1>1, <1>3, <1>6, <1>7, <1>9, <1>10 DEF Delivering, g

\* Nothing comes out.
LEMMA DeliveringSame ==
    ASSUME LinkInv, Stream, Receive, Delivering, ev' # "MESSAGE",
           rx'.state = "WAIT_CF" => LastMsg < RxMsg'
    PROVE  Delivering'
<1> DEFINE f == toRx[1]
           g == toRx'[1]
<1>1. delivered' = delivered /\ UNCHANGED <<tx, sent>> /\ LastMsg' = LastMsg
  BY Served DEF LastMsg
<1>2. LastMsg <= MsgOf(f) /\ (f.pci # "CF" => LastMsg < MsgOf(f))
  BY Served DEF Delivering
<1>3. LastMsg \in Nat
  BY LastDelivered, Begun
<1>4. ASSUME toRx' # <<>>
      PROVE  LastMsg <= MsgOf(g) /\ (g.pci # "CF" => LastMsg < MsgOf(g))
  <2>1. /\ MsgOf(g) \in 1 .. Len(sent) /\ MsgOf(f) \in 1 .. Len(sent)
        /\ IF g.pci = "CF" THEN MsgOf(g) = MsgOf(f) ELSE MsgOf(g) > MsgOf(f)
    BY <1>4, Served, HeadLeaves
  <2>2. MsgOf(g) \in Nat /\ MsgOf(f) \in Nat
    BY <2>1
  <2>3. CASE g.pci = "CF"
    BY <1>2, <2>1, <2>3
  <2>4. CASE g.pci # "CF"
    BY <1>2, <1>3, <2>1, <2>2, <2>4
  <2>5. QED
    BY <2>3, <2>4
<1> HIDE DEF g
<1>5. QED
  BY <1>1, <1>4 DEF Delivering, Intact, g

\* A step of the receiver that answers nothing keeps the sender's patience.
LEMMA PatientSame ==
    ASSUME LinkInv, Stream, Receive, Patient, ev' # "SEND_FC",
           rx'.state = "WAIT_CF" =>
             /\ rx.state = "WAIT_CF" /\ RxMsg' = RxMsg
             /\ RxNum' - rx'.cfSinceFc = RxNum - rx.cfSinceFc
    PROVE  Patient'
<1> DEFINE n == Len(toRx)
<1>1. /\ toRx # <<>> /\ toRx' = Tail(toRx) /\ UNCHANGED <<tx, sent, toTx>>
      /\ rx'.blockSize = rx.blockSize /\ Inside' = Inside /\ TxNum' = TxNum
  BY Served, BlockSizeKept
<1>2. /\ n \in Nat /\ Len(toRx') = n - 1
      /\ \A k \in 1 .. n - 1 : toRx'[k] = toRx[k + 1]
  BY <1>1, Begun, EmptySeq, HeadTailProperties
<1> HIDE DEF n
<1>3. toTx = <<>> /\ toTx' = <<>>
  BY <1>1 DEF Patient
<1>4. ASSUME NEW k \in 1 .. n - 1, toRx'[k].pci = "FF"
      PROVE  k = n - 1 /\ tx.state = "WAIT_FC"
  <2>1. k + 1 \in 1 .. n /\ toRx[k + 1].pci = "FF"
    BY <1>2, <1>4
  <2>2. k + 1 = n /\ tx.state = "WAIT_FC"
    BY <2>1 DEF Patient, n
  <2>3. QED
    BY <1>2, <2>2
<1>5. BlockSent' = BlockSent
  BY <1>1 DEF BlockSent
<1>6. QED
  BY <1>1, <1>2, <1>3, <1>4, <1>5 DEF Patient

\* It answers when it has had all that was sent.
LEMMA PatientAnswered ==
    ASSUME LinkInv, Stream, Receive, Patient, ev' = "SEND_FC", toRx' = <<>>,
           Inside, TxStopped, rx'.state = "WAIT_CF", RxMsg' = tx.msg, RxNum' = TxNum,
           rx'.cfSinceFc = 0
    PROVE  Patient'
<1>1. /\ toRx # <<>> /\ toRx' = Tail(toRx) /\ UNCHANGED <<tx, sent>>
      /\ toTx' = Append(toTx, FcFrame(CTS, rx'.blockSize))
      /\ rx'.blockSize = rx.blockSize /\ Inside' = Inside /\ TxNum' = TxNum
  BY Served, BlockSizeKept
<1>2. toTx = <<>>
  BY <1>1 DEF Patient
<1>3. Len(toTx') = 1
  BY <1>1, <1>2
<1>4. Len(toRx') = 0
  BY EmptySeq
<1>5. TxNum \in Nat /\ rx.blockSize \in Nat /\ TxNum <= TxNum - 0 + rx.blockSize
  BY RxNow DEF Stream, Sender
<1>6. TxStopped' /\ BlockSent' = BlockSent
  BY <1>1 DEF TxStopped, BlockSent
<1>7. tx.state = "SENDING" => BlockSent
  BY DEF TxStopped
<1>8. \A k \in 1 .. Len(toRx') : FALSE
  BY <1>4
<1>9. QED
  BY <1>1, <1>3, <1>5, <1>6, <1>7, <1>8 DEF Patient

\* The receiver is left with nothing, or with a whole message.
LEMMA IntactIdle ==
    ASSUME LinkInv, LinkInv', Stream, Receive, IntactState, StoredInPlace,
           rx'.state = "IDLE", ev' # "SEND_FC",
           \/ ev' # "MESSAGE" /\ (Empty(rx') \/ rx'.buf = rx.buf)
           \/ ev' = "MESSAGE" /\
                (OneFault => \E m \in 1 .. Len(sent) :
                   /\ rx'.buf = Payload(m, sent[m]) /\ LastMsg < m
                   /\ m <= tx.msg /\ (tx.state = "IDLE" => m < tx.msg)
                   /\ m = MsgOf(toRx[1]))
    PROVE  IntactState' /\ StoredInPlace'
<1>1. UNCHANGED <<tx, sent, abandoned, lost, foreign>> /\ OneFault' = OneFault
  BY Served
<1>2. abandoned' = {} => Patient'
  BY <1>1, PatientSame DEF IntactState
<1>3. OneFault' => Receiving'
  BY DEF Receiving
<1>4. ASSUME OneFault PROVE Delivering'
  <2>1. Delivering
    BY <1>4 DEF IntactState
  <2>2. CASE ev' # "MESSAGE"
    BY <2>1, <2>2, DeliveringSame
  <2>3. CASE ev' = "MESSAGE"
    <3>1. PICK m \in 1 .. Len(sent) :
             /\ rx'.buf = Payload(m, sent[m]) /\ LastMsg < m
             /\ m <= tx.msg /\ (tx.state = "IDLE" => m < tx.msg)
             /\ m = MsgOf(toRx[1])
      BY <1>4, <2>3
    <3>2. QED
      BY <2>1, <2>3, <3>1, DeliveringMore
  <2>4. QED
    BY <2>2, <2>3
<1>5. StoredInPlace'
  <2>1. SUFFICES ASSUME foreign = 0, lost < SnMod, abandoned = {}
                 PROVE  \E m \in 0 .. Len(sent) : rx'.buf = Payload(m, Len(rx'.buf))
    BY <1>1 DEF StoredInPlace
  <2>2. CASE Empty(rx')
    <3>1. rx'.buf = <<>> /\ Len(<<>>) = 0 /\ 0 \in 0 .. Len(sent)
      BY <2>2, EmptySeq, Begun DEF Empty
    <3>2. Payload(0, 0) = <<>>
      <4>1. \A k \in 1 .. Len(<<>>) : <<>>[k] = <<0, k>>
        BY <3>1
      <4>2. <<>> \in Seq(Byte)
        BY EmptySeq
      <4>3. QED
        BY <3>1, <4>1, <4>2, PayloadFromBytes
    <3>3. QED
      BY <3>1, <3>2
  <2>3. CASE rx'.buf = rx.buf
    BY <2>1, <2>3 DEF StoredInPlace
  <2>4. CASE ev' = "MESSAGE"
    <3>1. PICK m \in 1 .. Len(sent) : rx'.buf = Payload(m, sent[m])
      BY <2>1, <2>4 DEF OneFault
    <3>2. Len(Payload(m, sent[m])) = sent[m]
      <4>1. sent[m] \in Nat /\ Payload(m, sent[m]) = [k \in 1 .. sent[m] |-> <<m, k>>]
        BY Begun DEF Payload
      <4>2. Payload(m, sent[m]) \in Seq(Byte)
        BY <3>1, RxNow DEF LinkInv, LinkTypeOK, RxTypeOK, RxState
      <4>3. QED
        BY <4>1, <4>2, LenProperties
    <3>3. m \in 0 .. Len(sent)
      OBVIOUS
    <3>4. QED
      BY <3>1, <3>2, <3>3
  <2>5. QED
    BY <2>2, <2>3, <2>4
<1>6. QED
  BY <1>1, <1>2, <1>3, <1>4, <1>5 DEF IntactState

LEMMA ReceivedSingle ==
    ASSUME LinkInv, LinkInv', Stream, Receive, IntactState, StoredInPlace,
           toRx[1].pci = "SF"
    PROVE  IntactState' /\ StoredInPlace'
<1> DEFINE m == MsgOf(toRx[1])
<1>1. /\ toRx[1] \in Frame /\ Genuine(sent, toRx[1]) /\ RxFrame(toRx[1])
      /\ m \in 1 .. Len(sent) /\ m <= tx.msg /\ (tx.state = "IDLE" => m < tx.msg)
  BY Served, HeadLeaves
<1>2. /\ rx'.state = "IDLE" /\ ev' # "SEND_FC"
      /\ \/ ev' # "MESSAGE" /\ Empty(rx')
         \/ ev' = "MESSAGE" /\ rx'.buf = Payload(m, sent[m])
  BY <1>1, SingleOutcome
<1>3. OneFault => LastMsg < m
  BY Served DEF IntactState, Delivering
<1>4. QED
  BY <1>1, <1>2, <1>3, IntactIdle

LEMMA ReceivedFirst ==
    ASSUME LinkInv, LinkInv', Stream, Receive, IntactState, StoredInPlace,
           toRx[1].pci = "FF"
    PROVE  IntactState' /\ StoredInPlace'
<1> USE FrameAssumption
<1> DEFINE f == toRx[1]
           g == toRx'[1]
           m == MsgOf(f)
<1>1. /\ f \in Frame /\ Genuine(sent, f) /\ RxFrame(f) /\ toRx # <<>>
      /\ m \in 1 .. Len(sent) /\ m <= tx.msg /\ (tx.state = "IDLE" => m < tx.msg)
      /\ NumOf(f) = 0
      /\ toRx' = <<>> /\ Inside => m = tx.msg /\ NumOf(f) = TxNum
      /\ toRx' # <<>> =>
           /\ NumOf(g) \in Nat
           /\ IF g.pci = "CF" THEN MsgOf(g) = m /\ NumOf(g) = NumOf(f) + 1
                              ELSE MsgOf(g) > m
  BY Served, HeadLeaves
<1>2. /\ UNCHANGED <<tx, sent, abandoned, lost, foreign>> /\ OneFault' = OneFault
      /\ Inside' = Inside /\ TxNum' = TxNum /\ toRx' = Tail(toRx)
  BY Served
<1>3. CASE ev' # "SEND_FC" /\ Empty(rx')
  <2>1. ev' # "MESSAGE" /\ rx'.state = "IDLE"
    BY <1>1, <1>3, FirstOutcome DEF Empty
  <2>2. QED
    BY <1>3, <2>1, IntactIdle
<1>4. CASE /\ ev' = "SEND_FC" /\ rx'.state = "WAIT_CF" /\ rx'.buf = Payload(m, FfData)
           /\ rx'.total = sent[m] /\ rx'.nextSn = 1 /\ rx'.cfSinceFc = 0
  <2>1. FfData \in Nat /\ 1 \in 1 .. FfData
    BY DEF FfData
  <2>2. rx'.buf[1] = <<m, 1>>
    BY <1>4, <2>1 DEF Payload
  <2>3. Len(rx'.buf) = FfData
    <3>1. rx'.buf \in Seq(Byte)
      BY RxNow DEF LinkInv, LinkTypeOK, RxTypeOK, RxState
    <3>2. QED
      BY <1>4, <2>1, <3>1, LenProperties DEF Payload
  <2>4. Off(0) = FfData
    BY DEF Off, FfData, CfData
  <2>5. RxMsg' = m /\ RxNum' = 0 /\ InPlace'
    <3>1. RxMsg' = m
      BY <2>2 DEF RxMsg
    <3>2. CfsIn(FfData) = 0
      BY <2>4, OffStep
    <3>3. RxNum' = 0
      BY <2>3, <3>2 DEF RxNum
    <3>4. InPlace'
      BY <1>4, <2>3, <3>1 DEF InPlace
    <3>5. QED
      BY <3>1, <3>3, <3>4
  <2>6. lost \in Nat
    BY LinkAssumption DEF LinkInv, LinkTypeOK
  <2>7. Ahead(0)'
    BY <1>2, <2>5, <2>6 DEF Ahead
  <2>8. 1 = (0 + 1) % SnMod
    <3>1. (SnMod * 0 + 1) % SnMod = 1
      BY RemainderOf
    <3>2. SnMod * 0 + 1 = 0 + 1
      OBVIOUS
    <3>3. QED
      BY <3>1, <3>2
  <2>9. ASSUME toRx' # <<>>
        PROVE  IF g.pci = "CF" THEN MsgOf(g) = m /\ Ahead(NumOf(toRx[1]) - 1)'
                               ELSE MsgOf(g) > m
    <3>1. CASE g.pci = "CF"
      <4>1. NumOf(g) - 1 = 0
        BY <1>1, <2>9, <3>1
      <4>2. QED
        BY <1>1, <2>7, <2>9, <3>1, <4>1
    <3>2. CASE g.pci # "CF"
      BY <1>1, <2>9, <3>2
    <3>3. QED
      BY <3>1, <3>2
  <2>10. toRx' = <<>> /\ Inside => tx.msg = m /\ Ahead(TxNum)'
    BY <1>1, <1>2, <2>7
  <2> HIDE DEF m, f, g
  <2>11. Receiving'
    BY <1>1, <1>2, <1>4, <2>3, <2>4, <2>5, <2>8, <2>9, <2>10 DEF Receiving, g
  <2>12. OneFault' => Delivering'
    <3>1. SUFFICES ASSUME OneFault PROVE Delivering'
      BY <1>2
    <3>2. Delivering /\ LastMsg < m
      BY <1>1, <3>1 DEF IntactState, Delivering, m, f
    <3>3. QED
      BY <1>4, <2>5, <3>2, DeliveringSame
  <2>13. abandoned' = {} => Patient'
    <3>1. SUFFICES ASSUME abandoned = {} PROVE Patient'
      BY <1>2
    <3>2. Patient
      BY <3>1 DEF IntactState
    <3>3. 1 \in 1 .. Len(toRx) /\ Len(toRx) \in Nat /\ toRx \in Seq(Frame)
      BY <1>1, Begun, EmptySeq
    <3>4. Len(toRx) = 1 /\ tx.state = "WAIT_FC"
      BY <3>2, <3>3 DEF Patient
    <3>5. toRx' = <<>>
      <4>1. Len(toRx') = 1 - 1 /\ toRx' \in Seq(Frame)
        BY <1>1, <1>2, <3>3, <3>4, HeadTailProperties
      <4>2. QED
        BY <4>1, EmptySeq
    <3>6. Inside /\ TxStopped
      BY <3>4 DEF Inside, TxStopped
    <3>7. RxMsg' = tx.msg /\ RxNum' = TxNum
      BY <1>1, <2>5, <2>10, <3>5, <3>6
    <3>8. QED
      BY <1>4, <3>2, <3>5, <3>6, <3>7, PatientAnswered
  <2>14. StoredInPlace'
    <3>1. m \in 0 .. Len(sent)
      BY <1>1
    <3>2. QED
      BY <1>2, <1>4, <2>3, <3>1 DEF StoredInPlace
  <2>15. QED
    BY <2>11, <2>12, <2>13, <2>14 DEF IntactState
<1>5. QED
  BY <1>1, <1>3, <1>4, FirstOutcome

\* A consecutive frame that the receiver takes: what it is, and what comes of it.
LEMMA Taken ==
    ASSUME LinkInv, Stream, Receive, IntactState, OneFault,
           toRx[1].pci = "CF", rx.state = "WAIT_CF", toRx[1].n = rx.nextSn
    PROVE  /\ Receiving /\ Delivering /\ RxNum \in Nat /\ RxMsg \in 1 .. Len(sent)
           /\ rx.total = sent[RxMsg]
           /\ MsgOf(toRx[1]) = RxMsg /\ Ahead(NumOf(toRx[1]) - 1)
           /\ RxMsg' = RxMsg
           /\ InPlace /\ NumOf(toRx[1]) = RxNum + 1 => InPlace'
           /\ \/ /\ ev' = "MESSAGE" /\ rx'.state = "IDLE"
                 /\ Len(rx'.buf) = sent[RxMsg] /\ sent[RxMsg] <= Off(RxNum + 1)
              \/ /\ sent[RxMsg] > Off(RxNum + 1) /\ ev' # "MESSAGE"
                 /\ rx'.state = "WAIT_CF" /\ rx'.total = rx.total
                 /\ Len(rx'.buf) = Off(RxNum + 1) /\ RxNum' = RxNum + 1
                 /\ rx'.nextSn = (RxNum + 1 + 1) % SnMod
                 /\ \/ /\ ev' = "SEND_FC" /\ rx'.cfSinceFc = 0
                       /\ rx.blockSize # 0 /\ rx.cfSinceFc + 1 = rx.blockSize
                    \/ /\ ev' = "NONE" /\ rx'.cfSinceFc = rx.cfSinceFc + 1
<1> DEFINE f == toRx[1]
<1>1. Receiving /\ Delivering
  BY DEF IntactState
<1>2. /\ toRx # <<>> /\ RxFrame(f) /\ f \in Frame /\ Genuine(sent, f)
  BY Served, HeadLeaves
<1>3. /\ RxNum \in Nat /\ RxMsg \in 1 .. Len(sent) /\ rx.total = sent[RxMsg]
      /\ Len(rx.buf) = Off(RxNum) /\ rx.nextSn = (RxNum + 1) % SnMod
      /\ MsgOf(f) = RxMsg /\ Ahead(NumOf(f) - 1)
  BY <1>1, <1>2 DEF Receiving
<1> HIDE DEF f
<1>4. /\ RxMsg' = RxMsg
      /\ InPlace /\ NumOf(f) = RxNum + 1 => InPlace'
      /\ \/ /\ ev' = "MESSAGE" /\ rx'.state = "IDLE"
            /\ Len(rx'.buf) = sent[RxMsg] /\ sent[RxMsg] <= Off(RxNum + 1)
         \/ /\ sent[RxMsg] > Off(RxNum + 1)
            /\ rx'.state = "WAIT_CF" /\ rx'.total = rx.total
            /\ Len(rx'.buf) = Off(RxNum + 1)
            /\ rx'.nextSn = (rx.nextSn + 1) % SnMod
            /\ \/ /\ ev' = "SEND_FC" /\ rx'.cfSinceFc = 0
                  /\ rx.blockSize # 0 /\ rx.cfSinceFc + 1 = rx.blockSize
               \/ /\ ev' = "NONE" /\ rx'.cfSinceFc = rx.cfSinceFc + 1
  BY <1>2, <1>3, ConsecutiveTaken DEF f
<1>5. (rx.nextSn + 1) % SnMod = (RxNum + 1 + 1) % SnMod
  BY <1>3, NextNumber
<1>6. Len(rx'.buf) = Off(RxNum + 1) => RxNum' = RxNum + 1
  BY <1>3, OffStep DEF RxNum
<1>7. QED
  BY <1>1, <1>3, <1>4, <1>5, <1>6 DEF f

\* It completes a message only when it has missed nothing.
LEMMA TakenLast ==
    ASSUME LinkInv, LinkInv', Stream, Receive, IntactState, StoredInPlace, OneFault,
           toRx[1].pci = "CF", rx.state = "WAIT_CF", toRx[1].n = rx.nextSn,
           ev' = "MESSAGE"
    PROVE  IntactState' /\ StoredInPlace'
<1> DEFINE f == toRx[1]
           m == RxMsg
<1>1. /\ Receiving /\ Delivering /\ RxNum \in Nat /\ m \in 1 .. Len(sent)
      /\ MsgOf(f) = m /\ Ahead(NumOf(f) - 1) /\ m' = m
      /\ InPlace /\ NumOf(f) = RxNum + 1 => InPlace'
      /\ rx'.state = "IDLE" /\ Len(rx'.buf) = sent[m] /\ sent[m] <= Off(RxNum + 1)
  BY Taken
<1>2. Genuine(sent, f) /\ NumOf(f) \in Nat
  BY Served, HeadLeaves
<1>3. sent[m] > Off(NumOf(f) - 1)
  BY <1>1, <1>2 DEF Genuine
<1>4. NumOf(f) - 1 \in Int /\ RxNum + 1 \in Int /\ sent[m] \in Int
  BY <1>1, <1>2, Begun
<1>5. Off(NumOf(f) - 1) \in Int /\ Off(RxNum + 1) \in Int
  BY <1>4, OffStep
<1>6. ~(RxNum + 1 <= NumOf(f) - 1)
  <2>1. SUFFICES ASSUME RxNum + 1 <= NumOf(f) - 1 PROVE FALSE
    OBVIOUS
  <2>2. Off(RxNum + 1) <= Off(NumOf(f) - 1)
    BY <1>4, <2>1, OffMonotone
  <2>3. QED
    BY <1>1, <1>3, <1>4, <1>5, <2>2
<1>7. RxNum <= NumOf(f) - 1 /\ (InPlace \/ NumOf(f) - 1 > RxNum)
  BY <1>1, <1>4 DEF Ahead
<1>8. NumOf(f) = RxNum + 1 /\ InPlace
  BY <1>1, <1>2, <1>6, <1>7
<1>9. rx'.buf = Payload(m, sent[m])
  BY <1>1, <1>8 DEF InPlace
<1>10. LastMsg < m /\ m <= tx.msg /\ (tx.state = "IDLE" => m < tx.msg)
  BY <1>1 DEF Delivering, Receiving
<1>11. QED
  BY <1>1, <1>9, <1>10, IntactIdle

\* It goes on with the message.
LEMMA TakenMore ==
    ASSUME LinkInv, LinkInv', Stream, Receive, IntactState, StoredInPlace, OneFault,
           toRx[1].pci = "CF", rx.state = "WAIT_CF", toRx[1].n = rx.nextSn,
           ev' # "MESSAGE"
    PROVE  IntactState' /\ StoredInPlace'
<1> USE FrameAssumption
<1> DEFINE f == toRx[1]
           g == toRx'[1]
           k == NumOf(f)
<1>1. /\ Receiving /\ Delivering /\ RxNum \in Nat /\ RxMsg \in 1 .. Len(sent)
      /\ rx.total = sent[RxMsg]
      /\ MsgOf(f) = RxMsg /\ Ahead(k - 1) /\ RxMsg' = RxMsg
      /\ InPlace /\ k = RxNum + 1 => InPlace'
      /\ sent[RxMsg] > Off(RxNum + 1)
      /\ rx'.state = "WAIT_CF" /\ rx'.total = rx.total
      /\ Len(rx'.buf) = Off(RxNum + 1) /\ RxNum' = RxNum + 1
      /\ rx'.nextSn = (RxNum + 1 + 1) % SnMod
      /\ \/ /\ ev' = "SEND_FC" /\ rx'.cfSinceFc = 0
            /\ rx.blockSize # 0 /\ rx.cfSinceFc + 1 = rx.blockSize
         \/ /\ ev' = "NONE" /\ rx'.cfSinceFc = rx.cfSinceFc + 1
  BY Taken
<1>2. /\ toRx # <<>> /\ Genuine(sent, f) /\ k \in Nat
      /\ toRx' = <<>> /\ Inside => MsgOf(f) = tx.msg /\ k = TxNum
      /\ toRx' # <<>> =>
           /\ NumOf(g) \in Nat
           /\ IF g.pci = "CF" THEN MsgOf(g) = MsgOf(f) /\ NumOf(g) = k + 1
                              ELSE MsgOf(g) > MsgOf(f)
  BY Served, HeadLeaves
<1>3. /\ UNCHANGED <<tx, sent, abandoned, lost, foreign>> /\ OneFault' = OneFault
      /\ Inside' = Inside /\ TxNum' = TxNum /\ toRx' = Tail(toRx)
  BY Served
<1>4. lost \in Nat
  BY LinkAssumption DEF LinkInv, LinkTypeOK
<1> HIDE DEF f, g, k
<1>5. k - 1 \in RxNum .. RxNum + lost /\ (InPlace \/ k - 1 > RxNum)
  BY <1>1 DEF Ahead
<1>6. k \in RxNum' .. RxNum' + lost' /\ (InPlace' \/ k > RxNum')
  <2>1. k \in RxNum + 1 .. RxNum + 1 + lost
    BY <1>1, <1>2, <1>4, <1>5
  <2>2. InPlace' \/ k > RxNum + 1
    <3>1. CASE k = RxNum + 1
      <4>1. k - 1 = RxNum
        BY <1>1, <3>1
      <4>2. InPlace
        BY <1>1, <1>5, <4>1
      <4>3. QED
        BY <1>1, <3>1, <4>2
    <3>2. CASE k # RxNum + 1
      BY <1>1, <1>2, <2>1, <3>2
    <3>3. QED
      BY <3>1, <3>2
  <2>3. QED
    BY <1>1, <1>3, <2>1, <2>2
<1>7. Receiving'
  <2>1. ASSUME toRx' # <<>>
        PROVE  IF g.pci = "CF" THEN MsgOf(g) = RxMsg /\ Ahead(NumOf(toRx[1]) - 1)'
                               ELSE MsgOf(g) > RxMsg
    <3>1. CASE g.pci = "CF"
      <4>1. NumOf(g) - 1 = k
        BY <1>2, <2>1, <3>1
      <4>2. QED
        BY <1>1, <1>2, <1>6, <2>1, <3>1, <4>1 DEF g, Ahead
    <3>2. CASE g.pci # "CF"
      BY <1>1, <1>2, <2>1, <3>2
    <3>3. QED
      BY <3>1, <3>2
  <2>2. toRx' = <<>> /\ Inside => tx.msg = RxMsg /\ Ahead(TxNum)'
    BY <1>1, <1>2, <1>3, <1>6 DEF Ahead
  <2>3. RxNum' \in Nat /\ Len(rx'.buf) = Off(RxNum') /\ rx'.nextSn = (RxNum' + 1) % SnMod
    BY <1>1
  <2>4. RxMsg <= tx.msg /\ (tx.state = "IDLE" => RxMsg < tx.msg)
    BY <1>1 DEF Receiving
  <2>5. QED
    BY <1>1, <1>3, <2>1, <2>2, <2>3, <2>4 DEF Receiving, g
<1>8. Delivering'
  <2>1. LastMsg < RxMsg
    BY <1>1 DEF Delivering
  <2>2. QED
    BY <1>1, <2>1, DeliveringSame
<1>9. ASSUME abandoned = {} PROVE Patient'
  <2>1. Patient
    BY <1>9 DEF IntactState
  <2>2. /\ rx.cfSinceFc \in Nat /\ rx.blockSize \in Nat
    BY RxNow
  <2>3. CASE ev' = "NONE"
    <3>1. RxNum' - rx'.cfSinceFc = RxNum - rx.cfSinceFc
      BY <1>1, <2>2, <2>3
    <3>2. QED
      BY <1>1, <2>1, <2>3, <3>1, PatientSame
  <2>4. CASE ev' = "SEND_FC"
    <3>1. rx'.cfSinceFc = 0 /\ rx.blockSize # 0 /\ rx.cfSinceFc + 1 = rx.blockSize
      BY <1>1, <2>4
    <3>2. RxNum - rx.cfSinceFc + rx.blockSize = RxNum + 1
      BY <1>1, <2>2, <3>1
    <3>3. Off(RxNum + 1) \in Int /\ sent[RxMsg] \in Int
      <4>1. RxNum \in Int /\ RxNum + 1 \in Int
        BY <1>1
      <4>2. Off(RxNum + 1) \in Int
        BY <4>1, OffStep
      <4>3. QED
        BY <1>1, <4>2, Begun
    <3>4. Inside /\ tx.msg = RxMsg
      BY <1>1, <2>1, <3>1, <3>2, <3>3 DEF Patient
    <3>5. /\ TxNum <= RxNum + 1
          /\ tx.state = "SENDING" /\ ~BlockSent =>
               TxNum - tx.cfInBlock = RxNum - rx.cfSinceFc
      BY <1>1, <2>1, <3>1, <3>2, <3>4 DEF Patient
    <3>6. TxNum \in Nat
      BY <3>4 DEF Stream, Sender
    <3>7. k >= RxNum + 1
      BY <1>1, <1>2, <1>4, <1>5
    <3>8. toRx' = <<>>
      <4>1. SUFFICES ASSUME toRx' # <<>> PROVE FALSE
        OBVIOUS
      <4> DEFINE n == Len(toRx)
      <4>2. toRx \in Seq(Frame) /\ n \in Nat /\ toRx' \in Seq(Frame) /\ Len(toRx') = n - 1
        BY <1>2, <1>3, Begun, HeadTailProperties
      <4>3. n > 1
        BY <4>1, <4>2, EmptySeq
      <4>4. 1 \in 1 .. n
        BY <4>2, <4>3
      <4>5. NumOf(toRx[1]) + (n - 1) = TxNum
        BY <1>1, <3>4, <4>4 DEF Stream, Sender, f
      <4> HIDE DEF n
      <4>6. QED
        BY <1>1, <1>2, <3>5, <3>6, <3>7, <4>2, <4>3, <4>5 DEF k, f
    <3>9. k = TxNum /\ TxNum = RxNum + 1
      BY <1>1, <1>2, <3>4, <3>5, <3>6, <3>7, <3>8
    <3>10. TxStopped
      <4>1. CASE tx.state = "WAIT_FC"
        BY <4>1 DEF TxStopped
      <4>2. CASE tx.state = "SENDING"
        <5>1. SUFFICES ASSUME ~BlockSent PROVE FALSE
          BY <4>2 DEF TxStopped
        <5>2. tx.cfInBlock \in Nat /\ tx.blockSize = rx.blockSize
          BY <2>1, <4>2, TxMessage DEF Patient
        <5>3. RxNum + 1 - tx.cfInBlock = RxNum - rx.cfSinceFc
          <6>1. TxNum - tx.cfInBlock = RxNum - rx.cfSinceFc
            BY <3>5, <4>2, <5>1
          <6>2. QED
            BY <1>1, <2>2, <3>6, <3>9, <5>2, <6>1
        <5>4. tx.cfInBlock = rx.blockSize
          BY <1>1, <2>2, <3>1, <5>2, <5>3
        <5>5. QED
          BY <2>2, <3>1, <5>1, <5>2, <5>4 DEF BlockSent
      <4>3. QED
        BY <3>4, <4>1, <4>2 DEF Inside
    <3>11. QED
      BY <1>1, <2>1, <2>4, <3>1, <3>4, <3>8, <3>9, <3>10, PatientAnswered
  <2>5. QED
    BY <1>1, <2>3, <2>4
<1>10. StoredInPlace'
  <2>1. SUFFICES ASSUME foreign = 0, lost < SnMod, abandoned = {}
                 PROVE  \E m \in 0 .. Len(sent) : rx'.buf = Payload(m, Len(rx'.buf))
    BY <1>3 DEF StoredInPlace
  <2>2. f.n = k % SnMod /\ f.n = (RxNum + 1) % SnMod
    BY <1>1, <1>2 DEF Genuine, Receiving, f, k
  <2>3. RxNum + 1 \in Nat /\ RxNum + 1 <= k /\ k - (RxNum + 1) < SnMod
    BY <1>1, <1>2, <1>4, <1>5, <2>1
  <2>4. k = RxNum + 1
    BY <1>2, <2>2, <2>3, SameNumber
  <2>5. k - 1 = RxNum
    BY <1>1, <2>4
  <2>6. InPlace'
    BY <1>1, <1>5, <2>4, <2>5
  <2>7. RxMsg \in 0 .. Len(sent)
    BY <1>1
  <2>8. QED
    BY <1>1, <2>6, <2>7 DEF InPlace
<1>11. QED
  BY <1>3, <1>7, <1>8, <1>9, <1>10 DEF IntactState

LEMMA ReceivedConsecutive ==
    ASSUME LinkInv, LinkInv', Stream, Receive, IntactState, StoredInPlace,
           toRx[1].pci = "CF"
    PROVE  IntactState' /\ StoredInPlace'
<1>1. toRx[1] \in Frame /\ Genuine(sent, toRx[1]) /\ RxFrame(toRx[1])
  BY Served, HeadLeaves
<1>2. CASE rx.state = "IDLE" \/ toRx[1].n # rx.nextSn
  BY <1>1, <1>2, ConsecutiveRefused, IntactIdle
<1>3. CASE rx.state = "WAIT_CF" /\ toRx[1].n = rx.nextSn /\ OneFault
  BY <1>3, TakenLast, TakenMore
<1>4. CASE ~OneFault
  BY <1>4, Served DEF OneFault, IntactState, StoredInPlace
<1>5. QED
  BY <1>2, <1>3, <1>4, RxNow

-----------------------------------------------------------------------------
(* The invariant, and what it means. *)

LEMMA IntactInit ==
    ASSUME Init
    PROVE  IntactInv
<1>1. PICK limit \in BufferLimits, bs \in BlockSizes : RxInit(limit, bs)
  BY DEF Init
<1>2. rx.state = "IDLE" /\ rx.buf = <<>>
  BY <1>1 DEF RxInit
<1>3. /\ tx.state = "NONE" /\ tx.msg = 0 /\ toRx = <<>> /\ toTx = <<>>
      /\ sent = <<>> /\ delivered = <<>>
  BY DEF Init, TxInit
<1>4. Len(<<>>) = 0
  BY EmptySeq
<1>5. Stream
  BY <1>3, <1>4 DEF Stream, Queue, Sender, Answers, Inside
<1>6. Patient /\ Receiving /\ Delivering
  BY <1>2, <1>3, <1>4 DEF Patient, Receiving, Delivering, LastMsg
<1>7. StoredInPlace
  <2>1. <<>> \in Seq(Byte) /\ \A k \in 1 .. Len(<<>>) : <<>>[k] = <<0, k>>
    BY <1>4, EmptySeq
  <2>2. <<>> = Payload(0, Len(<<>>))
    BY <2>1, PayloadFromBytes
  <2>3. 0 \in 0 .. Len(sent)
    BY <1>3, <1>4
  <2>4. QED
    BY <1>2, <2>2, <2>3 DEF StoredInPlace
<1>8. QED
  BY <1>5, <1>6, <1>7 DEF IntactInv, IntactState

\* A step that leaves the receiver's buffer alone.
LEMMA StoredSame ==
    ASSUME LinkInv, StoredInPlace, UNCHANGED <<rx, foreign>>, lost' >= lost,
           lost' \in Nat, abandoned \subseteq abandoned',
           Len(sent') \in Nat, Len(sent) <= Len(sent')
    PROVE  StoredInPlace'
<1>1. SUFFICES ASSUME foreign = 0, lost' < SnMod, abandoned' = {}
               PROVE  \E m \in 0 .. Len(sent') : rx.buf = Payload(m, Len(rx.buf))
  BY DEF StoredInPlace
<1>2. lost \in Nat
  BY LinkAssumption DEF LinkInv, LinkTypeOK
<1>3. lost < SnMod /\ abandoned = {}
  BY <1>1, <1>2, FrameAssumption
<1>4. PICK m \in 0 .. Len(sent) : rx.buf = Payload(m, Len(rx.buf))
  BY <1>1, <1>3 DEF StoredInPlace
<1>5. m \in 0 .. Len(sent')
  BY Begun
<1>6. QED
  BY <1>4, <1>5

LEMMA IntactStep ==
    ASSUME LinkInv, LinkInv', IntactInv, [Next]_vars
    PROVE  IntactInv'
<1> SUFFICES ASSUME foreign' = 0
             PROVE  Stream' /\ IntactState' /\ StoredInPlace'
  BY DEF IntactInv
<1>1. foreign = 0
  <2>1. foreign \in Nat
    BY LinkAssumption DEF LinkInv, LinkTypeOK
  <2>2. foreign' \in {foreign, foreign + 1}
    BY DEF Next, Begin, Protocol, Send, Transmit, FlowControl, Receive, Lose, Intrude, vars
  <2>3. QED
    BY <2>1, <2>2
<1>2. Stream /\ IntactState /\ StoredInPlace
  BY <1>1 DEF IntactInv
<1>3. lost \in Nat /\ Len(sent) \in Nat
  BY Begun, LinkAssumption DEF LinkInv, LinkTypeOK
<1>4. ASSUME NEW len \in Lengths, Begin(len)
      PROVE  Stream' /\ IntactState' /\ StoredInPlace'
  <2>1. UNCHANGED <<rx, foreign, lost>> /\ abandoned \subseteq abandoned'
    BY <1>4 DEF Begin, rxVars
  <2>2. Len(sent') = Len(sent) + 1
    BY <1>4, LinkAssumption, Begun, AppendProperties DEF Begin
  <2>3. StoredInPlace'
    BY <1>2, <1>3, <2>1, <2>2, StoredSame
  <2>4. QED
    BY <1>2, <1>4, <2>3, QueueBegin, IntactBegin
<1>5. CASE Send
  <2>1. UNCHANGED <<rx, foreign, lost, sent, abandoned>>
    BY <1>5 DEF Send, Transmit, rxVars
  <2>2. StoredInPlace'
    BY <1>2, <1>3, <2>1, StoredSame
  <2>3. QED
    BY <1>2, <1>5, <2>2, QueueSend, IntactSend
<1>6. CASE FlowControl
  <2>1. UNCHANGED <<rx, foreign, lost, sent, abandoned>>
    BY <1>6 DEF FlowControl, rxVars
  <2>2. StoredInPlace'
    BY <1>2, <1>3, <2>1, StoredSame
  <2>3. QED
    BY <1>2, <1>6, <2>2, QueueFlowControl, IntactFlowControl
<1>7. CASE Receive
  <2>1. Stream'
    BY <1>2, <1>7, StreamReceive
  <2>2. toRx[1].pci \in {"SF", "FF", "CF"}
    BY <1>2, <1>7, Served, HeadLeaves
  <2>3. QED
    BY <1>2, <1>7, <2>1, <2>2, ReceivedSingle, ReceivedFirst, ReceivedConsecutive
<1>8. CASE Lose
  <2>1. UNCHANGED <<rx, foreign, sent, abandoned>> /\ lost' = lost + 1
    BY <1>8 DEF Lose, rxVars
  <2>2. StoredInPlace'
    BY <1>2, <1>3, <2>1, StoredSame
  <2>3. QED
    BY <1>2, <1>8, <2>2, IntactLose
<1>9. ASSUME NEW f \in Foreign, Intrude(f)
      PROVE  FALSE
  BY <1>1, <1>9 DEF Intrude
<1>10. CASE UNCHANGED vars
  <2>1. UNCHANGED <<rx, ev, tx, toRx, toTx, sent, delivered, abandoned, lost, foreign>>
    BY <1>10 DEF vars
  <2>2. /\ RxMsg' = RxMsg /\ RxNum' = RxNum /\ InPlace' = InPlace /\ LastMsg' = LastMsg
        /\ Inside' = Inside /\ TxNum' = TxNum /\ TxStopped' = TxStopped
        /\ BlockSent' = BlockSent
    BY <2>1 DEF RxMsg, RxNum, InPlace, LastMsg, Inside, TxNum, TxStopped, BlockSent
  <2>3. Stream'
    BY <1>2, <2>1, <2>2 DEF Stream, Queue, Sender, Answers
  <2>4. OneFault => Receiving' /\ Delivering'
    BY <1>2, <2>1, <2>2 DEF IntactState, Receiving, Delivering, Ahead, Intact
  <2>5. abandoned = {} => Patient'
    BY <1>2, <2>1, <2>2 DEF IntactState, Patient
  <2>6. StoredInPlace'
    BY <1>2, <1>3, <2>1, StoredSame
  <2>7. QED
    BY <2>1, <2>3, <2>4, <2>5, <2>6 DEF IntactState, OneFault
<1>11. QED
  BY <1>4, <1>5, <1>6, <1>7, <1>8, <1>9, <1>10 DEF Next, Protocol

LEMMA IntactInvariant == Spec => []IntactInv
<1>1. Init => IntactInv
  BY IntactInit
<1>2. LinkInv /\ LinkInv' /\ IntactInv /\ [Next]_vars => IntactInv'
  BY IntactStep
<1>3. QED
  BY <1>1, <1>2, LinkInvariant, PTL DEF Spec

\* What the receiver of isotp_rx_frame stores is at its place in one message,
\* as long as the bus loses fewer frames than there are sequence numbers, no
\* node intrudes and no caller gives up: for every frame size, sequence-number
\* width, block size and message length, and every number of messages.
THEOREM BytesStoredInPlace == Spec => []StoredInPlace
<1>1. IntactInv => StoredInPlace
  BY DEF IntactInv, StoredInPlace
<1>2. QED
  BY <1>1, IntactInvariant, PTL

\* However many frames the bus loses, or however often the sender's caller gives
\* up, isotp_rx_frame reports no message that was not sent, none out of order
\* and none twice, although the transport has neither timers nor a checksum.
THEOREM OnlyWholeMessages == Spec => []DeliveredIntact
<1>1. LinkInv /\ IntactInv => DeliveredIntact
  <2>1. SUFFICES ASSUME LinkInv, IntactInv, foreign = 0, OneFault
                 PROVE  /\ \A i \in DOMAIN delivered : Intact(delivered[i])
                        /\ \A i, j \in DOMAIN delivered :
                             i < j => delivered[i][1][1] < delivered[j][1][1]
    BY DEF DeliveredIntact, OneFault
  <2>2. Delivering
    BY <2>1 DEF IntactInv, IntactState
  <2>3. DOMAIN delivered = 1 .. Len(delivered)
    BY <2>1, RxNow, LenProperties
  <2>4. QED
    BY <2>2, <2>3 DEF Delivering
<1>2. QED
  BY <1>1, LinkInvariant, IntactInvariant, PTL

-----------------------------------------------------------------------------
(* What the receiver's node must be able to queue. *)

\* A block is granted when nothing is under way, so the frames under way are of
\* one block, and a consecutive frame is never further back than the block is
\* long.
BlockInv ==
    foreign = 0 /\ abandoned = {} =>
        /\ tx.state = "SENDING" => Len(toRx) <= tx.cfInBlock
        /\ rx.blockSize # 0 =>
             \A i \in 1 .. Len(toRx) : toRx[i].pci = "CF" => i <= rx.blockSize

LEMMA BlockStep ==
    ASSUME LinkInv, IntactInv, BlockInv, [Next]_vars
    PROVE  BlockInv'
<1> SUFFICES ASSUME foreign' = 0, abandoned' = {} PROVE BlockInv'
  BY DEF BlockInv
<1>1. foreign = 0 /\ abandoned = {}
  <2>1. foreign \in Nat
    BY LinkAssumption DEF LinkInv, LinkTypeOK
  <2>2. foreign' \in {foreign, foreign + 1} /\ abandoned \subseteq abandoned'
    BY DEF Next, Begin, Protocol, Send, Transmit, FlowControl, Receive, Lose, Intrude, vars
  <2>3. QED
    BY <2>1, <2>2
<1>2. Stream /\ Patient
  BY <1>1 DEF IntactInv, IntactState
<1>3. toRx \in Seq(Frame) /\ Len(toRx) \in Nat
  BY Begun
<1> DEFINE n == Len(toRx)
           bs == rx.blockSize
<1>4. /\ tx.state = "SENDING" => n <= tx.cfInBlock
      /\ bs # 0 => \A i \in 1 .. n : toRx[i].pci = "CF" => i <= bs
  BY <1>1 DEF BlockInv
<1>5. bs \in Nat
  BY RxNow
<1> HIDE DEF n, bs
<1>6. ASSUME UNCHANGED toRx, bs' = bs, tx'.state = "SENDING" => n <= tx'.cfInBlock
      PROVE  BlockInv'
  BY <1>4, <1>6 DEF BlockInv, n, bs
<1>7. ASSUME toRx # <<>>, toRx' = Tail(toRx), bs' = bs, UNCHANGED tx
      PROVE  BlockInv'
  <2>1. /\ Len(toRx') = n - 1 /\ n \in Nat
        /\ \A i \in 1 .. n - 1 : toRx'[i] = toRx[i + 1]
    BY <1>3, <1>7, HeadTailProperties DEF n
  <2>2. ASSUME tx.state = "SENDING" PROVE n - 1 <= tx.cfInBlock
    <3>1. tx.cfInBlock \in Nat
      BY <2>2, TxMessage
    <3>2. QED
      BY <1>4, <2>1, <2>2, <3>1
  <2>3. ASSUME bs # 0, NEW i \in 1 .. n - 1, toRx'[i].pci = "CF"
        PROVE  i <= bs
    <3>1. i + 1 \in 1 .. n /\ toRx[i + 1].pci = "CF"
      BY <2>1, <2>3
    <3>2. i + 1 <= bs
      BY <1>4, <2>3, <3>1
    <3>3. QED
      BY <1>5, <3>2
  <2>4. QED
    BY <1>7, <2>1, <2>2, <2>3 DEF BlockInv, bs
<1>8. ASSUME NEW f \in Frame, toRx' = Append(toRx, f), bs' = bs,
             tx'.state = "SENDING" => n + 1 <= tx'.cfInBlock,
             bs # 0 /\ f.pci = "CF" => n + 1 <= bs
      PROVE  BlockInv'
  <2>1. /\ Len(toRx') = n + 1 /\ n \in Nat /\ toRx'[n + 1] = f
        /\ \A i \in 1 .. n : toRx'[i] = toRx[i]
    BY <1>3, <1>8, AppendProperties DEF n
  <2>2. ASSUME bs # 0, NEW i \in 1 .. n + 1, toRx'[i].pci = "CF"
        PROVE  i <= bs
    <3>1. CASE i = n + 1
      BY <1>8, <2>1, <2>2, <3>1
    <3>2. CASE i # n + 1
      <4>1. i \in 1 .. n
        BY <2>1, <3>2
      <4>2. QED
        BY <1>4, <2>1, <2>2, <4>1
    <3>3. QED
      BY <3>1, <3>2
  <2>3. QED
    BY <1>8, <2>1, <2>2 DEF BlockInv, bs
<1>9. ASSUME NEW len \in Lengths, Begin(len)
      PROVE  BlockInv'
  <2>1. UNCHANGED <<rx, toRx>> /\ tx'.state = "IDLE"
    BY <1>9 DEF Begin, TxBegin, rxVars
  <2>2. QED
    BY <1>6, <2>1 DEF bs
<1>10. CASE Send
  <2>1. tx.state # "NONE"
    BY <1>10 DEF Send, TxSingle, TxFirst, TxConsecutive, TxEndBlock
  <2>2. tx \in TxState /\ tx.cfInBlock \in Nat /\ tx.blockSize \in Nat
    BY <2>1, TxMessage
  <2>3. bs' = bs
    BY <1>10 DEF Send, Transmit, rxVars, bs
  <2>4. CASE TxSingle /\ Transmit(SingleFrame)
    <3>1. tx'.state = "DONE" /\ SingleFrame \in Frame /\ SingleFrame.pci = "SF"
      BY <2>2, <2>4, SentFrames DEF TxSingle, TxState, LinkInv, SingleFrame
    <3>2. QED
      BY <1>8, <2>3, <2>4, <3>1 DEF Transmit
  <2>5. CASE TxFirst /\ Transmit(FirstFrame)
    <3>1. tx'.state = "WAIT_FC" /\ FirstFrame \in Frame /\ FirstFrame.pci = "FF"
      BY <2>2, <2>5, SentFrames DEF TxFirst, TxState, LinkInv, FirstFrame
    <3>2. QED
      BY <1>8, <2>3, <2>5, <3>1 DEF Transmit
  <2>6. CASE TxConsecutive /\ Transmit(ConsecutiveFrame)
    <3>1. /\ tx.state = "SENDING" /\ ~BlockSent /\ tx'.cfInBlock = tx.cfInBlock + 1
          /\ ConsecutiveFrame \in Frame
      BY <2>2, <2>6, SentFrames DEF TxConsecutive, TxState, LinkInv
    <3>2. n <= tx.cfInBlock /\ tx.blockSize = bs
      BY <1>2, <1>4, <3>1 DEF Patient, bs
    <3>3. n + 1 <= tx.cfInBlock + 1 /\ (bs # 0 => n + 1 <= bs)
      BY <1>3, <2>2, <3>1, <3>2 DEF BlockSent, n
    <3>4. QED
      BY <1>8, <2>3, <2>6, <3>1, <3>3 DEF Transmit
  <2>7. CASE TxEndBlock /\ UNCHANGED toRx
    BY <1>6, <2>2, <2>3, <2>7 DEF TxEndBlock, TxState
  <2>8. QED
    BY <1>10, <2>4, <2>5, <2>6, <2>7 DEF Send
<1>11. CASE FlowControl
  <2>1. UNCHANGED <<rx, toRx>> /\ toTx # <<>>
    BY <1>11 DEF FlowControl, rxVars
  <2>2. toRx = <<>>
    BY <1>2, <2>1 DEF Patient
  <2>3. n = 0
    BY <2>2, EmptySeq DEF n
  <2>4. tx'.state = "SENDING" => n <= tx'.cfInBlock
    BY <1>2, <1>4, <1>11, <2>3, QueueFlowControl DEF Inside
  <2>5. QED
    BY <1>6, <2>1, <2>4 DEF bs
<1>12. CASE Receive
  <2>1. toRx # <<>> /\ toRx' = Tail(toRx) /\ UNCHANGED tx /\ RxFrame(toRx[1])
    BY <1>2, <1>12, Served
  <2>2. bs' = bs
    BY <2>1, BlockSizeKept DEF bs
  <2>3. QED
    BY <1>7, <2>1, <2>2
<1>13. CASE Lose
  <2>1. UNCHANGED <<rx, tx>> /\ (UNCHANGED toRx \/ (toRx # <<>> /\ toRx' = Tail(toRx)))
    BY <1>13 DEF Lose, rxVars
  <2>2. QED
    BY <1>4, <1>6, <1>7, <2>1 DEF bs
<1>14. ASSUME NEW f \in Foreign, Intrude(f)
       PROVE  FALSE
  BY <1>1, <1>14 DEF Intrude
<1>15. CASE UNCHANGED vars
  BY <1>4, <1>6, <1>15 DEF vars, bs
<1>16. QED
  BY <1>9, <1>10, <1>11, <1>12, <1>13, <1>14, <1>15 DEF Next, Protocol

\* While no other node intrudes and no caller has given up, whatever the bus
\* loses, no more consecutive frames are under way than the block size that the
\* receiver's flow control advertises: a frame queue of that length suffices.
THEOREM QueueWithinBlock == Spec => [](foreign = 0 /\ abandoned = {} => CfsWithinBlock)
<1>1. Init => BlockInv
  BY EmptySeq DEF Init, TxInit, BlockInv
<1>2. LinkInv /\ IntactInv /\ BlockInv /\ [Next]_vars => BlockInv'
  BY BlockStep
<1>3. LinkInv /\ BlockInv => (foreign = 0 /\ abandoned = {} => CfsWithinBlock)
  <2>1. SUFFICES ASSUME LinkInv, BlockInv, foreign = 0, abandoned = {}, rx.blockSize # 0
                 PROVE  Cardinality({ i \in DOMAIN toRx : toRx[i].pci = "CF" })
                          <= rx.blockSize
    BY DEF CfsWithinBlock
  <2> DEFINE S == { i \in DOMAIN toRx : toRx[i].pci = "CF" }
             bs == rx.blockSize
  <2>2. bs \in Nat /\ DOMAIN toRx = 1 .. Len(toRx)
    BY <2>1, RxNow, Begun, LenProperties
  <2>3. S \subseteq 1 .. bs
    BY <2>1, <2>2 DEF BlockInv
  <2> HIDE DEF S, bs
  <2>4. IsFiniteSet(1 .. bs) /\ Cardinality(1 .. bs) = bs
    BY <2>2, FS_Interval
  <2>5. Cardinality(S) <= Cardinality(1 .. bs)
    BY <2>3, <2>4, FS_Subset
  <2>6. QED
    BY <2>4, <2>5 DEF S, bs
<1>4. QED
  BY <1>1, <1>2, <1>3, LinkInvariant, IntactInvariant, PTL DEF Spec

\* Only Begin gives a message up, and only for an impatient caller.
LEMMA PatientGivesUpNothing ==
    ASSUME Impatient = FALSE, [Next]_vars
    PROVE  abandoned' = abandoned
<1>1. CASE \E len \in Lengths : Begin(len)
  BY <1>1 DEF Begin
<1>2. CASE Send \/ FlowControl \/ Receive
  BY <1>2 DEF Send, Transmit, FlowControl, Receive
<1>3. CASE Lose \/ \E f \in Foreign : Intrude(f)
  BY <1>3 DEF Lose, Intrude
<1>4. QED
  BY <1>1, <1>2, <1>3 DEF Next, Protocol, vars

LEMMA NoneAbandoned ==
    ASSUME Impatient = FALSE
    PROVE  Spec => [](abandoned = {})
<1>1. Init => abandoned = {}
  BY DEF Init
<1>2. abandoned = {} /\ [Next]_vars => (abandoned = {})'
  BY PatientGivesUpNothing
<1>3. QED
  BY <1>1, <1>2, PTL DEF Spec

\* With a patient caller and no other node's frames, losses or not, the queue of
\* consecutive frames that the receiver's node needs is as long as its block.
THEOREM QueueAlwaysWithinBlock ==
    MaxForeign = 0 /\ Impatient = FALSE => (Spec => []CfsWithinBlock)
<1> SUFFICES ASSUME MaxForeign = 0, Impatient = FALSE PROVE Spec => []CfsWithinBlock
  OBVIOUS
<1>1. LinkInv => foreign = 0
  BY DEF LinkInv, LinkTypeOK
<1>2. QED
  BY <1>1, NoneAbandoned, QueueWithinBlock, LinkInvariant, PTL

=============================================================================
