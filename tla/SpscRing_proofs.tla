-------------------------- MODULE SpscRing_proofs --------------------------
(* The ring buffer is a bounded FIFO queue for every capacity and every      *)
(* index width the capacity divides: index arithmetic, the inductive         *)
(* invariant, and the refinement of BoundedFifo.                             *)
EXTENDS SpscRing, TLAPS, SequenceTheorems

-----------------------------------------------------------------------------
(* Remainders. *)

LEMMA Remainder ==
    ASSUME NEW a \in Int, NEW n \in Nat \ {0}
    PROVE  a % n \in 0 .. n - 1
OBVIOUS

LEMMA Division ==
    ASSUME NEW a \in Int, NEW n \in Nat \ {0}
    PROVE  \E q \in Int : a = n * q + (a % n)
<1>1. a \div n \in Int
  OBVIOUS
<1>2. a = n * (a \div n) + (a % n)
  OBVIOUS
<1>3. QED
  BY <1>1, <1>2

LEMMA RemainderOf ==
    ASSUME NEW n \in Nat \ {0}, NEW q \in Int, NEW r \in 0 .. n - 1
    PROVE  (n * q + r) % n = r
OBVIOUS

\* Adding a multiple of n changes no remainder.
LEMMA RemainderPeriodic ==
    ASSUME NEW n \in Nat \ {0}, NEW a \in Int, NEW w \in Int, w % n = 0
    PROVE  (w + a) % n = a % n
<1>1. PICK q1 \in Int : a = n * q1 + (a % n)
  BY Division
<1>2. PICK q2 \in Int : w = n * q2
  <2>1. PICK q \in Int : w = n * q + (w % n)
    BY Division
  <2>2. n * q \in Int
    OBVIOUS
  <2>3. w = n * q
    BY <2>1, <2>2
  <2>4. QED
    BY <2>3
<1> DEFINE r == a % n
<1>3. r \in 0 .. n - 1
  BY Remainder
<1> HIDE DEF r
<1>4. a = n * q1 + r
  BY <1>1 DEF r
<1>5. q1 + q2 \in Int /\ w + a = n * (q1 + q2) + r
  BY <1>2, <1>3, <1>4
<1>6. (n * (q1 + q2) + r) % n = r
  BY <1>3, <1>5, RemainderOf
<1>7. QED
  BY <1>5, <1>6 DEF r

LEMMA NoMultipleBetween ==
    ASSUME NEW n \in Nat \ {0}, NEW z \in Int, 0 < n * z, n * z < n
    PROVE  FALSE
<1>1. CASE z >= 1
  BY <1>1
<1>2. CASE z <= 0
  BY <1>2
<1>3. QED
  BY <1>1, <1>2

\* Numbers less than n apart have different remainders.
LEMMA RemaindersDiffer ==
    ASSUME NEW n \in Nat \ {0}, NEW a \in Int, NEW b \in Int,
           0 < b - a, b - a < n
    PROVE  (a % n) # (b % n)
<1>1. SUFFICES ASSUME (a % n) = (b % n) PROVE FALSE
  OBVIOUS
<1>2. PICK q1 \in Int : a = n * q1 + (a % n)
  BY Division
<1>3. PICK q2 \in Int : b = n * q2 + (b % n)
  BY Division
<1> DEFINE r == a % n
<1>4. r \in Int
  BY Remainder
<1> HIDE DEF r
<1>5. a = n * q1 + r /\ b = n * q2 + r
  BY <1>1, <1>2, <1>3 DEF r
<1>6. q2 - q1 \in Int /\ b - a = n * (q2 - q1)
  BY <1>4, <1>5
<1>7. QED
  BY <1>6, NoMultipleBetween

-----------------------------------------------------------------------------
(* The indices. *)

\* The difference of two stored indices.
LEMMA MinusIs ==
    ASSUME NEW a \in Index, NEW b \in Index
    PROVE  Minus(a, b) = IF a >= b THEN a - b ELSE a - b + Wrap
BY RingBufAssumption DEF Minus, Index

LEMMA SuccIs ==
    ASSUME NEW a \in Index
    PROVE  Succ(a) = IF a + 1 = Wrap THEN 0 ELSE a + 1
BY RingBufAssumption DEF Succ, Index

LEMMA SlotType ==
    ASSUME NEW i \in Int
    PROVE  Slot(i) \in 0 .. Capacity - 1
BY RingBufAssumption, Remainder DEF Slot

LEMMA SlotsDiffer ==
    ASSUME NEW i \in Int, NEW j \in Int, 0 < j - i, j - i < Capacity
    PROVE  Slot(i) # Slot(j)
BY RingBufAssumption, RemaindersDiffer DEF Slot

LEMMA SlotWraps ==
    ASSUME NEW i \in Int
    PROVE  Slot(Wrap + i) = Slot(i)
<1>1. Capacity \in Nat \ {0} /\ Wrap \in Int /\ Wrap % Capacity = 0
  BY RingBufAssumption
<1>2. (Wrap + i) % Capacity = i % Capacity
  BY <1>1, RemainderPeriodic
<1>3. QED
  BY <1>2 DEF Slot

\* The slot after the last byte is the head's, wrapped or not.
LEMMA HeadSlot ==
    ASSUME head \in Index, tail \in Index
    PROVE  Slot(tail + Count) = Slot(head)
<1>1. head \in Int /\ Wrap \in Int /\ tail \in Int
  BY RingBufAssumption DEF Index
<1>2. CASE head >= tail
  <2>1. tail + Count = head
    BY <1>1, <1>2, MinusIs DEF Count
  <2>2. QED
    BY <2>1
<1>3. CASE ~(head >= tail)
  <2>1. tail + Count = Wrap + head
    BY <1>1, <1>3, MinusIs DEF Count
  <2>2. QED
    BY <1>1, <2>1, SlotWraps
<1>4. QED
  BY <1>2, <1>3

\* What was one slot further from the tail is so from the next tail.
LEMMA NextTailSlot ==
    ASSUME NEW t \in Index, NEW i \in Nat
    PROVE  Slot(Succ(t) + i) = Slot(t + 1 + i)
<1>1. t \in Int /\ Wrap \in Int
  BY RingBufAssumption DEF Index
<1>2. CASE t + 1 = Wrap
  <2>1. Succ(t) + i = i /\ t + 1 + i = Wrap + i
    BY <1>1, <1>2, SuccIs
  <2>2. QED
    BY <2>1, SlotWraps
<1>3. CASE t + 1 # Wrap
  BY <1>1, <1>3, SuccIs
<1>4. QED
  BY <1>2, <1>3

\* Publishing moves the count by one.
LEMMA CountAfterPut ==
    ASSUME NEW h \in Index, NEW t \in Index, Minus(h, t) < Capacity
    PROVE  Succ(h) \in Index /\ Minus(Succ(h), t) = Minus(h, t) + 1
<1>1. Succ(h) \in Index /\ Succ(h) = IF h + 1 = Wrap THEN 0 ELSE h + 1
  BY SuccIs, RingBufAssumption DEF Index
<1>2. Minus(Succ(h), t) = IF Succ(h) >= t THEN Succ(h) - t ELSE Succ(h) - t + Wrap
  BY <1>1, MinusIs
<1>3. Minus(h, t) = IF h >= t THEN h - t ELSE h - t + Wrap
  BY MinusIs
<1>4. /\ h \in 0 .. Wrap - 1 /\ t \in 0 .. Wrap - 1 /\ Wrap \in Nat
      /\ Capacity \in Nat /\ Capacity < Wrap
  BY RingBufAssumption DEF Index
<1>5. QED
  BY <1>1, <1>2, <1>3, <1>4

LEMMA CountAfterGet ==
    ASSUME NEW h \in Index, NEW t \in Index, Minus(h, t) > 0
    PROVE  Succ(t) \in Index /\ Minus(h, Succ(t)) = Minus(h, t) - 1
<1>1. Succ(t) \in Index /\ Succ(t) = IF t + 1 = Wrap THEN 0 ELSE t + 1
  BY SuccIs, RingBufAssumption DEF Index
<1>2. Minus(h, Succ(t)) = IF h >= Succ(t) THEN h - Succ(t) ELSE h - Succ(t) + Wrap
  BY <1>1, MinusIs
<1>3. Minus(h, t) = IF h >= t THEN h - t ELSE h - t + Wrap
  BY MinusIs
<1>4. h \in 0 .. Wrap - 1 /\ t \in 0 .. Wrap - 1 /\ Wrap \in Nat
  BY RingBufAssumption DEF Index
<1>5. QED
  BY <1>1, <1>2, <1>3, <1>4

LEMMA CountType ==
    ASSUME head \in Index, tail \in Index
    PROVE  Count \in Nat /\ (Count = 0 <=> head = tail)
BY MinusIs, RingBufAssumption DEF Count, Index

-----------------------------------------------------------------------------
(* The inductive invariant: a side inside a call holds the index it loaded,  *)
(* because nobody else writes it, and what it found when it checked still    *)
(* holds, because the other side can only make room or bring bytes.          *)

RingInv ==
    /\ RingTypeOK /\ ChecksStayTrue
    /\ p.pc # "idle" => p.head = head /\ p.byte \in Byte
    /\ c.pc # "idle" => c.tail = tail
    /\ p.pc = "publish" => buf[Slot(head)] = p.byte
    /\ c.pc = "publish" => c.byte = buf[Slot(tail)]

LEMMA RingInvInit == Init => RingInv
<1> SUFFICES ASSUME Init PROVE RingInv
  OBVIOUS
<1>1. 0 \in Index
  BY RingBufAssumption DEF Index
<1>2. head = 0 /\ tail = 0 /\ c.pc = "idle" /\ p.pc = "idle"
  BY DEF Init, RbInit
<1>3. Count = 0
  BY <1>1, <1>2, CountType
<1>4. RingTypeOK
  BY <1>1 DEF Init, RbInit, RingTypeOK
<1>5. QED
  BY <1>2, <1>3, <1>4, RingBufAssumption DEF RingInv, ChecksStayTrue

\* The producer's steps keep the invariant.
LEMMA PutKeepsInv ==
    ASSUME RingInv, RbPut, UNCHANGED getVars
    PROVE  RingInv'
<1> USE DEF RingInv, RingTypeOK, ChecksStayTrue
<1>1. /\ head \in Index /\ tail \in Index /\ Count \in Nat /\ Capacity \in Nat
      /\ UNCHANGED <<c, getOk, got, tail>>
  BY CountType, RingBufAssumption
     DEF getVars, RbPut, PutLoad, PutFull, PutRoom, PutStore, PutPublish, ringVars
<1>2. CASE \E b \in Byte : PutLoad(b)
  <2>1. PICK b \in Byte : PutLoad(b)
    BY <1>2
  <2>2. UNCHANGED <<buf, head, putOk>> /\ p' = [pc |-> "check", head |-> head, byte |-> b]
    BY <2>1 DEF PutLoad, ringVars
  <2>3. Count' = Count
    BY <1>1, <2>2 DEF Count
  <2>4. QED
    BY <1>1, <2>2, <2>3
<1>3. CASE PutFull
  <2>1. /\ UNCHANGED <<buf, head>> /\ p' = [p EXCEPT !.pc = "idle"] /\ putOk' = FALSE
    BY <1>3 DEF PutFull, ringVars
  <2>2. Count' = Count
    BY <1>1, <2>1 DEF Count
  <2>3. QED
    BY <1>1, <2>1, <2>2
<1>4. CASE PutRoom
  <2>1. /\ UNCHANGED <<buf, head, putOk>> /\ p' = [p EXCEPT !.pc = "store"]
        /\ p.pc = "check" /\ ~Full(p.head, tail)
    BY <1>4 DEF PutRoom, ringVars
  <2>2. Count' = Count /\ Count < Capacity
    BY <1>1, <2>1 DEF Count, Full
  <2>3. QED
    BY <1>1, <2>1, <2>2
<1>5. CASE PutStore
  <2>1. /\ UNCHANGED <<head, putOk>> /\ p' = [p EXCEPT !.pc = "publish"]
        /\ p.pc = "store" /\ p.head = head /\ p.byte \in Byte
        /\ buf' = [buf EXCEPT ![Slot(head)] = p.byte]
    BY <1>5 DEF PutStore
  <2>2. Count' = Count
    BY <1>1, <2>1 DEF Count
  <2>3. Slot(head) \in 0 .. Capacity - 1
    BY <1>1, SlotType DEF Index
  <2>4. buf' \in [0 .. Capacity - 1 -> Byte \cup {Garbage}] /\ buf'[Slot(head)] = p.byte
    BY <2>1, <2>3
  <2>5. c.pc = "publish" => buf'[Slot(tail)] = buf[Slot(tail)]
    <3>1. SUFFICES ASSUME c.pc = "publish" PROVE Slot(tail) # Slot(head)
      BY <2>1
    <3>2. 0 < Count /\ Count < Capacity
      BY <2>1, <3>1
    <3>3. Slot(tail) # Slot(tail + Count)
      BY <1>1, <3>2, SlotsDiffer DEF Index
    <3>4. QED
      BY <1>1, <3>3, HeadSlot
  <2>6. QED
    BY <1>1, <2>1, <2>2, <2>4, <2>5
<1>6. CASE PutPublish
  <2>1. /\ UNCHANGED buf /\ p' = [p EXCEPT !.pc = "idle"] /\ p.pc = "publish"
        /\ head' = Succ(head) /\ putOk' = TRUE
    BY <1>6 DEF PutPublish
  <2>2. head' \in Index /\ Count' = Count + 1
    BY <1>1, <2>1, CountAfterPut DEF Count
  <2>3. QED
    BY <1>1, <2>1, <2>2
<1>7. QED
  BY <1>2, <1>3, <1>4, <1>5, <1>6 DEF RbPut

\* The consumer's steps keep the invariant.
LEMMA GetKeepsInv ==
    ASSUME RingInv, RbGet, UNCHANGED <<p, putOk>>
    PROVE  RingInv'
<1> USE DEF RingInv, RingTypeOK, ChecksStayTrue
<1>1. /\ head \in Index /\ tail \in Index /\ Count \in Nat /\ Capacity \in Nat
      /\ UNCHANGED <<p, putOk, buf, head>>
  BY CountType, RingBufAssumption
     DEF RbGet, GetLoad, GetEmpty, GetNonEmpty, GetCopy, GetPublish, ringVars
<1>2. CASE GetLoad
  <2>1. UNCHANGED <<tail, getOk, got>> /\ c' = [c EXCEPT !.pc = "check", !.tail = tail]
    BY <1>2 DEF GetLoad, ringVars
  <2>2. Count' = Count
    BY <1>1, <2>1 DEF Count
  <2>3. QED
    BY <1>1, <2>1, <2>2
<1>3. CASE GetEmpty
  <2>1. UNCHANGED <<tail, got>> /\ c' = [c EXCEPT !.pc = "idle"] /\ getOk' = FALSE
    BY <1>3 DEF GetEmpty, ringVars
  <2>2. Count' = Count
    BY <1>1, <2>1 DEF Count
  <2>3. QED
    BY <1>1, <2>1, <2>2
<1>4. CASE GetNonEmpty
  <2>1. /\ UNCHANGED <<tail, getOk, got>> /\ c' = [c EXCEPT !.pc = "copy"]
        /\ c.pc = "check" /\ head # tail
    BY <1>4 DEF GetNonEmpty, ringVars
  <2>2. Count' = Count /\ Count > 0
    BY <1>1, <2>1, CountType DEF Count
  <2>3. QED
    BY <1>1, <2>1, <2>2
<1>5. CASE GetCopy
  <2>1. /\ UNCHANGED <<tail, getOk, got>> /\ c.pc = "copy" /\ c.tail = tail
        /\ c' = [c EXCEPT !.pc = "publish", !.byte = buf[Slot(tail)]]
    BY <1>5 DEF GetCopy, ringVars
  <2>2. Count' = Count
    BY <1>1, <2>1 DEF Count
  <2>3. buf[Slot(tail)] \in Byte \cup {Garbage}
    BY <1>1, SlotType DEF Index
  <2>4. QED
    BY <1>1, <2>1, <2>2, <2>3
<1>6. CASE GetPublish
  <2>1. /\ c.pc = "publish" /\ tail' = Succ(tail) /\ c' = [c EXCEPT !.pc = "idle"]
        /\ getOk' = TRUE /\ got' = c.byte
    BY <1>6 DEF GetPublish
  <2>2. tail' \in Index /\ Count' = Count - 1
    BY <1>1, <2>1, CountAfterGet DEF Count
  <2>3. QED
    BY <1>1, <2>1, <2>2
<1>7. QED
  BY <1>2, <1>3, <1>4, <1>5, <1>6 DEF RbGet

LEMMA RingInvStep == RingInv /\ [Next]_vars => RingInv'
<1> SUFFICES ASSUME RingInv, [Next]_vars PROVE RingInv'
  OBVIOUS
<1>1. CASE UNCHANGED vars
  BY <1>1 DEF vars, ringVars, getVars, RingInv, RingTypeOK, ChecksStayTrue, Count
<1>2. QED
  BY <1>1, PutKeepsInv, GetKeepsInv DEF Next

LEMMA RingInvariant == Spec => []RingInv
<1>1. Init => RingInv
  BY RingInvInit
<1>2. RingInv /\ [Next]_vars => RingInv'
  BY RingInvStep
<1>3. QED
  BY <1>1, <1>2, PTL DEF Spec

\* The stored indices, the locals and the array keep their types.
THEOREM RingTypeCorrect == Spec => []RingTypeOK
BY RingInvariant, PTL DEF RingInv

\* What rb_put and rb_get found when they checked holds until they publish.
THEOREM ChecksAlwaysStayTrue == Spec => []ChecksStayTrue
BY RingInvariant, PTL DEF RingInv

\* The plain accesses to the array never touch the same byte: between the
\* checks and the publications there is at least one byte and room for one
\* more, so head and tail are less than Capacity apart.
THEOREM SlotsNeverShared == Spec => []NoSharedSlot
<1>1. ASSUME RingInv
      PROVE  NoSharedSlot
  <2>1. SUFFICES ASSUME p.pc \in {"store", "publish"}, c.pc \in {"copy", "publish"}
                 PROVE  Slot(p.head) # Slot(c.tail)
    BY DEF NoSharedSlot
  <2>2. head \in Index /\ tail \in Index /\ Count \in Nat /\ Capacity \in Nat
    BY <1>1, CountType, RingBufAssumption DEF RingInv, RingTypeOK
  <2>3. 0 < Count /\ Count < Capacity /\ p.head = head /\ c.tail = tail
    BY <1>1, <2>1 DEF RingInv, ChecksStayTrue
  <2>4. Slot(tail) # Slot(tail + Count)
    BY <2>2, <2>3, SlotsDiffer DEF Index
  <2>5. QED
    BY <2>2, <2>3, <2>4, HeadSlot
<1>2. QED
  BY <1>1, RingInvariant, PTL

-----------------------------------------------------------------------------
(* The refinement of BoundedFifo. *)

\* A window on the array is a sequence of bytes.
LEMMA WindowIsSeq ==
    ASSUME NEW b \in [0 .. Capacity - 1 -> Byte \cup {Garbage}], NEW t \in Index,
           NEW n \in Nat
    PROVE  /\ Window(b, t, n) \in Seq(Byte \cup {Garbage})
           /\ Len(Window(b, t, n)) = n
           /\ \A i \in 1 .. n : Window(b, t, n)[i] = b[Slot(t + i - 1)]
<1>1. ASSUME NEW i \in 1 .. n
      PROVE  b[Slot(t + i - 1)] \in Byte \cup {Garbage}
  <2>1. Slot(t + i - 1) \in 0 .. Capacity - 1
    BY SlotType DEF Index
  <2>2. QED
    BY <2>1
<1>2. Window(b, t, n) \in [1 .. n -> Byte \cup {Garbage}]
  BY <1>1 DEF Window
<1>3. Window(b, t, n) \in Seq(Byte \cup {Garbage}) /\ Len(Window(b, t, n)) = n
  BY <1>2, SeqDef, LenProperties
<1>4. QED
  BY <1>3 DEF Window

\* The contents as a sequence.
LEMMA ContentsIs ==
    ASSUME RingInv
    PROVE  /\ Contents \in Seq(Byte \cup {Garbage}) /\ Len(Contents) = Count
           /\ Count \in Nat /\ Count <= Capacity /\ Capacity \in Nat
           /\ head \in Index /\ tail \in Index /\ tail \in Int
           /\ \A i \in 1 .. Count : Contents[i] = buf[Slot(tail + i - 1)]
<1>1. /\ head \in Index /\ tail \in Index /\ tail \in Int /\ Count \in Nat
      /\ Count <= Capacity /\ Capacity \in Nat
  BY CountType, RingBufAssumption DEF RingInv, RingTypeOK, ChecksStayTrue, Index
<1>2. buf \in [0 .. Capacity - 1 -> Byte \cup {Garbage}]
  BY DEF RingInv, RingTypeOK
<1>3. QED
  BY <1>1, <1>2, WindowIsSeq DEF Contents

\* The contents after a step that keeps the array.
LEMMA ContentsNext ==
    ASSUME RingInv, RingInv', buf' = buf
    PROVE  /\ Contents' \in Seq(Byte \cup {Garbage}) /\ Len(Contents') = Count'
           /\ \A i \in 1 .. Count' : Contents'[i] = buf[Slot(tail' + i - 1)]
<1>1. tail' \in Index /\ head' \in Index
  BY DEF RingInv, RingTypeOK
<1>2. Count' \in Nat
  BY <1>1, MinusIs, RingBufAssumption DEF Count, Index
<1>3. buf \in [0 .. Capacity - 1 -> Byte \cup {Garbage}]
  BY DEF RingInv, RingTypeOK
<1>4. Contents' = Window(buf, tail', Count')
  BY DEF Contents
<1>5. QED
  BY <1>1, <1>2, <1>3, <1>4, WindowIsSeq

\* rb_put's publication appends the byte it stored.
LEMMA PublishIsPut ==
    ASSUME RingInv, RingInv', PutPublish, UNCHANGED getVars
    PROVE  Fifo!Put(p.byte)
<1>1. /\ p.pc = "publish" /\ head' = Succ(head) /\ putOk' = TRUE
      /\ UNCHANGED <<buf, tail, getOk, got>> /\ buf[Slot(head)] = p.byte
      /\ p.byte \in Byte /\ Count < Capacity
  BY DEF PutPublish, getVars, RingInv, ChecksStayTrue
<1>2. Count' = Count + 1
  BY <1>1, ContentsIs, CountAfterPut DEF Count
<1> DEFINE old == Contents
           new == Append(old, p.byte)
<1>3. /\ old \in Seq(Byte \cup {Garbage}) /\ Len(old) = Count /\ Count \in Nat
      /\ \A i \in 1 .. Count : old[i] = buf[Slot(tail + i - 1)]
  BY ContentsIs
<1>4. /\ new \in Seq(Byte \cup {Garbage}) /\ Len(new) = Count + 1
      /\ \A i \in 1 .. Count : new[i] = old[i]
      /\ new[Count + 1] = p.byte
  BY <1>1, <1>3, AppendProperties
<1>5. /\ Contents' \in Seq(Byte \cup {Garbage}) /\ Len(Contents') = Count'
      /\ \A i \in 1 .. Count' : Contents'[i] = buf[Slot(tail' + i - 1)]
  BY <1>1, ContentsNext
<1> HIDE DEF old, new
<1>6. ASSUME NEW i \in 1 .. Count + 1
      PROVE  Contents'[i] = new[i]
  <2>1. Contents'[i] = buf[Slot(tail + i - 1)]
    BY <1>1, <1>2, <1>5
  <2>2. CASE i = Count + 1
    <3>1. tail + i - 1 = tail + Count
      BY <1>3, <2>2, ContentsIs
    <3>2. Slot(tail + Count) = Slot(head)
      BY ContentsIs, HeadSlot
    <3>3. QED
      BY <1>1, <1>4, <2>1, <2>2, <3>1, <3>2
  <2>3. CASE i # Count + 1
    BY <1>3, <1>4, <2>1, <2>3
  <2>4. QED
    BY <2>2, <2>3
<1>7. Contents' = new
  BY <1>2, <1>4, <1>5, <1>6, SeqEqual
<1>8. QED
  BY <1>1, <1>3, <1>7 DEF Fifo!Put, old, new

\* rb_get's publication removes the byte it copied.
LEMMA PublishIsGet ==
    ASSUME RingInv, RingInv', GetPublish, UNCHANGED <<p, putOk>>
    PROVE  Fifo!Get
<1>1. /\ tail' = Succ(tail) /\ getOk' = TRUE /\ got' = buf[Slot(tail)]
      /\ UNCHANGED <<buf, head, putOk>> /\ Count > 0
  BY DEF GetPublish, RingInv, ChecksStayTrue
<1>2. Count' = Count - 1
  BY <1>1, ContentsIs, CountAfterGet DEF Count
<1> DEFINE old == Contents
           new == Tail(old)
<1>3. /\ old \in Seq(Byte \cup {Garbage}) /\ Len(old) = Count /\ Count \in Nat
      /\ tail \in Index /\ tail \in Int
      /\ \A i \in 1 .. Count : old[i] = buf[Slot(tail + i - 1)]
  BY ContentsIs
<1>4. old # <<>>
  BY <1>1, <1>3, EmptySeq
<1>5. /\ new \in Seq(Byte \cup {Garbage}) /\ Len(new) = Count - 1
      /\ \A i \in 1 .. Count - 1 : new[i] = old[i + 1]
      /\ Head(old) = old[1]
  BY <1>3, <1>4, HeadTailProperties
<1>6. /\ Contents' \in Seq(Byte \cup {Garbage}) /\ Len(Contents') = Count'
      /\ \A i \in 1 .. Count' : Contents'[i] = buf[Slot(tail' + i - 1)]
  BY <1>1, ContentsNext
<1> HIDE DEF old, new
<1>7. ASSUME NEW i \in 1 .. Count - 1
      PROVE  Contents'[i] = new[i]
  <2>1. Contents'[i] = buf[Slot(Succ(tail) + i - 1)]
    BY <1>1, <1>2, <1>6
  <2>2. i - 1 \in Nat /\ i + 1 \in 1 .. Count
    BY <1>3
  <2>3. Slot(Succ(tail) + (i - 1)) = Slot(tail + 1 + (i - 1))
    BY <1>3, <2>2, NextTailSlot
  <2>4. Succ(tail) + i - 1 = Succ(tail) + (i - 1)
    BY <1>3, SuccIs, RingBufAssumption
  <2>5. tail + 1 + (i - 1) = tail + (i + 1) - 1
    BY <1>3
  <2>6. new[i] = old[i + 1] /\ old[i + 1] = buf[Slot(tail + (i + 1) - 1)]
    BY <1>3, <1>5, <2>2
  <2>7. QED
    BY <2>1, <2>3, <2>4, <2>5, <2>6
<1>8. Contents' = new
  BY <1>2, <1>5, <1>6, <1>7, SeqEqual
<1>9. got' = Head(old)
  <2>1. 1 \in 1 .. Count /\ tail + 1 - 1 = tail
    BY <1>1, <1>3
  <2>2. old[1] = buf[Slot(tail + 1 - 1)]
    BY <1>3, <2>1
  <2>3. QED
    BY <1>1, <1>5, <2>1, <2>2
<1>10. QED
  BY <1>1, <1>4, <1>8, <1>9 DEF Fifo!Get, old, new

\* The store before the publication is not seen: its slot is free.
LEMMA StoreIsHidden ==
    ASSUME RingInv, PutStore
    PROVE  Contents' = Contents
<1>1. /\ UNCHANGED <<head, tail, putOk>> /\ Count < Capacity
      /\ buf' = [buf EXCEPT ![Slot(head)] = p.byte]
  BY DEF PutStore, RingInv, ChecksStayTrue
<1>2. Count' = Count
  BY <1>1 DEF Count
<1>3. ASSUME NEW i \in 1 .. Count
      PROVE  buf'[Slot(tail + i - 1)] = buf[Slot(tail + i - 1)]
  <2>1. /\ tail + i - 1 \in Int /\ tail + Count \in Int
        /\ 0 < (tail + Count) - (tail + i - 1)
        /\ (tail + Count) - (tail + i - 1) < Capacity
    BY <1>1, ContentsIs
  <2>2. Slot(tail + i - 1) # Slot(tail + Count)
    BY <2>1, SlotsDiffer
  <2>3. Slot(tail + i - 1) # Slot(head)
    BY <2>2, ContentsIs, HeadSlot
  <2>4. Slot(tail + i - 1) \in 0 .. Capacity - 1
    BY <2>1, SlotType
  <2>5. QED
    BY <1>1, <2>3, <2>4 DEF RingInv, RingTypeOK
<1>4. QED
  BY <1>1, <1>2, <1>3 DEF Contents, Window

LEMMA FifoStep ==
    ASSUME RingInv, RingInv', [Next]_vars
    PROVE  [Fifo!Next]_Fifo!fifoVars
<1>1. CASE RbPut /\ UNCHANGED getVars
  <2>1. UNCHANGED <<getOk, got>>
    BY <1>1 DEF getVars
  <2>2. CASE (\E b \in Byte : PutLoad(b)) \/ PutRoom
    BY <2>1, <2>2 DEF PutLoad, PutRoom, ringVars, Fifo!fifoVars, Contents, Count
  <2>3. CASE PutFull
    <3>1. /\ p.head = head /\ Full(head, tail) /\ putOk' = FALSE /\ UNCHANGED ringVars
      BY <2>3 DEF PutFull, RingInv
    <3>2. Len(Contents) = Capacity
      BY <3>1, ContentsIs DEF Full, Count
    <3>3. Contents' = Contents
      BY <3>1 DEF ringVars, Contents, Count
    <3>4. QED
      BY <2>1, <3>1, <3>2, <3>3 DEF Fifo!Refuse, Fifo!Next
  <2>4. CASE PutStore
    BY <2>1, <2>4, StoreIsHidden DEF PutStore, Fifo!fifoVars
  <2>5. CASE PutPublish
    <3>1. p.byte \in Byte
      BY <2>5 DEF PutPublish, RingInv
    <3>2. QED
      BY <1>1, <2>5, <3>1, PublishIsPut DEF Fifo!Next
  <2>6. QED
    BY <1>1, <2>2, <2>3, <2>4, <2>5 DEF RbPut
<1>2. CASE RbGet /\ UNCHANGED <<p, putOk>>
  <2>1. CASE GetLoad \/ GetNonEmpty \/ GetCopy
    BY <1>2, <2>1 DEF GetLoad, GetNonEmpty, GetCopy, ringVars, Fifo!fifoVars, Contents, Count
  <2>2. CASE GetEmpty
    <3>1. c.tail = tail /\ head = tail /\ getOk' = FALSE /\ UNCHANGED <<ringVars, got, putOk>>
      BY <1>2, <2>2 DEF GetEmpty, RingInv
    <3>2. Contents = <<>>
      BY <3>1, ContentsIs, CountType, EmptySeq
    <3>3. Contents' = Contents
      BY <3>1 DEF ringVars, Contents, Count
    <3>4. QED
      BY <3>1, <3>2, <3>3 DEF Fifo!Fail, Fifo!Next
  <2>3. CASE GetPublish
    BY <1>2, <2>3, PublishIsGet DEF Fifo!Next
  <2>4. QED
    BY <1>2, <2>1, <2>2, <2>3 DEF RbGet
<1>3. CASE UNCHANGED vars
  BY <1>3 DEF vars, ringVars, getVars, Fifo!fifoVars, Contents, Count
<1>4. QED
  BY <1>1, <1>2, <1>3 DEF Next

\* Every step of the ring buffer is a step of the bounded FIFO queue or leaves
\* it alone (the safety part of ImplementsFifo).
THEOREM RingIsFifo == Spec => Fifo!Init /\ [][Fifo!Next]_Fifo!fifoVars
<1>1. ASSUME Init
      PROVE  Fifo!Init
  <2>1. head = tail /\ putOk = FALSE /\ getOk = FALSE /\ got = Garbage
    BY <1>1 DEF Init, RbInit
  <2>2. Contents = <<>>
    BY <1>1, <2>1, RingInvInit, ContentsIs, CountType, EmptySeq
  <2>3. QED
    BY <2>1, <2>2 DEF Fifo!Init
<1>2. RingInv /\ RingInv' /\ [Next]_vars => [Fifo!Next]_Fifo!fifoVars
  BY FifoStep
<1>3. QED
  BY <1>1, <1>2, RingInvariant, PTL DEF Spec

=============================================================================
