-------------------------- MODULE SpscDemo_proofs --------------------------
(* Example 04 for every capacity, index width, period, target and stall:     *)
(* what the interrupts produce is accounted for, main finds the pattern in   *)
(* order, and the stall fills the buffer.  The index arithmetic is that of   *)
(* SpscRing_proofs.                                                          *)
EXTENDS SpscDemo, SpscRing_proofs

-----------------------------------------------------------------------------
(* The inductive invariant, in named parts. *)

\* main takes a byte between rb_get and its check.
InHand == IF m.pc = "take" THEN 1 ELSE 0

MainPc == {"poll", "get", "take", "wfi", "asleep", "drops", "t0", "stall",
           "report", "done"}

DemoTypeOK ==
    /\ buf \in [0 .. Capacity - 1 -> Byte \cup {Garbage}]
    /\ head \in Index /\ tail \in Index
    /\ c \in [pc : {"idle", "check", "copy", "publish"}, tail : Index,
              byte : Byte \cup {Garbage}]
    /\ getOk \in BOOLEAN /\ got \in Byte \cup {Garbage}
    /\ m \in [pc : MainPc, consumed : Nat, errors : Nat, expected : Nat,
              highWater : Nat, dropsBefore : Nat, t0 : Nat]
    /\ produced \in Nat /\ dropped \in Nat /\ ticks \in Nat
    /\ burst \in Nat /\ typed \in Nat /\ accepted \in Nat

\* What rb_get found when it checked holds until it publishes, however often
\* it is interrupted, and it runs only where main calls it.
GetUndisturbed ==
    /\ Count <= Capacity
    /\ c.pc # "idle" => m.pc = "get" /\ c.tail = tail
    /\ c.pc \in {"copy", "publish"} => Count > 0
    /\ c.pc = "publish" => c.byte = buf[Slot(tail)]

\* The buffer holds the letters from First on, and main expects the next one.
First == m.consumed + InHand

PatternInBuffer ==
    /\ \A i \in 0 .. Count - 1 : buf[Slot(tail + i)] = (First + i) % Period
    /\ m.expected = m.consumed % Period
    /\ m.pc = "take" => got = m.consumed % Period
    /\ m.errors = 0

PatternUnbroken == accepted <= typed /\ (typed = 0 => PatternInBuffer)

\* While main stalls the bytes stay, a byte is dropped only on a full buffer,
\* and every tick since t0 is a byte in the buffer or a drop.
StallCounted ==
    /\ m.pc \in {"t0", "stall", "report"} =>
           /\ dropped >= m.dropsBefore
           /\ dropped > m.dropsBefore => Count = Capacity
    /\ m.pc \in {"stall", "report"} =>
           Count + (dropped - m.dropsBefore) >= ticks - m.t0
    /\ m.pc = "report" => ticks - m.t0 >= StallTicks

DemoInv ==
    DemoTypeOK /\ GetUndisturbed /\ EveryByteAccounted /\ PatternUnbroken /\ StallCounted

-----------------------------------------------------------------------------
(* What the steps do to the ring. *)

LEMMA DemoConstants ==
    /\ Capacity \in Nat /\ Wrap \in Nat /\ Period \in Nat \ {0}
    /\ Target \in Nat /\ StallTicks \in Nat
    /\ \A n \in Int : n % Period \in Byte /\ n % Period \in Nat
<1>1. Period \in Nat \ {0} /\ 0 .. Period - 1 \subseteq Byte
  BY DemoAssumption
<1>2. ASSUME NEW n \in Int
      PROVE  n % Period \in Byte /\ n % Period \in Nat
  BY <1>1, Remainder
<1>3. QED
  BY <1>2, DemoAssumption, RingBufAssumption

LEMMA RingFacts ==
    ASSUME DemoTypeOK
    PROVE  head \in Int /\ tail \in Int /\ Count \in Nat /\ (Count = 0 <=> head = tail)
BY CountType DEF DemoTypeOK, Index

\* An accepted byte becomes the newest, and the others stay where they are.
LEMMA PutAppends ==
    ASSUME DemoTypeOK, NEW b \in Byte, RbPutAccepts(b)
    PROVE  /\ Count < Capacity
           /\ head' \in Index /\ UNCHANGED tail /\ Count' = Count + 1
           /\ buf' \in [0 .. Capacity - 1 -> Byte \cup {Garbage}]
           /\ \A i \in 0 .. Count - 1 : buf'[Slot(tail + i)] = buf[Slot(tail + i)]
           /\ buf'[Slot(tail + Count)] = b
<1>1. /\ ~Full(head, tail) /\ buf' = [buf EXCEPT ![Slot(head)] = b]
      /\ head' = Succ(head) /\ tail' = tail
  BY DEF RbPutAccepts
<1>2. /\ head \in Index /\ tail \in Index /\ Count \in Nat /\ Capacity \in Nat
      /\ head \in Int /\ tail \in Int
      /\ buf \in [0 .. Capacity - 1 -> Byte \cup {Garbage}]
  BY RingFacts, DemoConstants DEF DemoTypeOK
<1>3. Count < Capacity
  BY <1>1, <1>2 DEF Full, Count
<1>4. head' \in Index /\ Count' = Count + 1
  BY <1>1, <1>2, <1>3, CountAfterPut DEF Count
<1>5. Slot(head) \in 0 .. Capacity - 1
  BY <1>2, SlotType
<1>6. /\ buf' \in [0 .. Capacity - 1 -> Byte \cup {Garbage}]
      /\ buf'[Slot(head)] = b
      /\ \A s \in 0 .. Capacity - 1 : s # Slot(head) => buf'[s] = buf[s]
  BY <1>1, <1>2, <1>5
<1>7. Slot(tail + Count) = Slot(head)
  BY <1>2, HeadSlot
<1>8. ASSUME NEW i \in 0 .. Count - 1
      PROVE  buf'[Slot(tail + i)] = buf[Slot(tail + i)]
  <2>1. /\ i \in Int /\ tail + i \in Int /\ tail + Count \in Int
        /\ 0 < (tail + Count) - (tail + i) /\ (tail + Count) - (tail + i) < Capacity
    BY <1>2, <1>3
  <2>2. Slot(tail + i) # Slot(tail + Count)
    BY <2>1, SlotsDiffer
  <2>3. Slot(tail + i) \in 0 .. Capacity - 1
    BY <2>1, SlotType
  <2>4. QED
    BY <1>6, <1>7, <2>2, <2>3
<1>9. QED
  BY <1>1, <1>3, <1>4, <1>6, <1>7, <1>8

\* A refused byte finds the buffer full.
LEMMA RefusedWhenFull ==
    ASSUME DemoInv, RbPutRefuses
    PROVE  Count = Capacity /\ UNCHANGED <<buf, head, tail>> /\ Count' = Count
<1>1. Minus(head, tail) >= Capacity /\ UNCHANGED <<buf, head, tail>>
  BY DEF RbPutRefuses, Full, ringVars
<1>2. Count \in Nat /\ Capacity \in Nat /\ Count <= Capacity
  BY RingFacts, DemoConstants DEF DemoInv, GetUndisturbed
<1>3. QED
  BY <1>1, <1>2 DEF Count

\* What rb_get published was the oldest byte.
LEMMA GetTakesOldest ==
    ASSUME DemoInv, GetPublish
    PROVE  /\ Count > 0 /\ UNCHANGED <<buf, head>>
           /\ tail' \in Index /\ Count' = Count - 1
           /\ c' = [c EXCEPT !.pc = "idle"] /\ getOk' = TRUE
           /\ got' = buf[Slot(tail)] /\ got' \in Byte \cup {Garbage}
           /\ \A i \in Nat : Slot(tail' + i) = Slot(tail + (i + 1))
<1>1. /\ c.pc = "publish" /\ tail' = Succ(c.tail) /\ c' = [c EXCEPT !.pc = "idle"]
      /\ getOk' = TRUE /\ got' = c.byte /\ UNCHANGED <<buf, head>>
  BY DEF GetPublish
<1>2. Count > 0 /\ c.tail = tail /\ c.byte = buf[Slot(tail)]
  BY <1>1 DEF DemoInv, GetUndisturbed
<1>3. head \in Index /\ tail \in Index /\ tail \in Int
  BY RingFacts DEF DemoInv, DemoTypeOK
<1>4. tail' \in Index /\ Count' = Count - 1
  BY <1>1, <1>2, <1>3, CountAfterGet DEF Count
<1>5. ASSUME NEW i \in Nat
      PROVE  Slot(tail' + i) = Slot(tail + (i + 1))
  <2>1. Slot(Succ(tail) + i) = Slot(tail + 1 + i)
    BY <1>3, NextTailSlot
  <2>2. tail + 1 + i = tail + (i + 1)
    BY <1>3
  <2>3. QED
    BY <1>1, <1>2, <2>1, <2>2
<1>6. c.byte \in Byte \cup {Garbage}
  BY DEF DemoInv, DemoTypeOK
<1>7. QED
  BY <1>1, <1>2, <1>4, <1>5, <1>6

-----------------------------------------------------------------------------
(* The interrupts keep the invariant. *)

\* An accepted byte disturbs nothing main holds; when it is the next letter
\* the pattern goes on.
LEMMA AcceptedKeepsParts ==
    ASSUME DemoInv, NEW b \in Byte, RbPutAccepts(b), UNCHANGED <<getVars, m>>
    PROVE  /\ GetUndisturbed'
           /\ PatternInBuffer /\ b = (First + Count) % Period => PatternInBuffer'
<1>1. /\ UNCHANGED <<c, getOk, got, m>>
  BY DEF getVars
<1>2. /\ Count < Capacity /\ UNCHANGED tail /\ Count' = Count + 1
      /\ \A i \in 0 .. Count - 1 : buf'[Slot(tail + i)] = buf[Slot(tail + i)]
      /\ buf'[Slot(tail + Count)] = b
  BY PutAppends DEF DemoInv
<1>3. Count \in Nat /\ Capacity \in Nat /\ tail \in Int
  BY RingFacts, DemoConstants DEF DemoInv
<1>4. Count > 0 => buf'[Slot(tail)] = buf[Slot(tail)]
  <2>1. SUFFICES ASSUME Count > 0 PROVE buf'[Slot(tail)] = buf[Slot(tail)]
    OBVIOUS
  <2>2. 0 \in 0 .. Count - 1 /\ tail + 0 = tail
    BY <1>3, <2>1
  <2>3. QED
    BY <1>2, <2>2
<1>5. GetUndisturbed'
  <2>1. GetUndisturbed
    BY DEF DemoInv
  <2>2. Count' <= Capacity
    BY <1>2, <1>3
  <2>3. c.pc \in {"copy", "publish"} => Count' > 0
    BY <1>2, <1>3, <2>1 DEF GetUndisturbed
  <2>4. c.pc = "publish" => c.byte = buf'[Slot(tail)]
    BY <1>4, <2>1 DEF GetUndisturbed
  <2>5. QED
    BY <1>1, <1>2, <2>1, <2>2, <2>3, <2>4 DEF GetUndisturbed
<1>6. ASSUME PatternInBuffer, b = (First + Count) % Period
      PROVE  PatternInBuffer'
  <2>1. First' = First
    BY <1>1 DEF First, InHand
  <2>2. ASSUME NEW i \in 0 .. Count' - 1
        PROVE  buf'[Slot(tail' + i)] = (First' + i) % Period
    <3>1. i \in Int /\ (i \in 0 .. Count - 1 \/ i = Count)
      BY <1>2, <1>3
    <3>2. CASE i \in 0 .. Count - 1
      <4>1. buf[Slot(tail + i)] = (First + i) % Period
        BY <1>6, <3>2 DEF PatternInBuffer
      <4>2. QED
        BY <1>2, <2>1, <3>2, <4>1
    <3>3. CASE i = Count
      BY <1>2, <1>6, <2>1, <3>3
    <3>4. QED
      BY <3>1, <3>2, <3>3
  <2>3. QED
    BY <1>1, <1>6, <2>2 DEF PatternInBuffer
<1>7. QED
  BY <1>5, <1>6

\* With the ring and rb_get's variables untouched, so is what they hold.
LEMMA RefusedKeepsParts ==
    ASSUME DemoInv, UNCHANGED <<ringVars, getVars, m>>
    PROVE  GetUndisturbed' /\ (PatternInBuffer => PatternInBuffer')
<1>1. UNCHANGED <<buf, head, tail, c, getOk, got, m>>
  BY DEF ringVars, getVars
<1>2. Count' = Count /\ First' = First
  BY <1>1 DEF Count, First, InHand
<1>3. GetUndisturbed'
  BY <1>1, <1>2 DEF DemoInv, GetUndisturbed
<1>4. PatternInBuffer => PatternInBuffer'
  BY <1>1, <1>2 DEF PatternInBuffer
<1>5. QED
  BY <1>3, <1>4

LEMMA TickKeepsInv ==
    ASSUME DemoInv, SysTickHandler
    PROVE  DemoInv'
<1>1. /\ burst' = burst + 1 /\ ticks' = ticks + 1
      /\ UNCHANGED <<c, getOk, got, m, typed, accepted>>
  BY DEF SysTickHandler, getVars
<1>2. UNCHANGED getVars
  BY DEF SysTickHandler
<1>3. /\ Count \in Nat /\ produced \in Nat /\ dropped \in Nat /\ ticks \in Nat
      /\ burst \in Nat /\ accepted \in Nat /\ typed \in Nat /\ Capacity \in Nat
      /\ m.consumed \in Nat /\ m.dropsBefore \in Nat /\ m.t0 \in Nat
      /\ StallTicks \in Nat /\ InHand \in Nat
  BY RingFacts, DemoConstants DEF DemoInv, DemoTypeOK, InHand
<1>4. InHand' = InHand
  BY <1>1 DEF InHand
<1>5. produced + accepted = m.consumed + Count + InHand
  BY DEF DemoInv, EveryByteAccounted, InHand
<1>6. CASE /\ RbPutAccepts(produced % Period)
           /\ produced' = produced + 1 /\ UNCHANGED dropped
  <2>1. produced % Period \in Byte
    BY <1>3, DemoConstants
  <2>2. /\ Count < Capacity /\ Count' = Count + 1 /\ head' \in Index /\ UNCHANGED tail
        /\ buf' \in [0 .. Capacity - 1 -> Byte \cup {Garbage}]
    BY <1>6, <2>1, PutAppends DEF DemoInv
  <2>3. /\ GetUndisturbed'
        /\ PatternInBuffer /\ produced % Period = (First + Count) % Period
              => PatternInBuffer'
    BY <1>1, <1>2, <1>6, <2>1, AcceptedKeepsParts
  <2>4. DemoTypeOK'
    BY <1>1, <1>3, <1>6, <2>2 DEF DemoInv, DemoTypeOK
  <2>5. EveryByteAccounted'
    <3>1. produced' + accepted' = m'.consumed + Count' + InHand'
      BY <1>1, <1>3, <1>4, <1>5, <1>6, <2>2
    <3>2. QED
      BY <3>1 DEF EveryByteAccounted, InHand
  <2>6. PatternUnbroken'
    <3>1. accepted <= typed /\ (typed = 0 => PatternInBuffer)
      BY DEF DemoInv, PatternUnbroken
    <3>2. ASSUME typed = 0 PROVE PatternInBuffer'
      <4>1. accepted = 0
        BY <1>3, <3>1, <3>2
      <4>2. produced = First + Count
        BY <1>3, <1>5, <4>1 DEF First
      <4>3. QED
        BY <2>3, <3>1, <3>2, <4>2
    <3>3. QED
      BY <1>1, <3>1, <3>2 DEF PatternUnbroken
  <2>7. StallCounted'
    <3>1. StallCounted
      BY DEF DemoInv
    <3>2. m.pc \in {"t0", "stall", "report"} =>
            dropped >= m.dropsBefore /\ ~(dropped > m.dropsBefore)
      BY <1>3, <2>2, <3>1 DEF StallCounted
    <3>3. m.pc \in {"stall", "report"} =>
            Count' + (dropped - m.dropsBefore) >= ticks' - m.t0
      BY <1>1, <1>3, <2>2, <3>1 DEF StallCounted
    <3>4. m.pc = "report" => ticks' - m.t0 >= StallTicks
      BY <1>1, <1>3, <3>1 DEF StallCounted
    <3>5. QED
      BY <1>1, <1>6, <3>2, <3>3, <3>4 DEF StallCounted
  <2>8. QED
    BY <2>3, <2>4, <2>5, <2>6, <2>7 DEF DemoInv
<1>7. CASE RbPutRefuses /\ dropped' = dropped + 1 /\ UNCHANGED produced
  <2>1. Count = Capacity /\ UNCHANGED <<buf, head, tail>> /\ Count' = Count
    BY <1>7, RefusedWhenFull
  <2>2. GetUndisturbed' /\ (PatternInBuffer => PatternInBuffer')
    BY <1>1, <1>2, <1>7, RefusedKeepsParts DEF RbPutRefuses
  <2>3. DemoTypeOK'
    BY <1>1, <1>3, <1>7, <2>1 DEF DemoInv, DemoTypeOK
  <2>4. EveryByteAccounted'
    BY <1>1, <1>7, <2>1 DEF DemoInv, EveryByteAccounted
  <2>5. PatternUnbroken'
    BY <1>1, <2>2 DEF DemoInv, PatternUnbroken
  <2>6. StallCounted'
    <3>1. StallCounted
      BY DEF DemoInv
    <3>2. m.pc \in {"t0", "stall", "report"} => dropped' >= m.dropsBefore
      BY <1>3, <1>7, <3>1 DEF StallCounted
    <3>3. m.pc \in {"stall", "report"} =>
            Count' + (dropped' - m.dropsBefore) >= ticks' - m.t0
      BY <1>1, <1>3, <1>7, <2>1, <3>1 DEF StallCounted
    <3>4. m.pc = "report" => ticks' - m.t0 >= StallTicks
      BY <1>1, <1>3, <3>1 DEF StallCounted
    <3>5. QED
      BY <1>1, <2>1, <3>2, <3>3, <3>4 DEF StallCounted
  <2>7. QED
    BY <2>2, <2>3, <2>4, <2>5, <2>6 DEF DemoInv
<1>8. QED
  BY <1>6, <1>7 DEF SysTickHandler

\* A typed byte breaks the pattern, but is counted like the others.
LEMMA TypedKeepsInv ==
    ASSUME DemoInv, NEW b \in Byte, UART0Handler(b)
    PROVE  DemoInv'
<1>1. /\ burst' = burst + 1 /\ typed' = typed + 1
      /\ UNCHANGED <<c, getOk, got, m, produced, ticks>>
  BY DEF UART0Handler, getVars
<1>2. UNCHANGED getVars
  BY DEF UART0Handler
<1>3. /\ Count \in Nat /\ produced \in Nat /\ dropped \in Nat /\ ticks \in Nat
      /\ burst \in Nat /\ accepted \in Nat /\ typed \in Nat /\ Capacity \in Nat
      /\ m.consumed \in Nat /\ m.dropsBefore \in Nat /\ m.t0 \in Nat
      /\ StallTicks \in Nat /\ InHand \in Nat
  BY RingFacts, DemoConstants DEF DemoInv, DemoTypeOK, InHand
<1>4. InHand' = InHand
  BY <1>1 DEF InHand
<1>5. produced + accepted = m.consumed + Count + InHand
  BY DEF DemoInv, EveryByteAccounted, InHand
<1>6. accepted <= typed /\ StallCounted
  BY DEF DemoInv, PatternUnbroken
<1>7. CASE RbPutAccepts(b) /\ accepted' = accepted + 1 /\ UNCHANGED dropped
  <2>1. /\ Count < Capacity /\ Count' = Count + 1 /\ head' \in Index /\ UNCHANGED tail
        /\ buf' \in [0 .. Capacity - 1 -> Byte \cup {Garbage}]
    BY <1>7, PutAppends DEF DemoInv
  <2>2. GetUndisturbed'
    BY <1>1, <1>2, <1>7, AcceptedKeepsParts
  <2>3. DemoTypeOK'
    BY <1>1, <1>3, <1>7, <2>1 DEF DemoInv, DemoTypeOK
  <2>4. EveryByteAccounted'
    <3>1. produced' + accepted' = m'.consumed + Count' + InHand'
      BY <1>1, <1>3, <1>4, <1>5, <1>7, <2>1
    <3>2. QED
      BY <3>1 DEF EveryByteAccounted, InHand
  <2>5. PatternUnbroken'
    BY <1>1, <1>3, <1>6, <1>7 DEF PatternUnbroken
  <2>6. StallCounted'
    <3>1. m.pc \in {"t0", "stall", "report"} =>
            dropped >= m.dropsBefore /\ ~(dropped > m.dropsBefore)
      BY <1>3, <1>6, <2>1 DEF StallCounted
    <3>2. m.pc \in {"stall", "report"} =>
            Count' + (dropped - m.dropsBefore) >= ticks - m.t0
      BY <1>3, <1>6, <2>1 DEF StallCounted
    <3>3. QED
      BY <1>1, <1>6, <1>7, <3>1, <3>2 DEF StallCounted
  <2>7. QED
    BY <2>2, <2>3, <2>4, <2>5, <2>6 DEF DemoInv
<1>8. CASE RbPutRefuses /\ dropped' = dropped + 1 /\ UNCHANGED accepted
  <2>1. Count = Capacity /\ UNCHANGED <<buf, head, tail>> /\ Count' = Count
    BY <1>8, RefusedWhenFull
  <2>2. GetUndisturbed'
    BY <1>1, <1>2, <1>8, RefusedKeepsParts DEF RbPutRefuses
  <2>3. DemoTypeOK'
    BY <1>1, <1>3, <1>8, <2>1 DEF DemoInv, DemoTypeOK
  <2>4. EveryByteAccounted'
    BY <1>1, <1>8, <2>1 DEF DemoInv, EveryByteAccounted
  <2>5. PatternUnbroken'
    BY <1>1, <1>3, <1>6, <1>8 DEF PatternUnbroken
  <2>6. StallCounted'
    <3>1. m.pc \in {"t0", "stall", "report"} => dropped' >= m.dropsBefore
      BY <1>3, <1>6, <1>8 DEF StallCounted
    <3>2. m.pc \in {"stall", "report"} =>
            Count' + (dropped' - m.dropsBefore) >= ticks - m.t0
      BY <1>3, <1>6, <1>8, <2>1 DEF StallCounted
    <3>3. QED
      BY <1>1, <1>6, <2>1, <3>1, <3>2 DEF StallCounted
  <2>7. QED
    BY <2>2, <2>3, <2>4, <2>5, <2>6 DEF DemoInv
<1>9. QED
  BY <1>7, <1>8 DEF UART0Handler

-----------------------------------------------------------------------------
(* main keeps the invariant. *)

\* Outside rb_get main leaves the ring alone.
LEMMA LocalStepKeepsRing ==
    ASSUME DemoInv, m.pc # "get", UNCHANGED <<ringVars, getVars>>
    PROVE  /\ UNCHANGED <<buf, head, tail, c, getOk, got, Count>>
           /\ GetUndisturbed'
<1>1. UNCHANGED <<buf, head, tail, c, getOk, got>>
  BY DEF ringVars, getVars
<1>2. Count' = Count
  BY <1>1 DEF Count
<1>3. GetUndisturbed'
  BY <1>1, <1>2 DEF DemoInv, GetUndisturbed
<1>4. QED
  BY <1>1, <1>2, <1>3

\* The byte taken is the letter expected.
LEMMA TakeKeepsInv ==
    ASSUME DemoInv, Take, burst' = 0, UNCHANGED <<counters, typed, accepted>>
    PROVE  DemoInv'
<1>1. /\ m.pc = "take" /\ UNCHANGED <<ringVars, getVars>>
      /\ m' = [m EXCEPT !.pc = "poll", !.consumed = @ + 1,
                        !.errors = IF got # m.expected THEN @ + 1 ELSE @,
                        !.expected = (m.consumed + 1) % Period]
  BY DEF Take
<1>2. UNCHANGED <<buf, head, tail, c, getOk, got, Count>> /\ GetUndisturbed'
  BY <1>1, LocalStepKeepsRing
<1>3. UNCHANGED <<produced, dropped, ticks, typed, accepted>>
  BY DEF counters
<1>4. /\ m.consumed \in Nat /\ m.errors \in Nat /\ Count \in Nat
      /\ produced \in Nat /\ accepted \in Nat /\ m.consumed + 1 \in Int
  BY RingFacts DEF DemoInv, DemoTypeOK
<1> DEFINE next == (m.consumed + 1) % Period
           errs == IF got # m.expected THEN m.errors + 1 ELSE m.errors
<1>5. next \in Nat /\ errs \in Nat /\ m.consumed + 1 \in Nat
  BY <1>4, DemoConstants
<1>6. m' = [m EXCEPT !.pc = "poll", !.consumed = m.consumed + 1, !.errors = errs,
                      !.expected = next]
  BY <1>1
<1> HIDE DEF next, errs
<1>7. m' \in [pc : MainPc, consumed : Nat, errors : Nat, expected : Nat,
              highWater : Nat, dropsBefore : Nat, t0 : Nat]
  BY <1>5, <1>6 DEF DemoInv, DemoTypeOK, MainPc
<1>8. /\ m'.pc = "poll" /\ m'.consumed = m.consumed + 1
      /\ m'.expected = (m.consumed + 1) % Period
      /\ m'.errors = IF got # m.expected THEN m.errors + 1 ELSE m.errors
  BY <1>1 DEF DemoInv, DemoTypeOK
<1>9. InHand = 1 /\ InHand' = 0
  BY <1>1, <1>8 DEF InHand
<1>10. First' = First
  BY <1>4, <1>8, <1>9 DEF First
<1>11. DemoTypeOK'
  BY <1>2, <1>3, <1>7 DEF DemoInv, DemoTypeOK
<1>12. EveryByteAccounted'
  <2>1. produced + accepted = m.consumed + Count + 1
    BY <1>1 DEF DemoInv, EveryByteAccounted
  <2>2. produced' + accepted' = m'.consumed + Count' + 0
    BY <1>2, <1>3, <1>4, <1>8, <2>1
  <2>3. QED
    BY <1>8, <2>2 DEF EveryByteAccounted
<1>13. PatternUnbroken'
  <2>1. ASSUME PatternInBuffer PROVE PatternInBuffer'
    <3>1. got = m.expected /\ m.errors = 0
      BY <1>1, <2>1 DEF PatternInBuffer
    <3>2. \A i \in 0 .. Count - 1 : buf[Slot(tail + i)] = (First + i) % Period
      BY <2>1 DEF PatternInBuffer
    <3>3. \A i \in 0 .. Count' - 1 : buf'[Slot(tail' + i)] = (First' + i) % Period
      BY <1>2, <1>10, <3>2
    <3>4. QED
      BY <1>8, <3>1, <3>3 DEF PatternInBuffer
  <2>2. QED
    BY <1>3, <2>1 DEF DemoInv, PatternUnbroken
<1>14. StallCounted'
  BY <1>8 DEF StallCounted
<1>15. QED
  BY <1>2, <1>11, <1>12, <1>13, <1>14 DEF DemoInv

\* A step of main that neither calls rb_get nor takes a byte.
LocalStep == Poll \/ Sleep \/ Wake \/ NoteDrops \/ NoteTime \/ Stall \/ Finish

LEMMA LocalStepFacts ==
    ASSUME DemoInv, LocalStep, UNCHANGED counters
    PROVE  /\ m.pc \notin {"get", "take"} /\ m'.pc # "take"
           /\ UNCHANGED <<ringVars, getVars>>
           /\ m' \in [pc : MainPc, consumed : Nat, errors : Nat, expected : Nat,
                      highWater : Nat, dropsBefore : Nat, t0 : Nat]
           /\ m'.consumed = m.consumed /\ m'.errors = m.errors
           /\ m'.expected = m.expected
           /\ StallCounted'
<1> USE DEF DemoInv, DemoTypeOK, MainPc, Goto
<1>1. /\ Count \in Nat /\ ticks \in Nat /\ dropped \in Nat /\ StallTicks \in Nat
      /\ StallCounted
  BY RingFacts, DemoConstants
<1>2. UNCHANGED <<produced, dropped, ticks>>
  BY DEF counters
<1>3. ASSUME UNCHANGED <<ringVars, getVars>>
      PROVE  Count' = Count
  BY <1>3 DEF ringVars, Count
<1>4. CASE Poll
  BY <1>1, <1>4 DEF Poll, StallCounted
<1>5. CASE Sleep
  BY <1>5 DEF Sleep, StallCounted
<1>6. CASE Wake
  BY <1>6 DEF Wake, StallCounted
<1>7. CASE NoteDrops
  <2>1. m.pc = "drops" /\ m' = [m EXCEPT !.pc = "t0", !.dropsBefore = dropped]
    BY <1>7 DEF NoteDrops
  <2>2. m'.pc = "t0" /\ m'.dropsBefore = dropped
    BY <2>1
  <2>3. StallCounted'
    BY <1>1, <1>2, <2>2 DEF StallCounted
  <2>4. QED
    BY <1>1, <1>7, <2>1, <2>3 DEF NoteDrops
<1>8. CASE NoteTime
  <2>1. m.pc = "t0" /\ m' = [m EXCEPT !.pc = "stall", !.t0 = ticks]
    BY <1>8 DEF NoteTime
  <2>2. m'.pc = "stall" /\ m'.t0 = ticks /\ m'.dropsBefore = m.dropsBefore
    BY <2>1
  <2>3. /\ dropped >= m.dropsBefore
        /\ dropped > m.dropsBefore => Count = Capacity
    BY <1>1, <2>1 DEF StallCounted
  <2>4. Count' = Count
    BY <1>3, <1>8 DEF NoteTime
  <2>5. Count + (dropped - m.dropsBefore) >= ticks - ticks
    BY <1>1, <2>3
  <2>6. StallCounted'
    BY <1>2, <2>2, <2>3, <2>4, <2>5 DEF StallCounted
  <2>7. QED
    BY <1>1, <1>8, <2>1, <2>6 DEF NoteTime
<1>9. CASE Stall
  <2>1. m.pc = "stall" /\ UNCHANGED <<ringVars, getVars>>
    BY <1>9 DEF Stall
  <2>2. Count' = Count
    BY <1>3, <2>1
  <2>3. CASE UNCHANGED m
    BY <1>1, <1>2, <2>1, <2>2, <2>3 DEF StallCounted
  <2>4. CASE ticks - m.t0 >= StallTicks /\ m' = [m EXCEPT !.pc = "report"]
    BY <1>1, <1>2, <2>1, <2>2, <2>4 DEF StallCounted
  <2>5. QED
    BY <1>9, <2>3, <2>4 DEF Stall
<1>10. CASE Finish
  BY <1>10 DEF Finish, StallCounted
<1>11. QED
  BY <1>4, <1>5, <1>6, <1>7, <1>8, <1>9, <1>10 DEF LocalStep

LEMMA LocalStepKeepsInv ==
    ASSUME DemoInv, LocalStep, burst' = 0, UNCHANGED <<counters, typed, accepted>>
    PROVE  DemoInv'
<1>1. /\ m.pc \notin {"get", "take"} /\ m'.pc # "take"
      /\ UNCHANGED <<ringVars, getVars>>
      /\ m' \in [pc : MainPc, consumed : Nat, errors : Nat, expected : Nat,
                 highWater : Nat, dropsBefore : Nat, t0 : Nat]
      /\ m'.consumed = m.consumed /\ m'.errors = m.errors /\ m'.expected = m.expected
      /\ StallCounted'
  BY LocalStepFacts
<1>2. UNCHANGED <<buf, head, tail, c, getOk, got, Count>> /\ GetUndisturbed'
  BY <1>1, LocalStepKeepsRing
<1>3. UNCHANGED <<produced, dropped, ticks, typed, accepted>>
  BY DEF counters
<1>4. DemoTypeOK'
  BY <1>1, <1>2, <1>3 DEF DemoInv, DemoTypeOK
<1>5. EveryByteAccounted'
  BY <1>1, <1>2, <1>3 DEF DemoInv, EveryByteAccounted
<1>6. First' = First
  BY <1>1 DEF First, InHand
<1>7. PatternUnbroken'
  BY <1>1, <1>2, <1>3, <1>6 DEF DemoInv, PatternUnbroken, PatternInBuffer
<1>8. QED
  BY <1>1, <1>2, <1>4, <1>5, <1>7 DEF DemoInv

\* The steps of rb_get, and main's branch on what it returns.
LEMMA GetKeepsDemoInv ==
    ASSUME DemoInv, Get, burst' = 0, UNCHANGED <<counters, typed, accepted>>
    PROVE  DemoInv'
<1>1. m.pc = "get" /\ UNCHANGED <<produced, dropped, ticks, typed, accepted>>
  BY DEF Get, counters
<1>2. /\ head \in Index /\ tail \in Index /\ Count \in Nat /\ tail \in Int
      /\ m.consumed \in Nat /\ produced \in Nat /\ accepted \in Nat
      /\ (Count = 0 <=> head = tail)
  BY RingFacts DEF DemoInv, DemoTypeOK
<1>3. InHand = 0
  BY <1>1 DEF InHand
<1>4. ASSUME UNCHANGED <<buf, head, tail, got>>, m'.pc \in {"get", "wfi"},
             m' = m \/ m' = [m EXCEPT !.pc = "wfi"],
             getOk' \in BOOLEAN,
             c' \in [pc : {"idle", "check", "copy", "publish"}, tail : Index,
                     byte : Byte \cup {Garbage}]
      PROVE  /\ Count' = Count /\ DemoTypeOK' /\ EveryByteAccounted'
             /\ PatternUnbroken' /\ StallCounted'
  <2>1. Count' = Count
    BY <1>4 DEF Count
  <2>2. /\ m' \in [pc : MainPc, consumed : Nat, errors : Nat, expected : Nat,
                   highWater : Nat, dropsBefore : Nat, t0 : Nat]
        /\ m'.consumed = m.consumed /\ m'.errors = m.errors
        /\ m'.expected = m.expected
    BY <1>4 DEF DemoInv, DemoTypeOK, MainPc
  <2>3. DemoTypeOK'
    BY <1>1, <1>4, <2>2 DEF DemoInv, DemoTypeOK
  <2>4. EveryByteAccounted'
    BY <1>1, <1>4, <2>1, <2>2 DEF DemoInv, EveryByteAccounted
  <2>5. First' = First
    BY <1>1, <1>4, <2>2 DEF First, InHand
  <2>6. PatternUnbroken'
    BY <1>1, <1>4, <2>1, <2>2, <2>5 DEF DemoInv, PatternUnbroken, PatternInBuffer
  <2>7. StallCounted'
    BY <1>4 DEF StallCounted
  <2>8. QED
    BY <2>1, <2>3, <2>4, <2>6, <2>7
<1>5. CASE GetLoad /\ UNCHANGED m
  <2>1. /\ UNCHANGED <<buf, head, tail, got, getOk>>
        /\ c' = [c EXCEPT !.pc = "check", !.tail = tail]
    BY <1>5 DEF GetLoad, ringVars
  <2>2. /\ c' \in [pc : {"idle", "check", "copy", "publish"}, tail : Index,
                   byte : Byte \cup {Garbage}]
        /\ getOk \in BOOLEAN /\ c'.pc = "check" /\ c'.tail = tail
    BY <1>2, <2>1 DEF DemoInv, DemoTypeOK
  <2>3. /\ Count' = Count /\ DemoTypeOK' /\ EveryByteAccounted'
        /\ PatternUnbroken' /\ StallCounted'
    BY <1>1, <1>4, <1>5, <2>1, <2>2
  <2>4. GetUndisturbed'
    BY <1>1, <1>5, <2>1, <2>2, <2>3 DEF DemoInv, GetUndisturbed
  <2>5. QED
    BY <2>3, <2>4 DEF DemoInv
<1>6. CASE GetNonEmpty /\ UNCHANGED m
  <2>1. /\ UNCHANGED <<buf, head, tail, got, getOk>> /\ c.pc = "check"
        /\ head # c.tail /\ c' = [c EXCEPT !.pc = "copy"]
    BY <1>6 DEF GetNonEmpty, ringVars
  <2>2. /\ c' \in [pc : {"idle", "check", "copy", "publish"}, tail : Index,
                   byte : Byte \cup {Garbage}]
        /\ getOk \in BOOLEAN /\ c'.pc = "copy" /\ c'.tail = c.tail
    BY <2>1 DEF DemoInv, DemoTypeOK
  <2>3. /\ Count' = Count /\ DemoTypeOK' /\ EveryByteAccounted'
        /\ PatternUnbroken' /\ StallCounted'
    BY <1>1, <1>4, <1>6, <2>1, <2>2
  <2>4. c.tail = tail /\ Count > 0
    BY <1>2, <2>1 DEF DemoInv, GetUndisturbed
  <2>5. GetUndisturbed'
    BY <1>1, <1>6, <2>1, <2>2, <2>3, <2>4 DEF DemoInv, GetUndisturbed
  <2>6. QED
    BY <2>3, <2>5 DEF DemoInv
<1>7. CASE GetCopy /\ UNCHANGED m
  <2>1. /\ UNCHANGED <<buf, head, tail, got, getOk>> /\ c.pc = "copy"
        /\ c' = [c EXCEPT !.pc = "publish", !.byte = buf[Slot(c.tail)]]
    BY <1>7 DEF GetCopy, ringVars
  <2>2. c.tail = tail /\ Count > 0
    BY <2>1 DEF DemoInv, GetUndisturbed
  <2>3. buf[Slot(tail)] \in Byte \cup {Garbage}
    BY <1>2, SlotType DEF DemoInv, DemoTypeOK
  <2>4. /\ c' \in [pc : {"idle", "check", "copy", "publish"}, tail : Index,
                   byte : Byte \cup {Garbage}]
        /\ getOk \in BOOLEAN /\ c'.pc = "publish" /\ c'.tail = tail
        /\ c'.byte = buf[Slot(tail)]
    BY <1>2, <2>1, <2>2, <2>3 DEF DemoInv, DemoTypeOK
  <2>5. /\ Count' = Count /\ DemoTypeOK' /\ EveryByteAccounted'
        /\ PatternUnbroken' /\ StallCounted'
    BY <1>1, <1>4, <1>7, <2>1, <2>4
  <2>6. GetUndisturbed'
    BY <1>1, <1>7, <2>1, <2>2, <2>4, <2>5 DEF DemoInv, GetUndisturbed
  <2>7. QED
    BY <2>5, <2>6 DEF DemoInv
<1>8. CASE GetEmpty /\ Goto("wfi")
  <2>1. /\ UNCHANGED <<buf, head, tail, got>> /\ getOk' = FALSE
        /\ c' = [c EXCEPT !.pc = "idle"] /\ m' = [m EXCEPT !.pc = "wfi"]
    BY <1>8 DEF GetEmpty, ringVars, Goto
  <2>2. /\ c' \in [pc : {"idle", "check", "copy", "publish"}, tail : Index,
                   byte : Byte \cup {Garbage}]
        /\ c'.pc = "idle" /\ m'.pc = "wfi"
    BY <2>1 DEF DemoInv, DemoTypeOK
  <2>3. /\ Count' = Count /\ DemoTypeOK' /\ EveryByteAccounted'
        /\ PatternUnbroken' /\ StallCounted'
    BY <1>4, <2>1, <2>2
  <2>4. GetUndisturbed'
    BY <2>2, <2>3 DEF DemoInv, GetUndisturbed
  <2>5. QED
    BY <2>3, <2>4 DEF DemoInv
<1>9. CASE GetPublish /\ Goto("take")
  <2>1. m' = [m EXCEPT !.pc = "take"]
    BY <1>9 DEF Goto
  <2>2. /\ m' \in [pc : MainPc, consumed : Nat, errors : Nat, expected : Nat,
                   highWater : Nat, dropsBefore : Nat, t0 : Nat]
        /\ m'.pc = "take" /\ m'.consumed = m.consumed /\ m'.errors = m.errors
        /\ m'.expected = m.expected
    BY <2>1 DEF DemoInv, DemoTypeOK, MainPc
  <2>3. /\ Count > 0 /\ UNCHANGED <<buf, head>> /\ tail' \in Index
        /\ Count' = Count - 1 /\ c' = [c EXCEPT !.pc = "idle"] /\ getOk' = TRUE
        /\ got' = buf[Slot(tail)] /\ got' \in Byte \cup {Garbage}
        /\ \A i \in Nat : Slot(tail' + i) = Slot(tail + (i + 1))
    BY <1>9, GetTakesOldest
  <2>4. /\ c' \in [pc : {"idle", "check", "copy", "publish"}, tail : Index,
                   byte : Byte \cup {Garbage}]
        /\ c'.pc = "idle"
    BY <2>3 DEF DemoInv, DemoTypeOK
  <2>5. DemoTypeOK'
    BY <1>1, <2>2, <2>3, <2>4 DEF DemoInv, DemoTypeOK
  <2>6. GetUndisturbed'
    <3>1. Count <= Capacity /\ Capacity \in Nat
      BY DemoConstants DEF DemoInv, GetUndisturbed
    <3>2. QED
      BY <1>2, <2>3, <2>4, <3>1 DEF GetUndisturbed
  <2>7. EveryByteAccounted'
    <3>1. produced + accepted = m.consumed + Count + 0
      BY <1>1 DEF DemoInv, EveryByteAccounted
    <3>2. produced' + accepted' = m'.consumed + Count' + 1
      BY <1>1, <1>2, <2>2, <2>3, <3>1
    <3>3. QED
      BY <2>2, <3>2 DEF EveryByteAccounted
  <2>8. InHand' = 1
    BY <2>2 DEF InHand
  <2>9. ASSUME PatternInBuffer PROVE PatternInBuffer'
    <3>1. \A i \in 0 .. Count - 1 : buf[Slot(tail + i)] = (m.consumed + i) % Period
      BY <1>2, <1>3, <2>9 DEF PatternInBuffer, First
    <3>2. ASSUME NEW i \in 0 .. Count' - 1
          PROVE  buf'[Slot(tail' + i)] = (First' + i) % Period
      <4>1. i \in Nat /\ i + 1 \in 0 .. Count - 1
        BY <1>2, <2>3
      <4>2. buf[Slot(tail + (i + 1))] = (m.consumed + (i + 1)) % Period
        BY <3>1, <4>1
      <4>3. m.consumed + (i + 1) = First' + i
        BY <1>2, <2>2, <2>8, <4>1 DEF First
      <4>4. QED
        BY <2>3, <4>1, <4>2, <4>3
    <3>3. got' = m.consumed % Period
      <4>1. 0 \in 0 .. Count - 1 /\ tail + 0 = tail /\ m.consumed + 0 = m.consumed
        BY <1>2, <2>3
      <4>2. buf[Slot(tail + 0)] = (m.consumed + 0) % Period
        BY <3>1, <4>1
      <4>3. QED
        BY <2>3, <4>1, <4>2
    <3>4. QED
      BY <2>2, <2>9, <3>2, <3>3 DEF PatternInBuffer
  <2>10. PatternUnbroken'
    BY <1>1, <2>9 DEF DemoInv, PatternUnbroken
  <2>11. StallCounted'
    BY <2>2 DEF StallCounted
  <2>12. QED
    BY <2>5, <2>6, <2>7, <2>10, <2>11 DEF DemoInv
<1>10. QED
  BY <1>5, <1>6, <1>7, <1>8, <1>9 DEF Get

-----------------------------------------------------------------------------
(* The theorems. *)

LEMMA DemoInvInit == DemoInit => DemoInv
<1> SUFFICES ASSUME DemoInit PROVE DemoInv
  OBVIOUS
<1>1. 0 \in Index
  BY RingBufAssumption DEF Index
<1>2. /\ head = 0 /\ tail = 0 /\ c = [pc |-> "idle", tail |-> 0, byte |-> Garbage]
      /\ buf = [i \in 0 .. Capacity - 1 |-> Garbage] /\ getOk = FALSE /\ got = Garbage
      /\ m = [ pc |-> "poll", consumed |-> 0, errors |-> 0, expected |-> 0,
               highWater |-> 0, dropsBefore |-> 0, t0 |-> 0 ]
      /\ produced = 0 /\ dropped = 0 /\ ticks = 0 /\ burst = 0 /\ typed = 0
      /\ accepted = 0
  BY DEF DemoInit, RbInit
<1>3. Count = 0 /\ Capacity \in Nat
  BY <1>1, <1>2, CountType, DemoConstants
<1>4. DemoTypeOK
  BY <1>1, <1>2 DEF DemoTypeOK, MainPc
<1>5. GetUndisturbed /\ StallCounted
  BY <1>2, <1>3 DEF GetUndisturbed, StallCounted
<1>6. EveryByteAccounted
  BY <1>2, <1>3 DEF EveryByteAccounted
<1>7. PatternUnbroken
  <2>1. 0 % Period = 0
    BY DemoConstants
  <2>2. QED
    BY <1>2, <1>3, <2>1 DEF PatternUnbroken, PatternInBuffer
<1>8. QED
  BY <1>4, <1>5, <1>6, <1>7 DEF DemoInv

LEMMA DemoInvStep == DemoInv /\ [DemoNext]_demoVars => DemoInv'
<1> SUFFICES ASSUME DemoInv, [DemoNext]_demoVars PROVE DemoInv'
  OBVIOUS
<1>1. CASE UNCHANGED demoVars
  <2>1. UNCHANGED <<buf, head, tail, c, getOk, got, m, produced, dropped, ticks,
                    burst, typed, accepted>>
    BY <1>1 DEF demoVars, ringVars, getVars, counters
  <2>2. Count' = Count /\ First' = First
    BY <2>1 DEF Count, First, InHand
  <2>3. DemoTypeOK' /\ GetUndisturbed'
    BY <2>1, <2>2 DEF DemoInv, DemoTypeOK, GetUndisturbed
  <2>4. EveryByteAccounted' /\ StallCounted'
    BY <2>1, <2>2 DEF DemoInv, EveryByteAccounted, StallCounted
  <2>5. PatternUnbroken'
    BY <2>1, <2>2 DEF DemoInv, PatternUnbroken, PatternInBuffer
  <2>6. QED
    BY <2>3, <2>4, <2>5 DEF DemoInv
<1>2. CASE SysTickHandler
  BY <1>2, TickKeepsInv
<1>3. CASE \E b \in Byte : UART0Handler(b)
  BY <1>3, TypedKeepsInv
<1>4. CASE Main
  <2>1. burst' = 0 /\ UNCHANGED <<counters, typed, accepted>>
    BY <1>4 DEF Main
  <2>2. Get \/ Take \/ LocalStep
    BY <1>4 DEF Main, LocalStep
  <2>3. QED
    BY <2>1, <2>2, GetKeepsDemoInv, TakeKeepsInv, LocalStepKeepsInv
<1>5. QED
  BY <1>1, <1>2, <1>3, <1>4 DEF DemoNext

LEMMA DemoInvariant == DemoSpec => []DemoInv
<1>1. DemoInit => DemoInv
  BY DemoInvInit
<1>2. DemoInv /\ [DemoNext]_demoVars => DemoInv'
  BY DemoInvStep
<1>3. QED
  BY <1>1, <1>2, PTL DEF DemoSpec

\* What g_produced and the typed bytes count, main has consumed, holds, or will
\* find in the buffer: no byte is lost or counted twice between the interrupt
\* handlers and main, whatever interrupts rb_get (main.c of example 04).
THEOREM BytesAlwaysAccounted == DemoSpec => []EveryByteAccounted
<1>1. DemoInv => EveryByteAccounted
  BY DEF DemoInv
<1>2. QED
  BY <1>1, DemoInvariant, PTL

\* With nothing typed main counts no sequence error, however many letters the
\* full buffer refused: g_produced does not count those, so the handler offers
\* the same letter again.
THEOREM SequenceAlwaysIntact == DemoSpec => []SequenceIntact
<1>1. DemoInv => SequenceIntact
  BY DEF DemoInv, PatternUnbroken, PatternInBuffer, SequenceIntact
<1>2. QED
  BY <1>1, DemoInvariant, PTL

\* A stall of at least as many ticks as the buffer holds bytes ends with a full
\* buffer and all the ticks beyond its capacity dropped.
THEOREM OverrunAlwaysForced == DemoSpec => []OverrunForced
<1>1. ASSUME DemoInv
      PROVE  OverrunForced
  <2>1. SUFFICES ASSUME StallTicks >= Capacity, m.pc = "report"
                 PROVE  Count = Capacity /\ dropped - m.dropsBefore >= StallTicks - Capacity
    BY DEF OverrunForced
  <2>2. /\ Count \in Nat /\ Capacity \in Nat /\ StallTicks \in Nat /\ dropped \in Nat
        /\ ticks \in Nat /\ m.dropsBefore \in Nat /\ m.t0 \in Nat
    BY <1>1, RingFacts, DemoConstants DEF DemoInv, DemoTypeOK
  <2>3. Count <= Capacity
    BY <1>1 DEF DemoInv, GetUndisturbed
  <2>4. /\ dropped >= m.dropsBefore
        /\ dropped > m.dropsBefore => Count = Capacity
        /\ Count + (dropped - m.dropsBefore) >= ticks - m.t0
        /\ ticks - m.t0 >= StallTicks
    BY <1>1, <2>1 DEF DemoInv, StallCounted
  <2>5. QED
    BY <2>1, <2>2, <2>3, <2>4
<1>2. QED
  BY <1>1, DemoInvariant, PTL

=============================================================================
