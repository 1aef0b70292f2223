--------------------------- MODULE I2cMaster_proofs ---------------------------
(* Theorems about the I2C driver, for every budget, length and number of     *)
(* clocks a target may need: type correctness with the bounds of the driver's *)
(* loops, and, if nine clocks are enough for the target, that recovery       *)
(* restores the bus.                                                         *)
EXTENDS I2cMaster, TLAPS

-----------------------------------------------------------------------------
(* Types and loop bounds *)

LineType == [bus : Buses, dr : Nat, shift : Nat, reads : BOOLEAN]
TargetType == [got : Seq(Nat), sent : Nat, refused : BOOLEAN,
               stretch : {"may", "holds", "over"}, hold : 0 .. MaxHold]

HardwareType ==
    /\ cr1 \subseteq Cr1Bits /\ sr1 \subseteq Sr1Flags
    /\ line \in LineType /\ pins \in {"i2c", "gpio"} /\ target \in TargetType

CallType == [op : {"none", "write", "read", "write_read", "init", "recover"},
             len : 0 .. MaxLen, rlen : 0 .. MaxLen, reads : BOOLEAN,
             ready : BOOLEAN]

DriverType ==
    /\ pc \in {"idle", "param", "recover", "clock", "manual", "init", "swrst", "enable",
              "address", "clear", "put", "take", "sent"} \cup Waits \cup DOMAIN Sets
    /\ call \in CallType
    /\ i \in 0 .. MaxLen + 9 /\ n \in 1 .. Loops /\ mid \in BOOLEAN
    /\ prompt \in BOOLEAN /\ doubled \in BOOLEAN
    /\ reg \subseteq Cr1Bits /\ ret \in Result \cup {"none"}
    /\ buf \in Seq(Nat) /\ Len(buf) <= MaxLen

\* The loops run over bytes there are, and the buffer holds what they took.
LoopBounds ==
    /\ pc \in {"busy", "start", "sb", "address", "addr", "clear"} =>
          buf = <<>> /\ (call.reads => Length > 0)
    /\ pc \in {"txe", "put", "btf", "sent"} => buf = <<>> /\ ~call.reads
    /\ pc \in {"txe", "put"} => i < Length
    /\ pc \in {"refuse", "queue", "rxne", "take"} =>
          call.reads /\ i < Length /\ Len(buf) = i
    /\ pc = "clock" => i < 9

TypeInv == HardwareType /\ DriverType /\ LoopBounds

\* Changing fields keeps the records' types.
LEMMA LineExcept ==
    ASSUME NEW l \in LineType
    PROVE  /\ \A b \in Buses : [l EXCEPT !.bus = b] \in LineType
           /\ \A d \in Nat : [l EXCEPT !.dr = d] \in LineType
           /\ \A s \in Nat : [l EXCEPT !.shift = s] \in LineType
           /\ \A b \in Buses, d \in Nat : [l EXCEPT !.bus = b, !.dr = d] \in LineType
           /\ \A b \in Buses, s \in Nat : [l EXCEPT !.bus = b, !.shift = s] \in LineType
           /\ \A d \in Nat, s \in Nat : [l EXCEPT !.shift = s, !.dr = d] \in LineType
           /\ \A d \in Nat, s \in Nat : [l EXCEPT !.dr = d, !.shift = s] \in LineType
  BY Zenon DEF LineType

Stretches == {"may", "holds", "over"}

\* The same for the target.
LEMMA TargetExcept ==
    ASSUME NEW t \in TargetType
    PROVE  /\ \A g \in Seq(Nat), k \in Nat, r \in BOOLEAN :
                 [t EXCEPT !.got = g, !.sent = k, !.refused = r] \in TargetType
           /\ \A h \in 0 .. MaxHold, st \in Stretches :
                 [t EXCEPT !.hold = h, !.stretch = st] \in TargetType
           /\ \A r \in BOOLEAN, st \in Stretches :
                 [t EXCEPT !.refused = r, !.stretch = st] \in TargetType
           /\ \A st \in Stretches : [t EXCEPT !.stretch = st] \in TargetType
           /\ \A g \in Seq(Nat), st \in Stretches :
                 [t EXCEPT !.got = g, !.stretch = st] \in TargetType
           /\ \A k \in Nat, r \in BOOLEAN, st \in Stretches :
                 [t EXCEPT !.sent = k, !.stretch = st, !.refused = r] \in TargetType
           /\ \A h \in 0 .. MaxHold : [t EXCEPT !.hold = h] \in TargetType
  BY Zenon DEF TargetType, Stretches

\* The types of the fields.
LEMMA Fields ==
    ASSUME HardwareType
    PROVE  /\ line.bus \in Buses /\ line.dr \in Nat /\ line.shift \in Nat
           /\ line.reads \in BOOLEAN
           /\ target.got \in Seq(Nat) /\ target.sent \in Nat
           /\ target.sent + 1 \in Nat
           /\ Append(target.got, line.shift) \in Seq(Nat)
           /\ target.hold \in 0 .. MaxHold
  BY DEF HardwareType, LineType, TargetType

\* Leaving the lines keeps the target's type.
LEMMA LeaveLinesType ==
    ASSUME HardwareType, LeaveLines
    PROVE  target' \in TargetType
  <1>1. PICK h \in IF line.bus \in {"free", "start", "refused"}
                   THEN {target.hold} ELSE 0 .. MaxHold :
                target' = [target EXCEPT !.hold = h, !.stretch = "may"]
    BY DEF LeaveLines
  <1>2. h \in 0 .. MaxHold
    BY <1>1, Fields
  <1>3. QED BY <1>1, <1>2, TargetExcept DEF HardwareType, Stretches

\* SWRST leaves the types as they are.
LEMMA SoftwareResetType ==
    ASSUME HardwareType, SoftwareReset, pins' \in {"i2c", "gpio"}
    PROVE  HardwareType'
  <1>1. target' \in TargetType
    BY LeaveLinesType DEF SoftwareReset
  <1>2. line' \in LineType
    BY DEF SoftwareReset, NoTransfer, LineType, Buses
  <1>3. QED BY <1>1, <1>2 DEF SoftwareReset, HardwareType

\* What the peripheral and the target do by themselves keeps their types.
LEMMA HardwareKeepsType ==
    ASSUME PeripheralAssumption, HardwareType,
           Hardware \/ Stretch \/ Unstretch
    PROVE  HardwareType'
  <1> DEFINE Bits == cr1' \subseteq Cr1Bits /\ sr1' \subseteq Sr1Flags
             Recs == line' \in LineType /\ target' \in TargetType
  <1>a. {"start", "free", "refused", "addressed", "rx"} \subseteq Buses
        /\ "may" \in Stretches /\ "holds" \in Stretches /\ "over" \in Stretches
        /\ 0 \in Nat /\ <<>> \in Seq(Nat) /\ TRUE \in BOOLEAN /\ FALSE \in BOOLEAN
        /\ 0 \in 0 .. MaxHold
    BY DEF Buses, Stretches, PeripheralAssumption
  <1>b. line \in LineType /\ target \in TargetType
    BY DEF HardwareType
  <1>c. ASSUME Refused PROVE Recs
    <2>1. line' \in LineType
      BY <1>a, <1>b, <1>c, LineExcept DEF Refused
    <2>2. target' \in TargetType
      BY <1>a, <1>b, <1>c, TargetExcept DEF Refused
    <2>3. QED BY <2>1, <2>2
  <1>d. ASSUME Refused, cr1' = cr1 PROVE Bits
    BY <1>d DEF Refused, HardwareType, Sr1Flags
  <1>1. ASSUME SendStart PROVE Bits /\ Recs
    <2>1. Bits
      BY <1>1 DEF SendStart, HardwareType, Sr1Flags
    <2>2. line' \in LineType
      BY <1>1, <1>a, <1>b, LineExcept DEF SendStart
    <2>3. target' \in TargetType
      BY <1>1, <1>a, <1>b, TargetExcept DEF SendStart
    <2>4. QED BY <2>1, <2>2, <2>3
  <1>2. ASSUME SendStop PROVE Bits /\ Recs
    <2>1. Bits
      BY <1>2 DEF SendStop, HardwareType
    <2>2. line' \in LineType
      BY <1>2, <1>a, <1>b, LineExcept DEF SendStop
    <2>3. target' \in TargetType
      <3>1. PICK h \in IF line.bus = "rx" THEN 0 .. MaxHold ELSE {0} :
                   target' = [target EXCEPT !.hold = h, !.stretch = "may"]
        BY <1>2 DEF SendStop
      <3>2. h \in 0 .. MaxHold
        BY <3>1, <1>a
      <3>3. QED BY <3>1, <3>2, <1>a, <1>b, TargetExcept
    <2>4. QED BY <2>1, <2>2, <2>3
  <1>3. ASSUME SendAddress PROVE Bits /\ Recs
    <2>1. CASE Refused
      BY <2>1, <1>3, <1>c, <1>d DEF SendAddress
    <2>2. CASE ~Refused
      <3>1. Bits
        BY <1>3, <2>2 DEF SendAddress, HardwareType, Sr1Flags
      <3>2. /\ line' = [line EXCEPT !.bus = "addressed"]
            /\ target' = [target EXCEPT !.stretch = "may"]
        BY <1>3, <2>2, Zenon DEF SendAddress
      <3>3. line' \in LineType /\ target' \in TargetType
        BY <3>2, <1>a, <1>b, LineExcept, TargetExcept, Zenon
      <3>4. QED BY <3>1, <3>3
    <2>3. QED BY <2>1, <2>2
  <1>4. ASSUME SendByte PROVE Bits /\ Recs
    <2>1. CASE Refused
      BY <2>1, <1>4, <1>c, <1>d DEF SendByte
    <2>2. CASE ~Refused
      <3>1. Bits
        BY <1>4, <2>2 DEF SendByte, HardwareType, Sr1Flags
      <3>2. line' \in LineType
        <4>1. line' = [line EXCEPT !.shift = line.dr, !.dr = 0]
          BY <1>4, <2>2 DEF SendByte
        <4>2. line.dr \in Nat
          BY Fields
        <4>3. QED BY <4>1, <4>2, <1>a, <1>b, LineExcept, Zenon
      <3>3. target' \in TargetType
        <4>1. target' = [target EXCEPT !.got = Append(target.got, line.shift),
                                       !.stretch = "may"]
          BY <1>4, <2>2 DEF SendByte
        <4>2. Append(target.got, line.shift) \in Seq(Nat)
          BY Fields
        <4>3. QED BY <4>1, <4>2, <1>a, <1>b, TargetExcept, Zenon
      <3>4. QED BY <3>1, <3>2, <3>3
    <2>3. QED BY <2>1, <2>2
  <1>5. ASSUME ReceiveByte PROVE Bits /\ Recs
    <2>1. Bits
      BY <1>5 DEF ReceiveByte, HardwareType, Sr1Flags
    <2> DEFINE bus == IF "ACK" \in cr1 THEN "rx" ELSE "refused"
               byte == target.sent + 1
    <2>2. bus \in Buses /\ byte \in Nat
      BY <1>a, Fields
    <2>3. \/ line' = [line EXCEPT !.bus = bus, !.shift = byte]
          \/ line' = [line EXCEPT !.bus = bus, !.dr = byte]
      BY <1>5 DEF ReceiveByte
    <2>4. target' = [target EXCEPT !.sent = byte, !.stretch = "may",
                                   !.refused = "ACK" \notin cr1]
      BY <1>5, Zenon DEF ReceiveByte
    <2> HIDE DEF bus, byte
    <2>5. line' \in LineType
      <3>1. CASE line' = [line EXCEPT !.bus = bus, !.shift = byte]
        BY <2>2, <3>1, <1>b, LineExcept, Zenon
      <3>2. CASE line' = [line EXCEPT !.bus = bus, !.dr = byte]
        BY <2>2, <3>2, <1>b, LineExcept, Zenon
      <3>3. QED BY <2>3, <3>1, <3>2, Zenon
    <2>6. ("ACK" \notin cr1) \in BOOLEAN
      OBVIOUS
    <2>7. target' \in TargetType
      BY <2>2, <2>4, <2>6, <1>a, <1>b, TargetExcept, Zenon
    <2>8. QED BY <2>1, <2>5, <2>7
  <1>6. ASSUME Stretch \/ Unstretch PROVE Bits /\ Recs
    BY <1>6, <1>a, <1>b, TargetExcept DEF Stretch, Unstretch, HardwareType
  <1>7. pins' \in {"i2c", "gpio"}
    BY DEF Hardware, Stretch, Unstretch, HardwareType
  <1>8. QED
    BY <1>1, <1>2, <1>3, <1>4, <1>5, <1>6, <1>7 DEF Hardware, HardwareType

\* Every access of the driver keeps the types of the hardware.
LEMMA DriverKeepsHardwareType ==
    ASSUME PeripheralAssumption, MasterAssumption, HardwareType, DriverType, Driver
    PROVE  HardwareType'
  <1> DEFINE Bits == cr1' \subseteq Cr1Bits /\ sr1' \subseteq Sr1Flags
  <1>a. {"start", "free", "address", "rx", "tx"} \subseteq Buses /\ 0 \in Nat
    BY DEF Buses
  <1>b. /\ line \in LineType /\ target \in TargetType /\ pins \in {"i2c", "gpio"}
        /\ cr1 \subseteq Cr1Bits /\ sr1 \subseteq Sr1Flags
    BY DEF HardwareType
  <1>1. CASE Found \/ NotYet \/ TimeOut \/ ReadCr1 \/ Sent \/ NoBytes
    BY <1>1, <1>b DEF Found, NotYet, TimeOut, ReadCr1, Sent, NoBytes,
                      hardwareVars, HardwareType
  <1>2. CASE CheckAf
    <2>1. /\ line' = line \/ ClearAddr
          /\ sr1' \subseteq sr1 \cup {"TXE"}
          /\ UNCHANGED <<cr1, pins, target>>
      BY <1>2 DEF CheckAf, ClearAddr, hardwareVars
    <2>2. line' = line \/ line' = [line EXCEPT !.bus = "rx"]
                       \/ line' = [line EXCEPT !.bus = "tx"]
      BY <2>1 DEF ClearAddr
    <2>3. line' \in LineType
      BY <2>2, <1>a, <1>b, LineExcept
    <2>4. QED BY <2>1, <2>3, <1>b DEF HardwareType, Sr1Flags
  <1>3. CASE WriteCr1
    <2>1. Sets[pc] \subseteq Cr1Bits /\ reg \subseteq Cr1Bits
      BY <1>3 DEF WriteCr1, Sets, Cr1Bits, DriverType
    <2>2. cr1' \subseteq Cr1Bits
      BY <1>3, <2>1 DEF WriteCr1
    <2>3. QED BY <1>3, <2>2, <1>b DEF WriteCr1, HardwareType
  <1>4. CASE Address
    <2>1. call.reads \in BOOLEAN
      BY DEF DriverType, CallType
    <2>2. line' \in LineType
      BY <1>4, <2>1, <1>a, <1>b DEF Address, WriteAddress, LineType
    <2>3. QED BY <1>4, <2>2, <1>b DEF Address, WriteAddress, HardwareType
  <1>5. CASE Clear
    <2>1. line' \in LineType
      <3>1. line' = line \/ line' = [line EXCEPT !.bus = "rx"]
                         \/ line' = [line EXCEPT !.bus = "tx"]
        BY <1>5 DEF Clear, ClearAddr
      <3>2. QED BY <3>1, <1>a, <1>b, LineExcept
    <2>2. sr1' \subseteq Sr1Flags
      BY <1>5, <1>b DEF Clear, ClearAddr, Sr1Flags
    <2>3. QED BY <1>5, <2>1, <2>2, <1>b DEF Clear, ClearAddr, HardwareType
  <1>6. CASE Put
    <2>1. i + 1 \in Nat
      BY MasterAssumption DEF DriverType, MasterAssumption
    <2>2. line' \in LineType
      <3>1. line' = line \/ line' = [line EXCEPT !.shift = i + 1]
                         \/ line' = [line EXCEPT !.dr = i + 1]
        BY <1>6 DEF Put, WriteByte
      <3>2. QED BY <2>1, <3>1, <1>b, LineExcept
    <2>3. QED BY <1>6, <2>2, <1>b DEF Put, WriteByte, HardwareType
  <1>7. CASE Take
    <2>1. line' \in LineType
      <3>1. line' = [line EXCEPT !.dr = line.shift, !.shift = 0]
        BY <1>7 DEF Take, ReadByte
      <3>2. line.shift \in Nat
        BY Fields
      <3>3. QED BY <3>1, <3>2, <1>a, <1>b, LineExcept, Zenon
    <2>2. QED BY <1>7, <2>1, <1>b DEF Take, ReadByte, HardwareType
  <1>8. CASE TakePins
    <2>1. target' \in TargetType
      BY <1>8, LeaveLinesType DEF TakePins
    <2>2. line' \in LineType
      BY <1>8, <1>a, <1>b, LineExcept DEF TakePins
    <2>3. QED BY <1>8, <2>1, <2>2, <1>b DEF TakePins, HardwareType
  <1>9. CASE Clock
    <2> DEFINE h == IF target.hold = 0 THEN 0 ELSE target.hold - 1
    <2>1. h \in 0 .. MaxHold
      BY Fields DEF PeripheralAssumption
    <2>2. target' = [target EXCEPT !.hold = h]
      BY <1>9 DEF Clock
    <2> HIDE DEF h
    <2>3. target' \in TargetType
      BY <2>1, <2>2, <1>b, TargetExcept, Zenon
    <2>4. QED BY <1>9, <2>3, <1>b DEF Clock, HardwareType
  <1>10. CASE Recovered \/ ResetPeripheral
    BY <1>10, <1>b, SoftwareResetType DEF Recovered, ResetPeripheral
  <1>11. CASE GivePins \/ Enable
    BY <1>11, <1>b DEF GivePins, Enable, Cr1Bits, HardwareType
  <1>12. QED
    BY <1>1, <1>2, <1>3, <1>4, <1>5, <1>6, <1>7, <1>8, <1>9, <1>10, <1>11
       DEF Driver, Transfer

\* What a loop has to move fits the bound.
LEMMA LengthType ==
    ASSUME DriverType
    PROVE  Length \in 0 .. MaxLen /\ Length \in Nat
  BY DEF DriverType, CallType, Length

\* Every step of the driver stays within the bounds of its loop.
LEMMA DriverKeepsBounds ==
    ASSUME MasterAssumption, TypeInv, Driver
    PROVE  DriverType' /\ LoopBounds'
  <1> USE DEF TypeInv, MasterAssumption
  <1>a. DriverType /\ LoopBounds /\ prompt' = prompt /\ doubled' \in BOOLEAN
    BY DEF Driver
  <1>b. Length \in 0 .. MaxLen /\ Length \in Nat
    BY LengthType
  <1>c. ASSUME call' = call PROVE Length' = Length
    BY <1>c DEF Length
  <1>1. CASE Found
    <2>1. /\ pc' = AfterWait[pc] /\ pc \in Waits /\ n' = Loops
          /\ UNCHANGED <<call, i, mid, reg, ret, buf, ladder>>
      BY <1>1 DEF Found
    <2>2. \/ pc = "busy" /\ pc' = "start"
          \/ pc = "sb" /\ pc' = "address"
          \/ pc = "addr" /\ pc' = "clear"
          \/ pc = "txe" /\ pc' = "put"
          \/ pc = "btf" /\ pc' = "sent"
          \/ pc = "rxne" /\ pc' = "take"
      BY <2>1 DEF Waits, AfterWait
    <2>3. DriverType'
      BY <2>1, <2>2, <1>a DEF DriverType, Sets
    <2>4. LoopBounds'
      BY <2>1, <2>2, <1>a, <1>c DEF LoopBounds
    <2>5. QED BY <2>3, <2>4
  <1>2. CASE NotYet
    <2>1. /\ pc' = pc /\ n' \in 1 .. Loops /\ mid' = TRUE
          /\ UNCHANGED <<call, i, reg, ret, buf, ladder>>
      BY <1>2, <1>a DEF NotYet, DriverType
    <2>2. DriverType' /\ LoopBounds'
      BY <2>1, <1>a, <1>c DEF DriverType, LoopBounds
    <2>3. QED BY <2>2
  <1>d. ASSUME NEW r \in Result, Return(r) PROVE DriverType' /\ LoopBounds'
    <2>1. DriverType'
      <3>1. /\ pc' = "idle" /\ ret' \in Result /\ n' = Loops /\ mid' = FALSE
            /\ reg' = {} /\ UNCHANGED <<call, i, buf>>
        BY <1>d DEF Return
      <3>2. n' \in 1 .. Loops
        BY <3>1
      <3>3. QED BY <3>1, <3>2, <1>a DEF DriverType
    <2>2. LoopBounds'
      BY <1>d DEF Return, LoopBounds
    <2>3. QED BY <2>1, <2>2
  <1>3. CASE TimeOut
    <2>1. Error[pc] \in Result /\ Return(Error[pc])
      BY <1>3 DEF TimeOut, Waits, Error, Result
    <2>2. QED BY <2>1, <1>d
  <1>4. CASE CheckAf
    <2>1. /\ pc' = pc \/ pc' = "nack"
          /\ mid' = FALSE /\ UNCHANGED <<call, i, n, reg, ret, buf, ladder>>
      BY <1>4 DEF CheckAf
    <2>2. DriverType' /\ LoopBounds'
      BY <2>1, <1>a, <1>c DEF DriverType, LoopBounds, Sets
    <2>3. QED BY <2>2
  <1>5. CASE ReadCr1
    <2>1. /\ pc' = pc /\ mid' = TRUE /\ reg' = cr1
          /\ UNCHANGED <<call, i, n, ret, buf, ladder>>
      BY <1>5 DEF ReadCr1
    <2>2. DriverType' /\ LoopBounds'
      BY <2>1, <1>a, <1>c DEF DriverType, LoopBounds, HardwareType
    <2>3. QED BY <2>2
  <1>6. CASE WriteCr1
    <2>1. CASE Return("OK") \/ Return("NACK")
      BY <2>1, <1>d DEF Result
    <2>2. CASE ~(Return("OK") \/ Return("NACK"))
      <3>1. /\ mid' = FALSE /\ reg' = {}
            /\ UNCHANGED <<call, i, n, ret, buf, ladder>>
            /\ \/ pc = "start" /\ pc' = "sb"
               \/ pc = "refuse" /\ pc' = "queue"
               \/ pc = "queue" /\ pc' = "rxne"
        <4>1. /\ pc \in {"start", "refuse", "queue"}
              /\ pc' = [start |-> "sb", refuse |-> "queue", queue |-> "rxne"][pc]
              /\ mid' = FALSE /\ reg' = {}
              /\ UNCHANGED <<call, i, n, ret, buf, ladder>>
          BY <1>6, <2>2, Zenon DEF WriteCr1
        <4>2. QED BY <4>1
      <3>2. DriverType'
        BY <3>1, <1>a DEF DriverType, Sets, Waits
      <3>3. LoopBounds'
        BY <3>1, <1>a, <1>c DEF LoopBounds
      <3>4. QED BY <3>2, <3>3
    <2>3. QED BY <2>1, <2>2
  <1>7. CASE Address
    <2>1. /\ pc = "address" /\ pc' = "addr"
          /\ UNCHANGED <<call, i, n, mid, reg, ret, buf, ladder>>
      BY <1>7 DEF Address, Goto
    <2>2. DriverType' /\ LoopBounds'
      BY <2>1, <1>a, <1>c DEF DriverType, LoopBounds, Waits
    <2>3. QED BY <2>2
  <1>8. CASE Clear
    <2>1. /\ pc = "clear" /\ i' = 0
          /\ pc' = IF call.reads THEN NextIn(0) ELSE NextOut(0)
          /\ UNCHANGED <<call, n, mid, reg, ret, buf, ladder>>
      BY <1>8 DEF Clear
    <2>2. buf = <<>> /\ (call.reads => Length > 0)
      BY <2>1, <1>a DEF LoopBounds
    <2>3. DriverType'
      BY <2>1, <1>a DEF DriverType, Sets, Waits, NextIn, NextOut
    <2>4. Length' = Length
      BY <2>1, <1>c
    <2>5. LoopBounds'
      <3>1. CASE call.reads
        <4>1. pc' \in {"refuse", "rxne"} /\ Length > 0
          BY <2>1, <2>2, <3>1, <1>b DEF NextIn
        <4>2. QED BY <2>1, <2>2, <2>4, <3>1, <4>1 DEF LoopBounds
      <3>2. CASE ~call.reads
        <4>1. pc' \in {"txe", "btf"} /\ (pc' = "txe" => 0 < Length)
          BY <2>1, <3>2 DEF NextOut
        <4>2. QED BY <2>1, <2>2, <2>4, <3>2, <4>1 DEF LoopBounds
      <3>3. QED BY <3>1, <3>2
    <2>6. QED BY <2>3, <2>5
  <1>9. CASE Put
    <2>1. /\ pc = "put" /\ i' = i + 1 /\ pc' = NextOut(i + 1)
          /\ UNCHANGED <<call, n, mid, reg, ret, buf, ladder>>
      BY <1>9 DEF Put
    <2>2. buf = <<>> /\ ~call.reads /\ i < Length /\ i \in Nat
      BY <2>1, <1>a DEF LoopBounds, DriverType
    <2>3. pc' \in {"txe", "btf"} /\ (pc' = "txe" => i' < Length)
      BY <2>1 DEF NextOut
    <2>4. DriverType'
      BY <2>1, <2>2, <2>3, <1>a, <1>b DEF DriverType, Waits
    <2>5. LoopBounds'
      BY <2>1, <2>2, <2>3, <1>c DEF LoopBounds
    <2>6. QED BY <2>4, <2>5
  <1>10. CASE Take
    <2>1. /\ pc = "take" /\ i' = i + 1 /\ pc' = NextIn(i + 1)
          /\ buf' = Append(buf, line.dr)
          /\ UNCHANGED <<call, n, mid, reg, ret, ladder>>
      BY <1>10 DEF Take
    <2>2. call.reads /\ i < Length /\ Len(buf) = i /\ i \in Nat
      BY <2>1, <1>a DEF LoopBounds, DriverType
    <2>3. buf' \in Seq(Nat) /\ Len(buf') = i + 1
      BY <2>1, <2>2, <1>a, Fields DEF DriverType
    <2>4. /\ pc' \in {"restore", "refuse", "rxne"}
          /\ pc' # "restore" => i' < Length
      BY <2>1, <2>2, <1>b DEF NextIn
    <2>5. DriverType'
      BY <2>1, <2>2, <2>3, <2>4, <1>a, <1>b DEF DriverType, Waits, Sets
    <2>6. LoopBounds'
      BY <2>1, <2>2, <2>3, <2>4, <1>c DEF LoopBounds
    <2>7. QED BY <2>5, <2>6
  <1>11. CASE Sent
    <2>1. pc = "sent" /\ buf = <<>> /\ ~call.reads
      BY <1>11, <1>a DEF Sent, LoopBounds
    <2>2. CASE Goto("stop")
      <3>1. /\ pc' = "stop" /\ UNCHANGED <<call, i, n, mid, reg, ret, buf, ladder>>
        BY <2>2 DEF Goto
      <3>2. DriverType' /\ LoopBounds'
        BY <3>1, <1>a DEF DriverType, LoopBounds, Sets
      <3>3. QED BY <3>2
    <2>3. CASE Return("PARAM")
      BY <2>3, <1>d DEF Result
    <2>4. CASE /\ call.op = "write_read" /\ call.rlen > 0
               /\ pc' = "busy" /\ call' = [call EXCEPT !.reads = TRUE]
               /\ UNCHANGED <<i, n, mid, reg, ret, buf, ladder>>
      <3>1. call' \in CallType
        BY <2>4, <1>a, Zenon DEF CallType, DriverType
      <3>2. /\ call'.op = call.op /\ call'.rlen = call.rlen /\ call'.reads
        BY <2>4, <1>a DEF CallType, DriverType
      <3>3. DriverType'
        BY <2>4, <3>1, <1>a DEF DriverType, Waits
      <3>4. Length' > 0
        BY <2>4, <3>2 DEF Length
      <3>5. LoopBounds'
        BY <2>1, <2>4, <3>4 DEF LoopBounds
      <3>6. QED BY <3>3, <3>5
    <2>5. QED BY <1>11, <2>2, <2>3, <2>4 DEF Sent
  <1>12. CASE NoBytes
    BY <1>12, <1>d DEF NoBytes, Result
  <1>13. CASE TakePins
    <2>1. pc' = "clock" /\ i' = 0 /\ UNCHANGED <<call, n, mid, reg, ret, buf, ladder>>
      BY <1>13 DEF TakePins
    <2>2. DriverType' /\ LoopBounds'
      BY <2>1, <1>a DEF DriverType, LoopBounds
    <2>3. QED BY <2>2
  <1>14. CASE Clock
    <2>1. /\ pc = "clock" /\ i' = i + 1 /\ pc' \in {"clock", "manual"}
          /\ (pc' = "clock" => i' # 9)
          /\ UNCHANGED <<call, n, mid, reg, ret, buf, ladder>>
      BY <1>14 DEF Clock
    <2>2. i < 9 /\ i \in Nat
      BY <2>1, <1>a DEF LoopBounds, DriverType
    <2>3. DriverType'
      BY <2>1, <2>2, <1>a DEF DriverType
    <2>4. LoopBounds'
      BY <2>1, <2>2 DEF LoopBounds
    <2>5. QED BY <2>3, <2>4
  <1>15. CASE Recovered \/ GivePins \/ ResetPeripheral \/ Enable
    <2>1. /\ pc' \in {"idle", "swrst", "enable"}
          /\ UNCHANGED <<call, i, n, mid, reg, ret, buf>>
      BY <1>15 DEF Recovered, GivePins, ResetPeripheral, Enable, Goto
    <2>2. DriverType' /\ LoopBounds'
      BY <2>1, <1>a DEF DriverType, LoopBounds
    <2>3. QED BY <2>2
  <1>16. QED
    BY <1>1, <1>2, <1>3, <1>4, <1>5, <1>6, <1>7, <1>8, <1>9, <1>10, <1>11,
       <1>12, <1>13, <1>14, <1>15 DEF Driver, Transfer

\* The caller's calls and a reset of the processor keep the types, too.
LEMMA CallerKeepsTypes ==
    ASSUME PeripheralAssumption, MasterAssumption, TypeInv,
           CallTransfer \/ CallInit \/ CallRecover \/ ProcessorReset,
           UNCHANGED prompt, doubled' \in BOOLEAN
    PROVE  TypeInv'
  <1>a. HardwareType /\ DriverType
    BY DEF TypeInv
  <1>1. ASSUME NEW op \in {"write", "read", "write_read", "init", "recover"},
               NEW len \in 0 .. MaxLen, NEW rlen \in 0 .. MaxLen,
               Begin(op, len, rlen),
               pc' \in {"param", "busy", "init", "recover"},
               pc' = "busy" /\ op = "read" => len > 0
        PROVE  TypeInv'
    <2>1. call' = [op |-> op, len |-> len, rlen |-> rlen, reads |-> op = "read",
                   ready |-> ladder = "ready"]
      BY <1>1, Zenon DEF Begin
    <2>2. (op = "read") \in BOOLEAN /\ (ladder = "ready") \in BOOLEAN
      OBVIOUS
    <2>3. call' \in CallType
      BY <2>1, <2>2, Zenon DEF CallType
    <2>4. /\ UNCHANGED <<hardwareVars, n, mid, reg>>
          /\ buf' = <<>> /\ ret' = "none" /\ i' = 0
      BY <1>1 DEF Begin
    <2>5. HardwareType'
      BY <2>4, <1>a DEF HardwareType, hardwareVars
    <2>6. DriverType'
      BY <1>1, <2>3, <2>4, <1>a, MasterAssumption
         DEF DriverType, Waits, MasterAssumption
    <2>7. call'.reads => op = "read"
      BY <2>1
    <2>8. pc' = "busy" /\ call'.reads => Length' > 0
      <3>1. call'.op = op /\ call'.len = len
        BY <2>1
      <3>2. QED BY <1>1, <2>7, <3>1 DEF Length
    <2>9. LoopBounds'
      BY <1>1, <2>4, <2>8 DEF LoopBounds
    <2>10. QED BY <2>5, <2>6, <2>9 DEF TypeInv
  <1>2. CASE CallTransfer
    BY <1>2, <1>1 DEF CallTransfer
  <1>3. CASE CallInit \/ CallRecover
    <2>1. 0 \in 0 .. MaxLen
      BY MasterAssumption DEF MasterAssumption
    <2>2. QED BY <1>3, <2>1, <1>1 DEF CallInit, CallRecover
  <1>4. CASE ProcessorReset
    <2>1. HardwareType'
      BY <1>4, <1>a, SoftwareResetType DEF ProcessorReset
    <2>2. NoCall \in CallType
      BY MasterAssumption DEF MasterAssumption, NoCall, CallType
    <2>3. DriverType'
      <3>1. /\ Loops \in 1 .. Loops /\ 0 \in 0 .. MaxLen + 9
            /\ <<>> \in Seq(Nat) /\ Len(<<>>) <= MaxLen
        BY MasterAssumption DEF MasterAssumption
      <3>2. QED BY <1>4, <2>2, <3>1, <1>a DEF ProcessorReset, DriverType
    <2>4. LoopBounds'
      BY <1>4 DEF ProcessorReset, LoopBounds
    <2>5. QED BY <2>1, <2>3, <2>4 DEF TypeInv
  <1>5. QED BY <1>2, <1>3, <1>4

\* The invariant holds at power-up.
LEMMA TypeInvInit ==
    ASSUME PeripheralAssumption, MasterAssumption, Init
    PROVE  TypeInv
  <1>1. line \in LineType
    BY DEF Init, HardwareInit, NoTransfer, LineType, Buses
  <1>2. target \in TargetType
    <2>1. PICK h \in 0 .. MaxHold :
             target = [got |-> <<>>, sent |-> 0, refused |-> FALSE,
                       stretch |-> "may", hold |-> h]
      BY DEF Init, HardwareInit
    <2>2. <<>> \in Seq(Nat) /\ 0 \in Nat
      OBVIOUS
    <2>3. QED BY <2>1, <2>2 DEF TargetType
  <1>3. HardwareType
    BY <1>1, <1>2 DEF Init, HardwareInit, HardwareType
  <1>4. NoCall \in CallType
    BY MasterAssumption DEF MasterAssumption, NoCall, CallType
  <1>5. DriverType
    <2>1. /\ Loops \in 1 .. Loops /\ 0 \in 0 .. MaxLen + 9
          /\ <<>> \in Seq(Nat) /\ Len(<<>>) <= MaxLen
      BY MasterAssumption DEF MasterAssumption
    <2>2. QED BY <1>4, <2>1 DEF Init, DriverInit, DriverType
  <1>6. LoopBounds
    BY DEF Init, DriverInit, LoopBounds
  <1>7. QED BY <1>3, <1>5, <1>6 DEF TypeInv

\* Every step keeps it.
LEMMA TypeInvNext ==
    ASSUME PeripheralAssumption, MasterAssumption, TypeInv, [Next]_vars
    PROVE  TypeInv'
  <1>a. HardwareType /\ DriverType /\ LoopBounds
    BY DEF TypeInv
  <1>b. ASSUME HardwareType', UNCHANGED driverVars PROVE TypeInv'
    BY <1>a, <1>b DEF TypeInv, driverVars, DriverType, LoopBounds, Length
  <1>1. CASE Driver
    BY <1>1, <1>a, DriverKeepsHardwareType, DriverKeepsBounds DEF TypeInv
  <1>2. CASE Peripheral
    BY <1>2, <1>a, <1>b, HardwareKeepsType DEF Peripheral
  <1>3. CASE Environment
    <2>1. CASE (Stretch \/ Unstretch) /\ UNCHANGED driverVars
      BY <2>1, <1>a, <1>b, HardwareKeepsType
    <2>2. ProcessorReset => doubled' \in BOOLEAN
      BY DEF ProcessorReset
    <2>3. QED
      BY <1>3, <1>a, <2>1, <2>2, CallerKeepsTypes DEF Environment, DriverType
  <1>4. CASE UNCHANGED vars
    BY <1>4, <1>a, <1>b DEF vars, hardwareVars, HardwareType
  <1>5. QED BY <1>1, <1>2, <1>3, <1>4 DEF Next

\* The invariant that the other theorems rest on.
LEMMA TypeInvHolds == Spec => []TypeInv
  <1>1. Init => TypeInv
    BY TypeInvInit, PeripheralAssumption, MasterAssumption
  <1>2. TypeInv /\ [Next]_vars => TypeInv'
    BY TypeInvNext, PeripheralAssumption, MasterAssumption
  <1>3. QED BY <1>1, <1>2, PTL DEF Spec

\* Whatever is called and whatever the target does, every variable keeps its
\* type: a read of i2c_master.c never stores more bytes than the caller's
\* buffer has room for, and no wait or loop leaves its bounds.
THEOREM TypeCorrect == Spec => []I2cTypeOK
  <1>1. TypeInv => I2cTypeOK
    BY DEF TypeInv, HardwareType, LineType, TargetType, DriverType, CallType, I2cTypeOK
  <1>2. QED BY <1>1, TypeInvHolds, PTL

-----------------------------------------------------------------------------
(* Recovery *)

\* Nothing is set in the peripheral, nothing is under way, nobody holds a line.
Quiet == sr1 = {} /\ line = NoTransfer /\ target.hold = 0

\* By hand: while the clock loop runs, the target lets SDA go before the loop
\* ends.
ByHand ==
    /\ pc \in {"clock", "manual"} => pins = "gpio" /\ line.bus = "free"
    /\ pc = "clock" => target.hold + i <= 9
    /\ pc = "manual" => target.hold = 0
    /\ pc \in {"swrst", "enable"} => pins = "i2c"

\* After recovery nothing happens on the bus before the next transfer.
Restored ==
    /\ ladder \in {"unknown", "recovered", "ready"}
    /\ ladder # "unknown" =>
          pc \in {"idle", "recover", "clock", "manual", "init", "swrst", "enable"}
    /\ ladder = "recovered" => Quiet /\ cr1 = {}
    /\ ladder = "ready" => Quiet /\ cr1 \subseteq {"PE"}
    /\ ladder = "ready" /\ pc = "idle" => cr1 = {"PE"} /\ pins = "i2c"

\* START is requested of a free bus, and is either pending or out.
StartPending == Quiet /\ cr1 = {"PE", "ACK", "START"} /\ pins = "i2c"
StartOut == "SB" \in sr1 /\ "AF" \notin sr1 /\ line.bus = "start"
            /\ cr1 = {"PE", "ACK"}

Started ==
    call.ready /\ call.op \in {"write", "read"} =>
       /\ ret \notin {"BUS_BUSY", "TIMEOUT_START"}
       /\ pc \in {"busy", "start"} => Quiet /\ cr1 = {"PE"} /\ pins = "i2c"
       /\ pc = "start" /\ mid => reg = {"PE"}
       /\ pc = "sb" => StartPending \/ StartOut

Halves == mid => pc \in Waits \cup DOMAIN Sets

RecoveryInv == ByHand /\ Restored /\ Started /\ Halves

\* On a free bus, leaving the lines changes nothing for the target.
LEMMA HoldKept ==
    ASSUME HardwareType, LeaveLines
    PROVE  /\ target'.hold \in 0 .. MaxHold
           /\ line.bus = "free" => target'.hold = target.hold
  <1>1. PICK h \in IF line.bus \in {"free", "start", "refused"}
                   THEN {target.hold} ELSE 0 .. MaxHold :
                target' = [target EXCEPT !.hold = h, !.stretch = "may"]
    BY DEF LeaveLines
  <1>2. target'.hold = h
    BY <1>1 DEF HardwareType, TargetType
  <1>3. QED BY <1>1, <1>2, Fields

\* The peripheral moves on only to send the START that was asked for.
LEMMA PeripheralKeepsRecovery ==
    ASSUME TypeInv, RecoveryInv, Hardware, UNCHANGED driverVars
    PROVE  RecoveryInv'
  <1>a. /\ pc' = pc /\ call' = call /\ i' = i /\ mid' = mid /\ reg' = reg
        /\ ret' = ret /\ ladder' = ladder /\ pins' = pins
    BY DEF Hardware, driverVars
  <1>b. CanStart \/ CanStop \/ CanShift
    BY DEF Hardware, SendStart, SendStop, SendAddress, SendByte, ReceiveByte
  <1>c. pins = "i2c" /\ "PE" \in cr1
    BY <1>b DEF CanStart, CanStop, CanShift, On
  <1>d. ASSUME line.bus = "free" PROVE "START" \in cr1 /\ SendStart
    BY <1>d DEF Hardware, SendStart, SendStop, SendAddress, SendByte, ReceiveByte,
                CanStart, CanStop, CanShift
  <1>e. ASSUME StartOut PROVE FALSE
    BY <1>b, <1>e DEF StartOut, CanStart, CanStop, CanShift
  <1>f. Quiet => line.bus = "free"
    BY DEF Quiet, NoTransfer
  <1>1. ByHand'
    BY <1>a, <1>c DEF RecoveryInv, ByHand
  <1>2. ladder = "unknown"
    BY <1>c, <1>d, <1>f DEF RecoveryInv, Restored
  <1>3. Restored'
    BY <1>a, <1>2 DEF Restored
  <1>4. Started'
    <2> SUFFICES ASSUME call.ready, call.op \in {"write", "read"}
                 PROVE  Started'
      BY <1>a DEF Started
    <2>1. pc \notin {"busy", "start"}
      BY <1>d, <1>f DEF RecoveryInv, Started
    <2>2. CASE pc = "sb"
      <3>1. StartPending
        BY <1>e, <2>2 DEF RecoveryInv, Started
      <3>2. SendStart
        BY <1>d, <1>f, <3>1 DEF StartPending
      <3>3. line'.bus = "start"
        BY <3>2 DEF SendStart, TypeInv, HardwareType, LineType
      <3>4. StartOut'
        BY <3>1, <3>2, <3>3 DEF StartPending, Quiet, StartOut, SendStart
      <3>5. QED BY <1>a, <2>2, <3>4 DEF RecoveryInv, Started
    <2>3. CASE pc # "sb"
      BY <1>a, <2>1, <2>3 DEF RecoveryInv, Started
    <2>4. QED BY <2>2, <2>3
  <1>5. Halves'
    BY <1>a DEF RecoveryInv, Halves
  <1>6. QED BY <1>1, <1>3, <1>4, <1>5 DEF RecoveryInv

\* What else leaves the hardware alone, but for the clock line.
LEMMA StretchKeepsRecovery ==
    ASSUME TypeInv, RecoveryInv, Stretch \/ Unstretch, UNCHANGED driverVars
    PROVE  RecoveryInv'
  <1>1. target'.hold = target.hold /\ UNCHANGED <<cr1, sr1, line, pins>>
    BY DEF Stretch, Unstretch, TypeInv, HardwareType, TargetType
  <1>2. QED BY <1>1 DEF RecoveryInv, ByHand, Restored, Started, Halves, Quiet,
                        StartPending, StartOut, driverVars

\* A transfer finds the bus that recovery left.
LEMMA TransferKeepsRecovery ==
    ASSUME TypeInv, RecoveryInv, Transfer
    PROVE  RecoveryInv'
  <1> DEFINE Ladder == {"idle", "recover", "clock", "manual", "init", "swrst", "enable"}
             R == call.ready /\ call.op \in {"write", "read"}
  <1>a. pc \notin Ladder /\ ladder' = ladder
        /\ pc' \notin {"clock", "manual", "swrst", "enable"}
    BY DEF Transfer, Found, NotYet, TimeOut, CheckAf, ReadCr1, WriteCr1, Address,
           Clear, Put, Take, Sent, NoBytes, Goto, Return, Waits, Sets, AfterWait,
           NextIn, NextOut
  <1>1. ByHand' /\ Restored'
    BY <1>a DEF ByHand, Restored, RecoveryInv
  <1>b. ASSUME R PROVE
          /\ ret \notin {"BUS_BUSY", "TIMEOUT_START"}
          /\ pc \in {"busy", "start"} => Quiet /\ cr1 = {"PE"} /\ pins = "i2c"
          /\ pc = "start" /\ mid => reg = {"PE"}
          /\ pc = "sb" => StartPending \/ StartOut
    BY <1>b DEF RecoveryInv, Started
  <1>c. Quiet => ~(line.bus # "free" \/ target.hold > 0)
    BY DEF Quiet, NoTransfer
  <1>d. R /\ pc = "busy" => Arrived
    BY <1>b, <1>c DEF Arrived, Busy
  <1>e. R /\ pc = "sb" => Working \/ Arrived
    BY <1>b DEF StartPending, StartOut, Quiet, NoTransfer, Working, CanStart, On,
                Arrived, Flag
  <1>f. ASSUME call' = call, ret' \in {ret, "OK", "NACK", "PARAM"},
               pc' \notin {"busy", "start", "sb"}
        PROVE  Started'
    BY <1>b, <1>f DEF Started
  <1>2. CASE Found
    <2>1. UNCHANGED <<hardwareVars, call, ret, mid, reg>> /\ ~mid /\ pc \in Waits
          /\ pc' = AfterWait[pc]
      BY <1>2 DEF Found
    <2>2. (pc = "busy" /\ pc' = "start") \/ pc' \notin {"busy", "start", "sb"}
      BY <2>1 DEF Waits, AfterWait
    <2>3. Halves'
      BY <2>1 DEF Halves
    <2>4. CASE pc = "busy" /\ pc' = "start"
      <3>1. ~mid'
        BY <2>1
      <3>2. R => Quiet' /\ cr1' = {"PE"} /\ pins' = "i2c" /\ ret' = ret
        BY <2>1, <2>4, <1>b DEF hardwareVars, Quiet
      <3>3. call' = call /\ (R => ret' \notin {"BUS_BUSY", "TIMEOUT_START"})
        BY <2>1, <1>b
      <3>4. Started'
        BY <2>4, <3>1, <3>2, <3>3 DEF Started
      <3>5. QED BY <3>4, <2>3, <1>1 DEF RecoveryInv
    <2>5. QED BY <2>1, <2>2, <2>3, <2>4, <1>1, <1>f DEF RecoveryInv
  <1>3. CASE NotYet
    <2>1. /\ UNCHANGED <<hardwareVars, pc, call, ret, reg>> /\ ~Arrived
          /\ pc \in Waits
      BY <1>3 DEF NotYet
    <2>2. Halves'
      BY <2>1 DEF Halves
    <2>3. Started'
      BY <2>1, <1>b, <1>d DEF Started, hardwareVars, Quiet, StartPending, StartOut,
                              Waits
    <2>4. QED BY <2>2, <2>3, <1>1 DEF RecoveryInv
  <1>4. CASE TimeOut
    <2>1. /\ pc \in Waits /\ ~Arrived /\ ~Working /\ pc' = "idle"
          /\ call' = call /\ ret' = Error[pc] /\ mid' = FALSE
      BY <1>4 DEF TimeOut, Return
    <2>2. R => ret' \notin {"BUS_BUSY", "TIMEOUT_START"}
      BY <2>1, <1>d, <1>e DEF Waits, Error
    <2>3. Started' /\ Halves'
      BY <2>1, <2>2 DEF Started, Halves
    <2>4. QED BY <2>3, <1>1 DEF RecoveryInv
  <1>5. CASE CheckAf
    <2>1. /\ pc \in Waits /\ mid' = FALSE
          /\ UNCHANGED <<cr1, pins, target, call, ret>>
          /\ \/ "AF" \in sr1 /\ pc' = "nack"
             \/ pc = "busy" /\ pc' = pc /\ ClearAddr
             \/ UNCHANGED <<pc, sr1, line>>
      BY <1>5 DEF CheckAf, ClearAddr, hardwareVars
    <2>2. ClearAddr /\ Quiet => Quiet'
      BY <2>1 DEF ClearAddr, Quiet, NoTransfer
    <2>3. CASE pc' = "nack"
      BY <2>1, <2>3, <1>f, <1>1 DEF RecoveryInv, Halves
    <2>4. CASE pc = "busy" /\ pc' = pc /\ ClearAddr
      <3>1. Started'
        BY <2>1, <2>2, <2>4, <1>b DEF Started
      <3>2. QED
        BY <2>1, <3>1, <1>1 DEF RecoveryInv, Halves
    <2>5. CASE UNCHANGED <<pc, sr1, line>>
      <3>1. Started'
        BY <2>1, <2>5, <1>b DEF Started, Quiet, StartPending, StartOut, Waits
      <3>2. QED
        BY <2>1, <3>1, <1>1 DEF RecoveryInv, Halves
    <2>6. QED
      BY <2>1, <2>3, <2>4, <2>5
  <1>6. CASE ReadCr1
    <2>1. /\ pc \in DOMAIN Sets /\ pc' = pc /\ reg' = cr1
          /\ UNCHANGED <<hardwareVars, call, ret>>
      BY <1>6 DEF ReadCr1
    <2>2. Started'
      BY <2>1, <1>b DEF Started, hardwareVars, Quiet, Sets
    <2>3. QED BY <2>1, <2>2, <1>1 DEF RecoveryInv, Halves
  <1>7. CASE WriteCr1
    <2>1. /\ mid /\ mid' = FALSE /\ call' = call
          /\ cr1' = (reg \cup Sets[pc]) \ Clears[pc]
          /\ UNCHANGED <<sr1, line, pins, target>>
      BY <1>7 DEF WriteCr1, Return
    <2>2. \/ pc = "start" /\ pc' = "sb" /\ ret' = ret
          \/ pc' \in {"queue", "rxne", "idle"} /\ ret' \in {ret, "OK", "NACK"}
      BY <1>7 DEF WriteCr1, Return
    <2>3. CASE pc = "start" /\ pc' = "sb" /\ ret' = ret
      <3>1. Sets[pc] = {"ACK", "START"} /\ Clears[pc] = {}
        BY <2>3 DEF Sets, Clears
      <3>2. R => cr1' = {"PE", "ACK", "START"}
        BY <2>1, <2>3, <3>1, <1>b
      <3>3. R => StartPending'
        BY <2>1, <2>3, <3>2, <1>b DEF StartPending, Quiet
      <3>4. Started'
        BY <2>1, <2>3, <3>3, <1>b DEF Started
      <3>5. QED BY <2>1, <3>4, <1>1 DEF RecoveryInv, Halves
    <2>4. CASE pc' \in {"queue", "rxne", "idle"} /\ ret' \in {ret, "OK", "NACK"}
      BY <2>1, <2>4, <1>f, <1>1 DEF RecoveryInv, Halves
    <2>5. QED BY <2>2, <2>3, <2>4
  <1>8. CASE Address \/ Clear \/ Put \/ Take
    <2>1. /\ pc' \notin {"busy", "start", "sb"} /\ pc \notin Waits \cup DOMAIN Sets
          /\ UNCHANGED <<call, ret, mid>>
      BY <1>8 DEF Address, Clear, Put, Take, Goto, NextIn, NextOut, Waits, Sets
    <2>2. Halves'
      BY <2>1 DEF Halves, RecoveryInv
    <2>3. QED BY <2>1, <2>2, <1>f, <1>1 DEF RecoveryInv
  <1>9. CASE Sent \/ NoBytes
    <2>1. pc \notin Waits \cup DOMAIN Sets
      BY <1>9 DEF Sent, NoBytes, Waits, Sets
    <2>2. mid' = FALSE \/ mid' = mid
      BY <1>9 DEF Sent, NoBytes, Goto, Return
    <2>3. Halves'
      BY <2>1, <2>2 DEF Halves, RecoveryInv
    <2>4. CASE pc' # "busy"
      <3>1. pc' \notin {"busy", "start", "sb"} /\ ret' \in {ret, "PARAM"}
            /\ call' = call
        BY <1>9, <2>4 DEF Sent, NoBytes, Goto, Return
      <3>2. QED BY <2>3, <3>1, <1>f, <1>1 DEF RecoveryInv
    <2>5. CASE pc' = "busy"
      <3>1. call'.op = "write_read"
        BY <1>9, <2>5 DEF Sent, NoBytes, Goto, Return, TypeInv, DriverType, CallType
      <3>2. QED BY <2>3, <3>1, <1>1 DEF RecoveryInv, Started
    <2>6. QED BY <2>4, <2>5
  <1>10. QED
    BY <1>2, <1>3, <1>4, <1>5, <1>6, <1>7, <1>8, <1>9 DEF Transfer

\* Recovery and initialisation: nine clocks are enough, and nothing is left
\* under way.
LEMMA LadderKeepsRecovery ==
    ASSUME TypeInv, RecoveryInv, MaxHold <= 9,
           TakePins \/ Clock \/ Recovered \/ GivePins \/ ResetPeripheral \/ Enable
    PROVE  RecoveryInv'
  <1>a. HardwareType /\ DriverType /\ LoopBounds
    BY DEF TypeInv
  <1>b. ByHand /\ Restored /\ Started /\ Halves
    BY DEF RecoveryInv
  <1>c. line \in LineType /\ target \in TargetType /\ target.hold \in 0 .. MaxHold
    BY <1>a, Fields DEF HardwareType
  <1>d. Quiet => line.bus = "free"
    BY DEF Quiet, NoTransfer
  <1>1. pc \in {"recover", "clock", "manual", "init", "swrst", "enable"}
    BY DEF TakePins, Clock, Recovered, GivePins, ResetPeripheral, Enable
  <1>2. /\ UNCHANGED <<call, mid, ret>>
        /\ pc' \in {"clock", "manual", "idle", "swrst", "enable"}
    BY DEF TakePins, Clock, Recovered, GivePins, ResetPeripheral, Enable, Goto
  <1>3. Started'
    BY <1>2, <1>b DEF Started
  <1>4. Halves'
    BY <1>1, <1>2, <1>b DEF Halves, Waits, Sets
  <1>e. QED
    <2> SUFFICES ByHand' /\ Restored'
      BY <1>3, <1>4 DEF RecoveryInv
    <2>1. CASE TakePins
      <3>1. /\ pc' = "clock" /\ i' = 0 /\ pins' = "gpio" /\ ladder' = ladder
            /\ line' = [line EXCEPT !.bus = "free"] /\ LeaveLines
            /\ UNCHANGED <<cr1, sr1>>
        BY <2>1 DEF TakePins
      <3>2. /\ target'.hold \in 0 .. MaxHold
            /\ line.bus = "free" => target'.hold = target.hold
        BY <3>1, <1>a, HoldKept
      <3>3. line'.bus = "free" /\ (line.bus = "free" => line' = line)
        BY <3>1, <1>c DEF LineType
      <3>4. ByHand'
        BY <3>1, <3>2, <3>3, PeripheralAssumption DEF ByHand, PeripheralAssumption
      <3>5. Quiet => Quiet'
        BY <3>1, <3>2, <3>3, <1>d DEF Quiet
      <3>6. QED BY <3>1, <3>4, <3>5, <1>b DEF Restored
    <2>2. CASE Clock
      <3>1. /\ pc = "clock" /\ i' = i + 1 /\ ladder' = ladder
            /\ target' = [target EXCEPT !.hold = IF @ = 0 THEN 0 ELSE @ - 1]
            /\ pc' = IF target'.hold = 0 \/ i' = 9 THEN "manual" ELSE "clock"
            /\ UNCHANGED <<cr1, sr1, line, pins>>
        BY <2>2 DEF Clock
      <3>2. target'.hold = IF target.hold = 0 THEN 0 ELSE target.hold - 1
        BY <3>1, <1>c DEF TargetType
      <3>3. /\ target.hold + i <= 9 /\ i \in Nat /\ i < 9 /\ target.hold \in Nat
            /\ pins = "gpio" /\ line.bus = "free"
        BY <3>1, <1>a, <1>b, <1>c, PeripheralAssumption
           DEF ByHand, DriverType, LoopBounds, PeripheralAssumption
      <3>4. /\ pc' = "clock" => target'.hold + i' <= 9
            /\ pc' = "manual" => target'.hold = 0
        BY <3>1, <3>2, <3>3
      <3>5. ByHand'
        BY <3>1, <3>3, <3>4 DEF ByHand
      <3>6. Quiet => Quiet'
        BY <3>1, <3>2 DEF Quiet
      <3>7. QED BY <3>1, <3>5, <3>6, <1>b DEF Restored
    <2>3. CASE Recovered \/ ResetPeripheral
      <3>1. /\ SoftwareReset /\ pins' = pins
            /\ \/ pc = "manual" /\ pc' = "idle" /\ ladder' = "recovered"
               \/ pc = "swrst" /\ pc' = "enable" /\ ladder' = ladder
        BY <2>3 DEF Recovered, ResetPeripheral, Goto
      <3>2. /\ line.bus = "free" => target'.hold = target.hold
            /\ cr1' = {} /\ sr1' = {} /\ line' = NoTransfer
        BY <3>1, <1>a, HoldKept DEF SoftwareReset
      <3>3. pc = "manual" \/ ladder # "unknown" => line.bus = "free" /\ target.hold = 0
        BY <1>b, <1>d DEF ByHand, Restored, Quiet
      <3>4. pc = "manual" \/ ladder # "unknown" => Quiet'
        BY <3>2, <3>3 DEF Quiet
      <3>5. ByHand'
        BY <3>1, <1>b DEF ByHand
      <3>6. QED BY <3>1, <3>2, <3>4, <3>5, <1>b DEF Restored
    <2>4. CASE GivePins
      <3>1. /\ pc' = "swrst" /\ pins' = "i2c"
            /\ UNCHANGED <<cr1, sr1, line, target, ladder>>
        BY <2>4 DEF GivePins, Goto
      <3>2. QED BY <1>1, <3>1, <1>b DEF ByHand, Restored, Quiet
    <2>5. CASE Enable
      <3>1. /\ pc = "enable" /\ pc' = "idle" /\ cr1' = {"PE"}
            /\ ladder' = IF ladder = "recovered" THEN "ready" ELSE ladder
            /\ UNCHANGED <<sr1, line, pins, target>>
        BY <2>5 DEF Enable
      <3>2. QED BY <3>1, <1>b DEF ByHand, Restored, Quiet
    <2>6. QED BY <2>1, <2>2, <2>3, <2>4, <2>5

\* A call starts from what the last one left.
LEMMA CallerKeepsRecovery ==
    ASSUME TypeInv, RecoveryInv,
           CallTransfer \/ CallInit \/ CallRecover \/ ProcessorReset
    PROVE  RecoveryInv'
  <1>a. ByHand /\ Restored /\ Started /\ Halves
    BY DEF RecoveryInv
  <1>1. CASE CallTransfer
    <2>1. PICK op \in {"write", "read", "write_read"},
               len \in 0 .. MaxLen, rlen \in 0 .. MaxLen : Begin(op, len, rlen)
      BY <1>1 DEF CallTransfer
    <2>2. pc = "idle" /\ pc' \in {"param", "busy"} /\ ladder' = "unknown"
      BY <1>1 DEF CallTransfer, Begin
    <2>3. /\ UNCHANGED <<hardwareVars, mid, reg>> /\ ret' = "none"
      BY <2>1 DEF Begin
    <2>4. call'.ready => ladder = "ready"
      BY <2>1 DEF Begin
    <2>5. ~mid /\ ~mid'
      BY <2>2, <2>3, <1>a DEF Halves, Waits, Sets
    <2>6. ladder = "ready" => Quiet' /\ cr1' = {"PE"} /\ pins' = "i2c"
      BY <2>2, <2>3, <1>a DEF Restored, hardwareVars, Quiet
    <2>7. Started'
      BY <2>2, <2>3, <2>4, <2>5, <2>6 DEF Started
    <2>8. QED BY <2>2, <2>5, <2>7 DEF RecoveryInv, ByHand, Restored, Halves
  <1>2. CASE CallInit \/ CallRecover
    <2>1. /\ pc = "idle" /\ pc' \in {"init", "recover"} /\ ladder' = ladder
          /\ UNCHANGED <<hardwareVars, mid>>
          /\ call'.op \in {"init", "recover"}
      BY <1>2 DEF CallInit, CallRecover, Begin
    <2>2. Started'
      BY <2>1 DEF Started
    <2>3. ByHand' /\ Restored'
      BY <2>1, <1>a DEF ByHand, Restored, hardwareVars, Quiet
    <2>4. Halves'
      BY <2>1, <1>a DEF Halves, Waits, Sets
    <2>5. QED BY <2>2, <2>3, <2>4 DEF RecoveryInv
  <1>3. CASE ProcessorReset
    BY <1>3 DEF ProcessorReset, NoCall, RecoveryInv, ByHand, Restored, Started, Halves
  <1>4. QED BY <1>1, <1>2, <1>3

\* Nothing is restored yet, and nothing is under way.
LEMMA RecoveryInvInit ==
    ASSUME Init
    PROVE  RecoveryInv
  BY DEF Init, HardwareInit, DriverInit, NoCall, RecoveryInv, ByHand, Restored,
         Started, Halves

\* Every step keeps the recovery invariant, if nine clocks are enough.
LEMMA RecoveryInvNext ==
    ASSUME TypeInv, RecoveryInv, MaxHold <= 9, [Next]_vars
    PROVE  RecoveryInv'
  <1>1. CASE Driver
    BY <1>1, TransferKeepsRecovery, LadderKeepsRecovery DEF Driver
  <1>2. CASE Peripheral
    BY <1>2, PeripheralKeepsRecovery DEF Peripheral
  <1>3. CASE Environment
    BY <1>3, StretchKeepsRecovery, CallerKeepsRecovery DEF Environment
  <1>4. CASE UNCHANGED vars
    BY <1>4 DEF vars, hardwareVars, driverVars, RecoveryInv, ByHand, Restored,
                Started, Halves, Quiet, StartPending, StartOut
  <1>5. QED BY <1>1, <1>2, <1>3, <1>4 DEF Next

\* If no target needs more than nine clocks to let SDA go, i2c_bus_recover and
\* then i2c_init restore the bus from whatever an abandoned transfer left on it:
\* the next i2c_write or i2c_read returns neither I2C_BUS_BUSY nor
\* I2C_TIMEOUT_START.
THEOREM RecoveryWorks ==
    MaxHold <= 9 => (Spec => []RecoveryRestoresStart)
  <1> SUFFICES ASSUME MaxHold <= 9 PROVE Spec => []RecoveryRestoresStart
    OBVIOUS
  <1>1. Init => RecoveryInv
    BY RecoveryInvInit
  <1>2. TypeInv /\ RecoveryInv /\ [Next]_vars => RecoveryInv'
    BY RecoveryInvNext
  <1>3. RecoveryInv => RecoveryRestoresStart
    BY DEF RecoveryInv, Started, RecoveryRestoresStart
  <1>4. QED BY <1>1, <1>2, <1>3, TypeInvHolds, PTL DEF Spec


-----------------------------------------------------------------------------
(* What a prompt driver can rely on until it doubles a STOP.  The peripheral *)
(* moves no byte while the driver has something to do, so that at each place *)
(* of the driver little is possible on the bus, and what a call leaves       *)
(* behind when it times out is either idle or asks for nothing that would    *)
(* reach into the next call.  A STOP may go out between any two accesses,    *)
(* but there is one to go out only after the last byte of an i2c_read.       *)

\* The bits of CR1 during a transfer, until its last byte.
Going == {"PE", "ACK"}
Closing == {"PE", "STOP"}

\* The pins are GPIO and the driver clocks by hand.
Hand == pc \in {"clock", "manual"}

\* What the registers hold, by what happens on the bus.
BusSound ==
    /\ line.bus # "free" => "START" \notin cr1
    /\ line.bus = "free" => "STOP" \notin cr1 /\ sr1 \subseteq {"RXNE"}
    /\ line.bus \notin {"tx", "rx"} => line.shift = 0
    /\ line.bus = "start" => sr1 \subseteq {"SB", "RXNE"} /\ "STOP" \notin cr1
    /\ line.bus = "address" => sr1 = {} /\ cr1 = Going
    /\ line.bus = "addressed" => sr1 = {"ADDR"} /\ cr1 = Going
    /\ line.bus = "tx" =>
          /\ sr1 \subseteq {"TXE", "BTF"}
          /\ "ACK" \in cr1
          /\ "BTF" \in sr1 \/ "STOP" \in cr1 => line.shift = 0
    /\ line.bus = "rx" =>
          /\ sr1 \subseteq {"RXNE", "BTF"}
          /\ "STOP" \in cr1 => "ACK" \notin cr1
          /\ "ACK" \notin cr1 => line.shift = 0 /\ "RXNE" \notin sr1
    /\ line.bus = "refused" =>
          /\ sr1 \subseteq {"AF", "TXE", "BTF", "RXNE"}
          /\ "AF" \in sr1 => cr1 = Going

\* The same wherever the driver is: disabled, the peripheral does nothing.
HardwareSound ==
    /\ "PE" \notin cr1 =>
          line.bus = "free" /\ line.shift = 0 /\ sr1 = {} /\ "STOP" \notin cr1
    /\ Hand => line.bus = "free" /\ pins = "gpio"
    /\ ~Hand => BusSound /\ ("PE" \in cr1 => pins = "i2c")

\* From the wait for the bus to the data phase.
StartSound ==
    /\ {"PE", "START"} \subseteq cr1 => pc = "sb"
    /\ pc = "start" => line.bus = "free" /\ ("PE" \in cr1 => target.hold = 0)
    /\ pc = "sb" =>
          \/ /\ line.bus = "free"
             /\ "PE" \in cr1 => target.hold = 0 /\ cr1 = Going \cup {"START"}
          \/ line.bus = "start" /\ cr1 = Going /\ "SB" \in sr1 /\ target.sent = 0
    /\ pc = "address" => line.bus = "start" /\ cr1 = Going /\ target.sent = 0
    /\ pc = "addr" =>
          /\ line.bus \in {"address", "addressed", "refused"} /\ cr1 = Going
          /\ line.bus # "refused" => line.reads = call.reads
          /\ target.sent = 0
    /\ pc = "clear" =>
          /\ line.bus = "addressed" /\ line.reads = call.reads /\ target.sent = 0
    /\ pc = "nack" => line.bus = "refused" /\ cr1 = Going /\ "AF" \notin sr1

\* The data phase of i2c_write: a byte that is refused leaves its flag clear.
WriteSound ==
    /\ pc = "txe" =>
          cr1 = Going /\ (line.bus = "tx" \/ (line.bus = "refused" /\ "TXE" \notin sr1))
    /\ pc = "btf" =>
          cr1 = Going /\ (line.bus = "tx" \/ (line.bus = "refused" /\ "BTF" \notin sr1))
    /\ pc = "put" => cr1 = Going /\ line.bus = "tx"
    /\ pc \in {"sent", "stop"} => cr1 = Going /\ line.bus = "tx" /\ line.shift = 0
    /\ pc = "stop" => call.op = "write"

\* After the last byte of i2c_read the STOP is pending, or has gone out.
LastOver == \/ line.bus = "refused" /\ cr1 = Closing
            \/ line.bus = "free" /\ cr1 = {"PE"}

\* In a wait of i2c_read: before its last byte, and after it.
More == line.bus = "rx" /\ cr1 = Going /\ i < Length - 1
LastIn == LastOver /\ i = Length - 1

\* The data phase of i2c_read: one byte for each turn of the loop, and the last
\* one refused.
ReadSound ==
    /\ pc = "rxne" =>
          /\ line.shift = 0
          /\ \/ More /\ target.sent = IF "RXNE" \in sr1 THEN i + 1 ELSE i
             \/ line.bus = "rx" /\ cr1 = Closing /\ i = Length - 1 /\ target.sent = i
             \/ LastIn /\ "RXNE" \in sr1 /\ target.sent = i + 1
    /\ pc = "take" =>
          /\ line.shift = 0 /\ target.sent = i + 1
          /\ More \/ LastIn
    /\ pc \in {"refuse", "queue"} =>
          /\ line.bus = "rx" /\ cr1 = IF pc = "refuse" THEN Going ELSE {"PE"}
          /\ "RXNE" \notin sr1 /\ line.shift = 0
          /\ i = Length - 1 /\ target.sent = i
    /\ pc = "restore" => LastOver /\ target.sent = Length

\* Between the calls, and between the halves of a step: CR1 is still what was
\* read, unless i2c_read is about to double its STOP.
CallSound ==
    /\ pc \in DOMAIN Sets /\ mid =>
          reg = cr1 \/ (pc = "restore" /\ reg = Closing /\ cr1 = {"PE"})
    /\ pc = "enable" => line.bus = "free" /\ line.shift = 0
    /\ pc = "idle" /\ ret = "OK" =>
          /\ line.bus = "free" \/ (line.bus \in {"tx", "refused"} /\ "STOP" \in cr1)
          /\ call.op = "read" => line.bus # "tx" /\ target.sent = call.len

\* The same of every driver, prompt or not.
Steady ==
    /\ pc # "idle" => ret = "none"
    /\ mid => pc \in Waits \cup DOMAIN Sets
    /\ pc \in {"swrst", "enable"} => pins = "i2c"

PromptInv == HardwareSound /\ StartSound /\ WriteSound /\ ReadSound /\ CallSound

\* Fields of the line after a step.
LEMMA LineFields ==
    ASSUME NEW l \in LineType, NEW b, NEW d, NEW s
    PROVE  /\ [l EXCEPT !.bus = b].bus = b /\ [l EXCEPT !.bus = b].dr = l.dr
           /\ [l EXCEPT !.bus = b].shift = l.shift
           /\ [l EXCEPT !.bus = b].reads = l.reads
           /\ [l EXCEPT !.bus = b, !.shift = s].bus = b
           /\ [l EXCEPT !.bus = b, !.shift = s].shift = s
           /\ [l EXCEPT !.bus = b, !.dr = d].bus = b
           /\ [l EXCEPT !.bus = b, !.dr = d].shift = l.shift
           /\ [l EXCEPT !.shift = s, !.dr = d].bus = l.bus
           /\ [l EXCEPT !.shift = s, !.dr = d].shift = s
           /\ [l EXCEPT !.shift = s, !.dr = d].reads = l.reads
           /\ [l EXCEPT !.dr = d, !.shift = s].bus = l.bus
           /\ [l EXCEPT !.dr = d, !.shift = s].shift = s
           /\ [l EXCEPT !.dr = d, !.shift = s].reads = l.reads
           /\ [l EXCEPT !.shift = s].bus = l.bus /\ [l EXCEPT !.shift = s].shift = s
           /\ [l EXCEPT !.dr = d].bus = l.bus /\ [l EXCEPT !.dr = d].shift = l.shift
  BY DEF LineType

\* Where a prompt driver may be while a byte moves: it waits for a flag that
\* is not set, or it is not in a transfer.
Aside == {"idle", "busy", "param", "recover", "init", "swrst", "enable"}

LEMMA PeripheralMoves ==
    ASSUME TypeInv, Steady, PromptInv, Peripheral
    PROVE  On /\ ~Hand /\ BusSound /\ UNCHANGED driverVars /\ UNCHANGED pins
  <1>1. Hardware /\ UNCHANGED driverVars
    BY DEF Peripheral
  <1>2. On /\ UNCHANGED pins
    BY <1>1 DEF Hardware, SendStart, SendStop, SendAddress, SendByte, ReceiveByte,
                CanStart, CanStop, CanShift
  <1>3. ~Hand
    BY <1>2 DEF On, PromptInv, HardwareSound
  <1>4. BusSound
    BY <1>3 DEF PromptInv, HardwareSound
  <1>5. QED
    BY <1>1, <1>2, <1>3, <1>4

LEMMA PeripheralMovesInWaits ==
    ASSUME TypeInv, Steady, PromptInv, prompt, Peripheral, UNCHANGED cr1
    PROVE  /\ On /\ ~Hand /\ BusSound
           /\ pc \in Aside \cup {"sb", "addr", "txe", "btf", "rxne"}
           /\ pc \in {"sb", "addr", "txe", "btf", "rxne"} => Flag[pc] \notin sr1
           /\ UNCHANGED driverVars /\ UNCHANGED pins
  <1>1. On /\ ~Hand /\ BusSound /\ UNCHANGED driverVars /\ UNCHANGED pins
    BY PeripheralMoves
  <1>2. ~Due
    <2>1. ~SendStart /\ ~SendStop
      BY DEF SendStart, CanStart, SendStop, CanStop
    <2>2. QED
      BY <2>1 DEF Peripheral
  <1>3. pc \in Aside \cup {"sb", "addr", "txe", "btf", "rxne"}
    BY <1>1, <1>2 DEF Due, Hand, TypeInv, DriverType, Waits, Aside
  <1>4. pc \in {"sb", "addr", "txe", "btf", "rxne"} => Flag[pc] \notin sr1
    BY <1>2 DEF Due, Waits, Arrived
  <1>5. QED
    BY <1>1, <1>3, <1>4

\* START goes out only for the call that waits for it.
LEMMA StartKeepsPrompt ==
    ASSUME TypeInv, Steady, PromptInv, Peripheral, SendStart
    PROVE  PromptInv'
  <1>1. /\ On /\ ~Hand /\ BusSound /\ UNCHANGED driverVars /\ UNCHANGED pins
    BY PeripheralMoves
  <1>2. /\ "START" \in cr1 /\ cr1' = cr1 \ {"START"}
        /\ sr1' = (sr1 \ {"TXE", "BTF"}) \cup {"SB"}
        /\ line' = [line EXCEPT !.bus = "start"] /\ target'.sent = 0
    BY DEF SendStart, CanStart, TypeInv, HardwareType, TargetType
  <1>3. pc = "sb" /\ line.bus = "free" /\ cr1 = Going \cup {"START"}
    BY <1>1, <1>2 DEF PromptInv, StartSound, On, Going
  <1>4. line'.bus = "start" /\ line'.shift = line.shift
    BY <1>2, LineFields DEF TypeInv, HardwareType
  <1>5. line.shift = 0 /\ sr1 \subseteq {"RXNE"}
    BY <1>1, <1>3 DEF BusSound
  <1>6. cr1' = Going /\ sr1' \subseteq {"SB", "RXNE"} /\ "SB" \in sr1'
    BY <1>2, <1>3, <1>5 DEF Going
  <1>7. pc' = "sb" /\ ~Hand'
    BY <1>1, <1>3 DEF driverVars, Hand
  <1>8. BusSound'
    BY <1>4, <1>5, <1>6 DEF BusSound, Going
  <1>9. HardwareSound'
    BY <1>1, <1>6, <1>7, <1>8 DEF HardwareSound, Going, On
  <1>10. StartSound' /\ WriteSound' /\ ReadSound'
    BY <1>2, <1>4, <1>6, <1>7 DEF StartSound, WriteSound, ReadSound, Going
  <1>11. CallSound'
    BY <1>1, <1>3, <1>7 DEF PromptInv, CallSound, Steady, driverVars, Sets
  <1>12. QED
    BY <1>9, <1>10, <1>11 DEF PromptInv

\* STOP goes out for no wait of the driver: between the calls, or after the last
\* byte of i2c_read, wherever i2c_read is by then.
LEMMA StopKeepsPrompt ==
    ASSUME TypeInv, Steady, PromptInv, Peripheral, SendStop
    PROVE  PromptInv'
  <1>1. On /\ ~Hand /\ BusSound /\ UNCHANGED driverVars /\ UNCHANGED pins
    BY PeripheralMoves
  <1>2. /\ "STOP" \in cr1 /\ cr1' = cr1 \ {"STOP"} /\ sr1' = sr1 \ {"TXE", "BTF"}
        /\ line' = [line EXCEPT !.bus = "free"] /\ target'.sent = target.sent
        /\ line.bus \in {"start", "refused"} \cup
                        (IF line.shift = 0 THEN {"tx"} ELSE {"rx"})
    BY DEF SendStop, CanStop, TypeInv, HardwareType, TargetType
  <1>3. line.bus \in {"tx", "refused"} /\ line.shift = 0
    BY <1>1, <1>2 DEF BusSound
  <1>4. sr1' \subseteq {"RXNE"}
    BY <1>1, <1>2, <1>3 DEF BusSound, Going
  <1>5. "START" \notin cr1
    BY <1>1, <1>3 DEF BusSound
  <1>6. line'.bus = "free" /\ line'.shift = 0
    BY <1>2, <1>3, LineFields DEF TypeInv, HardwareType
  <1>7. UNCHANGED <<pc, call, i, mid, reg, ret, Length>> /\ ~Hand'
    BY <1>1 DEF driverVars, Hand, Length
  <1>8. HardwareSound'
    BY <1>1, <1>2, <1>4, <1>5, <1>6, <1>7 DEF HardwareSound, BusSound, On
  <1>9. pc \in Aside \cup {"rxne", "take", "restore"}
    <2>1. pc \notin {"start", "sb", "address", "addr", "clear", "nack"}
      BY <1>2, <1>3 DEF PromptInv, StartSound, Going
    <2>2. pc \notin {"txe", "btf", "put", "sent", "stop"}
      BY <1>2 DEF PromptInv, WriteSound, Going
    <2>3. pc \notin {"refuse", "queue"}
      BY <1>3 DEF PromptInv, ReadSound
    <2>4. QED
      BY <1>1, <2>1, <2>2, <2>3 DEF TypeInv, DriverType, Hand, Waits, Sets, Aside
  <1>10. StartSound' /\ WriteSound'
    BY <1>2, <1>5, <1>7, <1>9 DEF StartSound, WriteSound, Aside
  <1>11. CASE pc \in Aside
    <2>1. ReadSound'
      BY <1>7, <1>11 DEF ReadSound, Aside
    <2>2. CallSound'
      BY <1>1, <1>2, <1>6, <1>7, <1>11 DEF PromptInv, CallSound, Sets, Aside
    <2>3. QED
      BY <1>8, <1>10, <2>1, <2>2 DEF PromptInv
  <1>12. CASE pc \in {"rxne", "take", "restore"}
    <2>1. cr1 = Closing
      BY <1>2, <1>3, <1>12 DEF PromptInv, ReadSound, More, LastIn, LastOver, Going, Closing
    <2>2. LastOver'
      BY <1>2, <1>6, <2>1 DEF LastOver, Closing
    <2>3. /\ pc = "rxne" => i = Length - 1 /\ "RXNE" \in sr1 /\ target.sent = i + 1
          /\ pc = "take" => i = Length - 1 /\ target.sent = i + 1
          /\ pc = "restore" => target.sent = Length
      BY <1>3, <2>1 DEF PromptInv, ReadSound, More, LastIn, Going, Closing
    <2>4. ReadSound'
      BY <1>2, <1>6, <1>7, <1>12, <2>2, <2>3 DEF ReadSound, LastIn
    <2>5. CallSound'
      <3>1. cr1' = {"PE"}
        BY <1>2, <2>1 DEF Closing
      <3>2. pc = "restore" /\ mid => reg = Closing
        BY <2>1 DEF PromptInv, CallSound, Sets, Closing
      <3>3. QED
        BY <1>7, <1>12, <3>1, <3>2 DEF CallSound, Sets
    <2>6. QED
      BY <1>8, <1>10, <2>4, <2>5 DEF PromptInv
  <1>13. QED
    BY <1>9, <1>11, <1>12

\* The address is acknowledged or refused.
LEMMA AddressKeepsPrompt ==
    ASSUME TypeInv, Steady, PromptInv, prompt, Peripheral, SendAddress
    PROVE  PromptInv'
  <1>1. /\ On /\ ~Hand /\ BusSound /\ UNCHANGED driverVars /\ UNCHANGED pins
        /\ pc \in Aside \cup {"sb", "addr", "txe", "btf", "rxne"}
    BY PeripheralMovesInWaits DEF SendAddress
  <1>2. line.bus = "address" /\ cr1' = cr1
    BY DEF SendAddress
  <1>3. sr1 = {} /\ cr1 = Going /\ line.shift = 0
    BY <1>1, <1>2 DEF BusSound
  <1>4. /\ \/ line'.bus = "addressed" /\ sr1' = {"ADDR"}
           \/ line'.bus = "refused" /\ sr1' = {"AF"}
        /\ line'.shift = 0
        /\ line'.bus # "refused" => line'.reads = line.reads
        /\ target'.sent = target.sent
    <2>1. CASE Refused
      BY <1>3, <2>1, LineFields
         DEF Refused, TypeInv, HardwareType, TargetType
    <2>2. CASE ~Refused
      <3>1. /\ sr1' = sr1 \cup {"ADDR"} /\ line' = [line EXCEPT !.bus = "addressed"]
            /\ target' = [target EXCEPT !.stretch = "may"]
        BY <2>2, Zenon DEF SendAddress
      <3>2. target'.sent = target.sent
        BY <3>1 DEF TypeInv, HardwareType, TargetType
      <3>3. QED
        BY <1>3, <3>1, <3>2, LineFields DEF TypeInv, HardwareType
    <2>3. QED
      BY <2>1, <2>2
  <1>5. pc \in Aside \cup {"addr"}
    <2>1. pc \notin {"sb", "txe", "btf", "rxne"}
      BY <1>2 DEF PromptInv, StartSound, WriteSound, ReadSound, More, LastIn, LastOver
    <2>2. QED
      BY <1>1, <2>1
  <1>6. pc' = pc /\ ~Hand'
    BY <1>1 DEF driverVars, Hand
  <1>7. HardwareSound'
    BY <1>1, <1>2, <1>3, <1>4, <1>6 DEF HardwareSound, BusSound, On, Going
  <1>8. StartSound'
    BY <1>1, <1>2, <1>3, <1>4, <1>5, <1>6
       DEF PromptInv, StartSound, Aside, Going, driverVars
  <1>9. WriteSound' /\ ReadSound'
    BY <1>5, <1>6 DEF WriteSound, ReadSound, Aside
  <1>10. CallSound'
    BY <1>1, <1>2, <1>5 DEF PromptInv, CallSound, Steady, driverVars, Sets, Aside
  <1>11. QED
    BY <1>7, <1>8, <1>9, <1>10 DEF PromptInv

\* A byte goes out while the driver waits for room, or after it gave up.
LEMMA ByteOutKeepsPrompt ==
    ASSUME TypeInv, Steady, PromptInv, prompt, Peripheral, SendByte
    PROVE  PromptInv'
  <1>1. /\ On /\ ~Hand /\ BusSound /\ UNCHANGED driverVars /\ UNCHANGED pins
        /\ pc \in Aside \cup {"sb", "addr", "txe", "btf", "rxne"}
        /\ pc \in {"sb", "addr", "txe", "btf", "rxne"} => Flag[pc] \notin sr1
    BY PeripheralMovesInWaits DEF SendByte
  <1>2. line.bus = "tx" /\ line.shift # 0 /\ cr1' = cr1
    BY DEF SendByte, CanShift
  <1>3. /\ sr1 \subseteq {"TXE"} /\ "STOP" \notin cr1 /\ "START" \notin cr1
        /\ "ACK" \in cr1 /\ "PE" \in cr1
    BY <1>1, <1>2 DEF BusSound, On
  <1>4. cr1 = Going
    BY <1>3 DEF Going, TypeInv, HardwareType, Cr1Bits
  <1>5. /\ target'.sent = target.sent
        /\ \/ /\ line'.bus = "tx" /\ sr1' \subseteq {"TXE", "BTF"}
              /\ "BTF" \in sr1' => line'.shift = 0
           \/ line'.bus = "refused" /\ line'.shift = 0 /\ sr1' = sr1 \cup {"AF"}
    <2>1. CASE Refused
      BY <2>1, LineFields DEF Refused, TypeInv, HardwareType, TargetType
    <2>2. CASE ~Refused
      <3>1. /\ line' = [line EXCEPT !.shift = line.dr, !.dr = 0]
            /\ sr1' = sr1 \cup {"TXE"} \cup (IF line.dr = 0 THEN {"BTF"} ELSE {})
            /\ target'.sent = target.sent
        BY <2>2 DEF SendByte, TypeInv, HardwareType, TargetType
      <3>2. line'.bus = "tx" /\ line'.shift = line.dr
        BY <1>2, <3>1, LineFields DEF TypeInv, HardwareType
      <3>3. QED
        BY <1>3, <3>1, <3>2
    <2>3. QED
      BY <2>1, <2>2
  <1>6. pc \in Aside \cup {"txe", "btf"}
    <2>1. pc \notin {"sb", "addr", "rxne"}
      BY <1>2 DEF PromptInv, StartSound, ReadSound, More, LastIn, LastOver
    <2>2. QED
      BY <1>1, <2>1
  <1>7. pc' = pc /\ ~Hand'
    BY <1>1 DEF driverVars, Hand
  <1>8. HardwareSound'
    BY <1>1, <1>2, <1>3, <1>4, <1>5, <1>7 DEF HardwareSound, BusSound, On, Going
  <1>9. StartSound' /\ ReadSound'
    BY <1>2, <1>4, <1>6, <1>7 DEF StartSound, ReadSound, Aside, Going
  <1>10. WriteSound'
    BY <1>1, <1>2, <1>3, <1>4, <1>5, <1>6, <1>7 DEF WriteSound, Flag, Aside
  <1>11. CallSound'
    BY <1>1, <1>2, <1>3, <1>5, <1>6
       DEF PromptInv, CallSound, Steady, driverVars, Sets, Aside
  <1>12. QED
    BY <1>8, <1>9, <1>10, <1>11 DEF PromptInv

\* A byte comes in while the driver waits for it, or after it gave up.
LEMMA ByteInKeepsPrompt ==
    ASSUME TypeInv, Steady, PromptInv, prompt, Peripheral, ReceiveByte
    PROVE  PromptInv'
  <1>1. /\ On /\ ~Hand /\ BusSound /\ UNCHANGED driverVars /\ UNCHANGED pins
        /\ pc \in Aside \cup {"sb", "addr", "txe", "btf", "rxne"}
        /\ pc \in {"sb", "addr", "txe", "btf", "rxne"} => Flag[pc] \notin sr1
    BY PeripheralMovesInWaits DEF ReceiveByte
  <1>2. line.bus = "rx" /\ line.shift = 0 /\ cr1' = cr1
    BY DEF ReceiveByte, CanShift
  <1>3. /\ sr1 \subseteq {"RXNE", "BTF"} /\ "START" \notin cr1 /\ "PE" \in cr1
        /\ "STOP" \in cr1 => "ACK" \notin cr1
        /\ "ACK" \notin cr1 => "RXNE" \notin sr1
    BY <1>1, <1>2 DEF BusSound, On
  <1>4. target'.sent = target.sent + 1
    BY DEF ReceiveByte, TypeInv, HardwareType, TargetType
  <1>5. /\ sr1' = sr1 \cup (IF "RXNE" \in sr1 THEN {"BTF"} ELSE {"RXNE"})
        /\ line'.bus = IF "ACK" \in cr1 THEN "rx" ELSE "refused"
        /\ "RXNE" \notin sr1 => line'.shift = 0
    <2>1. line' = IF "RXNE" \in sr1
                  THEN [line EXCEPT !.bus = IF "ACK" \in cr1 THEN "rx" ELSE "refused",
                                    !.shift = target.sent + 1]
                  ELSE [line EXCEPT !.bus = IF "ACK" \in cr1 THEN "rx" ELSE "refused",
                                    !.dr = target.sent + 1]
      BY DEF ReceiveByte
    <2>2. sr1' = sr1 \cup (IF "RXNE" \in sr1 THEN {"BTF"} ELSE {"RXNE"})
      BY DEF ReceiveByte
    <2>3. CASE "RXNE" \in sr1
      BY <2>1, <2>2, <2>3, LineFields DEF TypeInv, HardwareType
    <2>4. CASE "RXNE" \notin sr1
      BY <1>2, <2>1, <2>2, <2>4, LineFields DEF TypeInv, HardwareType
    <2>5. QED
      BY <2>3, <2>4
  <1>6. pc \in Aside \cup {"rxne"}
    <2>1. pc \notin {"sb", "addr", "txe", "btf"}
      BY <1>2 DEF PromptInv, StartSound, WriteSound
    <2>2. QED
      BY <1>1, <2>1
  <1>7. pc' = pc /\ ~Hand'
    BY <1>1 DEF driverVars, Hand
  <1>8. HardwareSound'
    <2>1. CASE "ACK" \in cr1
      BY <1>1, <1>2, <1>3, <1>5, <1>7, <2>1 DEF HardwareSound, BusSound, On
    <2>2. CASE "ACK" \notin cr1
      BY <1>1, <1>2, <1>3, <1>5, <1>7, <2>2 DEF HardwareSound, BusSound, On
    <2>3. QED
      BY <2>1, <2>2
  <1>9. StartSound' /\ WriteSound'
    BY <1>2, <1>3, <1>6, <1>7 DEF StartSound, WriteSound, Aside
  <1>10. ReadSound'
    <2>1. CASE pc = "rxne"
      <3>1. UNCHANGED <<i, call, Length>>
        BY <1>1 DEF driverVars, Length
      <3>2. "RXNE" \notin sr1
        BY <1>1, <2>1 DEF Flag
      <3>3. "RXNE" \in sr1' /\ line'.shift = 0 /\ target.sent = i
        BY <1>2, <1>5, <2>1, <3>2 DEF PromptInv, ReadSound, LastIn, LastOver
      <3>4. More \/ (cr1 = Closing /\ i = Length - 1)
        BY <1>2, <2>1, <3>2 DEF PromptInv, ReadSound, LastIn, LastOver
      <3>5. CASE More
        BY <1>2, <1>4, <1>5, <1>7, <2>1, <3>1, <3>3, <3>5
           DEF ReadSound, More, Going
      <3>6. CASE cr1 = Closing /\ i = Length - 1
        BY <1>2, <1>4, <1>5, <1>7, <2>1, <3>1, <3>3, <3>6
           DEF ReadSound, LastIn, LastOver, Closing
      <3>7. QED
        BY <3>4, <3>5, <3>6
    <2>2. CASE pc # "rxne"
      BY <1>6, <1>7, <2>2 DEF ReadSound, Aside
    <2>3. QED
      BY <2>1, <2>2
  <1>11. CallSound'
    BY <1>1, <1>2, <1>6 DEF PromptInv, CallSound, Steady, driverVars, Sets, Aside
  <1>12. QED
    BY <1>8, <1>9, <1>10, <1>11 DEF PromptInv

\* Every move of the peripheral keeps what a prompt driver relies on.
LEMMA PeripheralKeepsPrompt ==
    ASSUME TypeInv, Steady, PromptInv, prompt, Peripheral
    PROVE  PromptInv'
  <1>1. SendStart \/ SendStop \/ SendAddress \/ SendByte \/ ReceiveByte
    BY DEF Peripheral, Hardware
  <1>2. QED
    BY <1>1, StartKeepsPrompt, StopKeepsPrompt, AddressKeepsPrompt,
       ByteOutKeepsPrompt, ByteInKeepsPrompt

\* A clock line held low changes nothing of it.
LEMMA StretchKeepsPrompt ==
    ASSUME TypeInv, Steady, PromptInv, Stretch \/ Unstretch, UNCHANGED driverVars
    PROVE  PromptInv'
  <1>1. /\ target'.hold = target.hold /\ target'.sent = target.sent
        /\ UNCHANGED <<cr1, sr1, line, pins>>
    BY DEF Stretch, Unstretch, TypeInv, HardwareType, TargetType
  <1>2. UNCHANGED <<pc, call, i, mid, reg, ret, Length>>
    BY DEF driverVars, Length
  <1>3. HardwareSound'
    BY <1>1, <1>2 DEF PromptInv, HardwareSound, BusSound, Hand
  <1>4. StartSound' /\ WriteSound'
    BY <1>1, <1>2 DEF PromptInv, StartSound, WriteSound
  <1>5. ReadSound' /\ CallSound'
    BY <1>1, <1>2 DEF PromptInv, ReadSound, CallSound, Steady, More, LastIn, LastOver
  <1>6. QED
    BY <1>3, <1>4, <1>5 DEF PromptInv

\* While the hardware stays as it is and the driver does not clock by hand, of
\* the invariant only the driver's part is at stake.
LEMMA HardwareUntouched ==
    ASSUME HardwareSound, ~Hand, ~Hand', UNCHANGED <<cr1, sr1, line, pins>>
    PROVE  HardwareSound'
  BY DEF HardwareSound, BusSound

\* A reset of I2C1 leaves what a prompt driver relies on, whatever was before.
LEMMA ResetGivesPrompt ==
    ASSUME Steady, Recovered \/ ResetPeripheral \/ ProcessorReset
    PROVE  PromptInv'
  <1>1. /\ cr1' = {} /\ sr1' = {} /\ line' = NoTransfer
        /\ ret' = "none" /\ ~mid'
        /\ pc' = "idle" \/ (pc' = "enable" /\ pins' = "i2c")
    <2>1. CASE Recovered
      BY <2>1 DEF Recovered, SoftwareReset, Steady, Waits, Sets
    <2>2. CASE ResetPeripheral
      BY <2>2 DEF ResetPeripheral, SoftwareReset, Goto, Steady, Waits, Sets
    <2>3. CASE ProcessorReset
      BY <2>3 DEF ProcessorReset, SoftwareReset
    <2>4. QED
      BY <2>1, <2>2, <2>3
  <1>2. HardwareSound'
    BY <1>1 DEF HardwareSound, BusSound, Hand, NoTransfer
  <1>3. StartSound' /\ WriteSound' /\ ReadSound' /\ CallSound'
    BY <1>1 DEF StartSound, WriteSound, ReadSound, CallSound, NoTransfer, Sets
  <1>4. QED
    BY <1>2, <1>3 DEF PromptInv

\* A call begins with nothing returned.
LEMMA CallerKeepsPrompt ==
    ASSUME TypeInv, Steady, PromptInv, CallTransfer \/ CallInit \/ CallRecover
    PROVE  PromptInv'
  <1>1. /\ pc = "idle" /\ pc' \in {"param", "busy", "init", "recover"}
        /\ UNCHANGED hardwareVars /\ ret' = "none" /\ mid' = mid
    BY DEF CallTransfer, CallInit, CallRecover, Begin
  <1>2. UNCHANGED <<cr1, sr1, line, pins, target>> /\ ~Hand /\ ~Hand'
    BY <1>1 DEF hardwareVars, Hand
  <1>3. HardwareSound'
    BY <1>2, HardwareUntouched DEF PromptInv
  <1>4. StartSound' /\ WriteSound' /\ ReadSound'
    BY <1>1, <1>2 DEF PromptInv, StartSound, WriteSound, ReadSound
  <1>5. CallSound'
    BY <1>1 DEF CallSound, Sets
  <1>6. QED
    BY <1>3, <1>4, <1>5 DEF PromptInv

\* Recovery and initialisation leave a peripheral that asks for nothing.
LEMMA LadderKeepsPrompt ==
    ASSUME TypeInv, Steady, PromptInv,
           TakePins \/ Clock \/ GivePins \/ Enable
    PROVE  PromptInv'
  <1>1. /\ pc \in {"recover", "clock", "init", "enable"}
        /\ pc' \in {"clock", "manual", "idle", "swrst"}
        /\ UNCHANGED <<call, ret, mid, reg>>
    BY DEF TakePins, Clock, GivePins, Enable, Goto
  <1>2. ret = "none" /\ ~mid
    BY <1>1 DEF PromptInv, CallSound, Steady, Waits, Sets
  <1>3. HardwareSound /\ StartSound /\ CallSound
    BY DEF PromptInv
  <1>4. WriteSound' /\ ReadSound'
    BY <1>1 DEF WriteSound, ReadSound
  <1> SUFFICES HardwareSound' /\ StartSound' /\ CallSound'
    BY <1>4 DEF PromptInv
  <1>5. CASE TakePins
    <2>1. /\ pc = "recover" /\ pc' = "clock" /\ pins' = "gpio"
          /\ line' = [line EXCEPT !.bus = "free"] /\ UNCHANGED <<cr1, sr1>>
      BY <1>5 DEF TakePins
    <2>2. line'.bus = "free" /\ line'.shift = line.shift
      BY <2>1, LineFields DEF TypeInv, HardwareType
    <2>3. HardwareSound'
      BY <1>3, <2>1, <2>2 DEF HardwareSound, Hand
    <2>4. StartSound'
      BY <1>3, <2>1 DEF StartSound
    <2>5. CallSound'
      BY <1>2, <2>1, <1>1 DEF CallSound, Steady, Sets
    <2>6. QED
      BY <2>3, <2>4, <2>5
  <1>6. CASE Clock
    <2>1. /\ pc = "clock" /\ pc' \in {"clock", "manual"}
          /\ UNCHANGED <<cr1, sr1, line, pins>>
      BY <1>6 DEF Clock
    <2>2. HardwareSound'
      BY <1>3, <2>1 DEF HardwareSound, Hand
    <2>3. StartSound'
      BY <1>3, <2>1 DEF StartSound
    <2>4. CallSound'
      BY <1>1, <1>2, <2>1 DEF CallSound, Steady, Sets
    <2>5. QED
      BY <2>2, <2>3, <2>4
  <1>7. CASE GivePins
    <2>1. /\ pc = "init" /\ pc' = "swrst" /\ pins' = "i2c"
          /\ UNCHANGED <<cr1, sr1, line>>
      BY <1>7 DEF GivePins, Goto
    <2>2. HardwareSound'
      BY <1>3, <2>1 DEF HardwareSound, BusSound, Hand
    <2>3. StartSound'
      BY <1>3, <2>1 DEF StartSound
    <2>4. CallSound'
      BY <1>1, <1>2, <2>1 DEF CallSound, Steady, Sets
    <2>5. QED
      BY <2>2, <2>3, <2>4
  <1>8. CASE Enable
    <2>1. /\ pc = "enable" /\ pc' = "idle" /\ cr1' = {"PE"}
          /\ UNCHANGED <<sr1, line, pins>>
      BY <1>8 DEF Enable
    <2>2. line.bus = "free" /\ line.shift = 0 /\ pins = "i2c"
      BY <1>3, <2>1 DEF CallSound, Steady
    <2>3. sr1 \subseteq {"RXNE"}
      BY <1>3, <2>1, <2>2 DEF HardwareSound, BusSound, Hand
    <2>4. HardwareSound'
      BY <2>1, <2>2, <2>3 DEF HardwareSound, BusSound, Hand
    <2>5. StartSound'
      BY <2>1 DEF StartSound
    <2>6. CallSound'
      BY <1>1, <1>2, <2>1 DEF CallSound, Steady, Sets
    <2>7. QED
      BY <2>4, <2>5, <2>6
  <1>9. QED
    BY <1>5, <1>6, <1>7, <1>7, <1>8

\* A wait ends on its flag, with the bus where the flag says it is.
LEMMA FoundKeepsPrompt ==
    ASSUME TypeInv, Steady, PromptInv, Found
    PROVE  PromptInv'
  <1>1. /\ pc \in Waits /\ ~mid /\ Arrived /\ pc' = AfterWait[pc]
        /\ UNCHANGED hardwareVars /\ UNCHANGED <<call, i, mid, reg, ret>>
    BY DEF Found
  <1>2. UNCHANGED <<cr1, sr1, line, pins, target, Length>>
    BY <1>1 DEF hardwareVars, Length
  <1>3. \/ pc = "busy" /\ pc' = "start" /\ ~Busy
        \/ pc = "sb" /\ pc' = "address" /\ "SB" \in sr1
        \/ pc = "addr" /\ pc' = "clear" /\ "ADDR" \in sr1
        \/ pc = "txe" /\ pc' = "put" /\ "TXE" \in sr1
        \/ pc = "btf" /\ pc' = "sent" /\ "BTF" \in sr1
        \/ pc = "rxne" /\ pc' = "take" /\ "RXNE" \in sr1
    BY <1>1 DEF Waits, AfterWait, Arrived, Flag
  <1>4. HardwareSound /\ BusSound /\ HardwareSound' /\ StartSound /\ WriteSound
        /\ ReadSound /\ CallSound
    BY <1>2, <1>3, HardwareUntouched DEF PromptInv, HardwareSound, Hand
  <1>5. CallSound'
    BY <1>1, <1>2, <1>3, <1>4 DEF CallSound, Steady
  <1> SUFFICES StartSound' /\ WriteSound' /\ ReadSound'
    BY <1>4, <1>5 DEF PromptInv
  <1>6. CASE pc = "busy"
    <2>1. pc' = "start" /\ ~Busy
      BY <1>3, <1>6
    <2>2. ("PE" \in cr1 => target.hold = 0) /\ line.bus = "free"
      BY <1>4, <2>1, Fields DEF Busy, HardwareSound, TypeInv
    <2>3. QED
      BY <1>2, <1>4, <1>6, <2>1, <2>2 DEF StartSound, WriteSound, ReadSound
  <1>7. CASE pc = "sb"
    <2>1. pc' = "address" /\ "SB" \in sr1
      BY <1>3, <1>7
    <2>2. line.bus = "start"
      BY <1>4, <1>7, <2>1 DEF StartSound, BusSound
    <2>3. QED
      BY <1>2, <1>4, <1>7, <2>1, <2>2 DEF StartSound, WriteSound, ReadSound, Going
  <1>8. CASE pc = "addr"
    <2>1. pc' = "clear" /\ "ADDR" \in sr1
      BY <1>3, <1>8
    <2>2. line.bus = "addressed"
      BY <1>4, <1>8, <2>1 DEF StartSound, BusSound
    <2>3. QED
      BY <1>1, <1>2, <1>4, <1>8, <2>1, <2>2 DEF StartSound, WriteSound, ReadSound, Going
  <1>9. CASE pc \in {"txe", "btf"}
    <2>1. \/ pc = "txe" /\ pc' = "put" /\ "TXE" \in sr1
          \/ pc = "btf" /\ pc' = "sent" /\ "BTF" \in sr1
      BY <1>3, <1>9
    <2>2. cr1 = Going /\ line.bus = "tx"
      BY <1>4, <2>1 DEF WriteSound
    <2>3. pc' = "sent" => line.shift = 0
      BY <1>4, <2>1, <2>2 DEF BusSound
    <2>4. QED
      BY <1>2, <2>1, <2>2, <2>3 DEF StartSound, WriteSound, ReadSound, Going
  <1>10. CASE pc = "rxne"
    <2>1. pc' = "take" /\ "RXNE" \in sr1
      BY <1>3, <1>10
    <2>2. line.shift = 0 /\ target.sent = i + 1 /\ (More \/ LastIn)
      <3>1. line.bus = "rx" /\ cr1 = Closing => FALSE
        BY <1>4, <2>1 DEF BusSound, Closing
      <3>2. QED
        BY <1>4, <1>10, <2>1, <3>1 DEF ReadSound
    <2>3. StartSound' /\ WriteSound'
      BY <1>2, <1>4, <1>10, <2>1 DEF StartSound, WriteSound
    <2>4. ReadSound'
      BY <1>1, <1>2, <2>1, <2>2 DEF ReadSound, More, LastIn, LastOver
    <2>5. QED
      BY <2>3, <2>4
  <1>11. QED
    BY <1>3, <1>6, <1>7, <1>8, <1>9, <1>10

\* Giving up leaves the registers alone; the wait for SB does not give up while
\* START is pending.
LEMMA WaitingKeepsPrompt ==
    ASSUME TypeInv, Steady, PromptInv, NotYet \/ TimeOut
    PROVE  PromptInv'
  <1>1. /\ pc \in Waits /\ ~Arrived /\ UNCHANGED hardwareVars
        /\ UNCHANGED <<call, i>>
        /\ \/ pc' = pc /\ UNCHANGED <<reg, ret>>
           \/ pc' = "idle" /\ ret' = Error[pc] /\ ~mid' /\ ~Working
    BY DEF NotYet, TimeOut, Return
  <1>2. UNCHANGED <<cr1, sr1, line, pins, target, Length>>
    BY <1>1 DEF hardwareVars, Length
  <1>3. HardwareSound /\ StartSound /\ WriteSound /\ ReadSound /\ CallSound
    BY DEF PromptInv
  <1>4. HardwareSound'
    BY <1>1, <1>2, <1>3, HardwareUntouched DEF Hand, Waits
  <1>5. CASE pc' = pc /\ UNCHANGED <<reg, ret>>
    <2>1. StartSound' /\ WriteSound'
      BY <1>1, <1>2, <1>3, <1>5 DEF StartSound, WriteSound
    <2>2. ReadSound'
      BY <1>1, <1>2, <1>3, <1>5 DEF ReadSound, More, LastIn, LastOver
    <2>3. CallSound'
      BY <1>1, <1>2, <1>3, <1>5 DEF CallSound, Steady, Waits, Sets
    <2>4. QED
      BY <1>4, <2>1, <2>2, <2>3 DEF PromptInv
  <1>6. CASE pc' = "idle" /\ ret' = Error[pc] /\ ~mid' /\ ~Working
    <2>1. ~({"PE", "START"} \subseteq cr1)
      <3>1. SUFFICES ASSUME "PE" \in cr1, "START" \in cr1 PROVE FALSE
        OBVIOUS
      <3>2. pc = "sb"
        BY <1>3, <3>1 DEF StartSound
      <3>3. line.bus = "free" /\ target.hold = 0
        BY <1>3, <3>1, <3>2 DEF StartSound, Going
      <3>4. pins = "i2c" /\ line.shift = 0
        BY <1>3, <3>1, <3>2, <3>3 DEF HardwareSound, BusSound, Hand
      <3>5. QED
        BY <1>6, <3>1, <3>3, <3>4 DEF Working, CanStart, On
    <2>2. StartSound' /\ WriteSound' /\ ReadSound'
      BY <1>2, <1>6, <2>1 DEF StartSound, WriteSound, ReadSound
    <2>3. ret' # "OK"
      BY <1>1, <1>6 DEF Waits, Error
    <2>4. CallSound'
      BY <1>6, <2>3 DEF CallSound, Steady, Sets
    <2>5. QED
      BY <1>4, <2>2, <2>4 DEF PromptInv
  <1>7. QED
    BY <1>1, <1>5, <1>6

\* AF is found only where a byte was refused; a late ADDR is cleared only while
\* the driver waits for the bus.
LEMMA CheckAfKeepsPrompt ==
    ASSUME TypeInv, Steady, PromptInv, CheckAf
    PROVE  PromptInv'
  <1>1. /\ pc \in Waits /\ mid' = FALSE
        /\ UNCHANGED <<cr1, pins, target, call, i, reg, ret>>
        /\ \/ /\ "AF" \in sr1 /\ pc' = "nack" /\ sr1' = sr1 \ {"AF"} /\ line' = line
           \/ "AF" \notin sr1 /\ pc = "busy" /\ pc' = pc /\ ClearAddr
           \/ "AF" \notin sr1 /\ UNCHANGED <<pc, sr1, line>>
    BY DEF CheckAf, ClearAddr, hardwareVars
  <1>2. Length' = Length
    BY <1>1 DEF Length
  <1>3. HardwareSound /\ BusSound /\ StartSound /\ WriteSound /\ ReadSound /\ CallSound
    BY <1>1 DEF PromptInv, HardwareSound, Hand, Waits
  <1>4. CASE UNCHANGED <<pc, sr1, line>>
    <2>1. UNCHANGED <<pc, sr1, line>>
      BY <1>4
    <2>2. HardwareSound'
      BY <1>1, <1>3, <2>1 DEF HardwareSound, BusSound, Hand
    <2>3. StartSound' /\ WriteSound'
      BY <1>1, <1>3, <2>1 DEF StartSound, WriteSound
    <2>4. ReadSound'
      BY <1>1, <1>2, <1>3, <2>1 DEF ReadSound, More, LastIn, LastOver
    <2>5. CallSound'
      BY <1>1, <1>3, <2>1 DEF CallSound, Steady
    <2>6. QED
      BY <2>2, <2>3, <2>4, <2>5 DEF PromptInv
  <1>5. CASE "AF" \in sr1 /\ pc' = "nack" /\ sr1' = sr1 \ {"AF"} /\ line' = line
    <2>1. line.bus = "refused" /\ cr1 = Going /\ line.shift = 0
          /\ sr1 \subseteq {"AF", "TXE", "BTF", "RXNE"}
      <3>1. line.bus = "refused"
        BY <1>3, <1>5, Fields DEF BusSound, TypeInv, Buses
      <3>2. QED
        BY <1>3, <1>5, <3>1 DEF BusSound
    <2>2. pc' = "nack" /\ pc \notin {"idle", "swrst", "enable"}
      BY <1>1, <1>5 DEF Waits
    <2>3. HardwareSound'
      BY <1>1, <1>3, <2>1, <2>2 DEF HardwareSound, BusSound, Hand, Going, Waits
    <2>4. StartSound' /\ WriteSound' /\ ReadSound'
      BY <1>1, <2>1, <2>2 DEF StartSound, WriteSound, ReadSound, Going
    <2>5. CallSound'
      BY <1>1, <1>3, <2>2 DEF CallSound, Steady
    <2>6. QED
      BY <2>3, <2>4, <2>5 DEF PromptInv
  <1>6. CASE pc = "busy" /\ pc' = pc /\ ClearAddr
    <2>1. HardwareSound'
      <3>1. CASE line.bus = "addressed"
        <4>1. sr1 = {"ADDR"} /\ cr1 = Going /\ line.shift = 0
          BY <1>3, <3>1 DEF BusSound
        <4>2. /\ \/ line'.bus = "rx" /\ sr1' = {}
                 \/ line'.bus = "tx" /\ sr1' = {"TXE"}
              /\ line'.shift = 0
          BY <1>6, <3>1, <4>1, LineFields DEF ClearAddr, TypeInv, HardwareType
        <4>3. QED
          BY <1>1, <1>3, <1>6, <4>1, <4>2 DEF HardwareSound, BusSound, Hand, Going
      <3>2. CASE line.bus # "addressed"
        <4>1. line' = line /\ sr1' = sr1 \ {"ADDR"}
          BY <1>6, <3>2 DEF ClearAddr
        <4>2. QED
          BY <1>1, <1>3, <1>6, <3>2, <4>1 DEF HardwareSound, BusSound, Hand
      <3>3. QED
        BY <3>1, <3>2
    <2>2. StartSound' /\ WriteSound' /\ ReadSound'
      BY <1>1, <1>3, <1>6 DEF StartSound, WriteSound, ReadSound
    <2>3. CallSound'
      BY <1>1, <1>6 DEF CallSound, Sets
    <2>4. QED
      BY <2>1, <2>2, <2>3 DEF PromptInv
  <1>7. QED
    BY <1>1, <1>4, <1>5, <1>6

\* The first half of CR1 |= ...
LEMMA ReadCr1KeepsPrompt ==
    ASSUME TypeInv, Steady, PromptInv, ReadCr1
    PROVE  PromptInv'
  <1>1. /\ pc \in DOMAIN Sets /\ mid' = TRUE /\ reg' = cr1 /\ UNCHANGED hardwareVars
        /\ UNCHANGED <<pc, call, i, ret>>
    BY DEF ReadCr1
  <1>2. UNCHANGED <<cr1, sr1, line, pins, target, Length>>
    BY <1>1 DEF hardwareVars, Length
  <1>3. HardwareSound /\ StartSound /\ WriteSound /\ ReadSound /\ CallSound
    BY DEF PromptInv
  <1>4. HardwareSound'
    BY <1>1, <1>2, <1>3 DEF HardwareSound, BusSound, Hand
  <1>5. StartSound' /\ WriteSound'
    BY <1>1, <1>2, <1>3 DEF StartSound, WriteSound
  <1>6. ReadSound'
    BY <1>1, <1>2, <1>3 DEF ReadSound, More, LastIn, LastOver
  <1>7. CallSound'
    BY <1>1, <1>2, <1>3 DEF CallSound, Steady, Sets
  <1>8. QED
    BY <1>4, <1>5, <1>6, <1>7 DEF PromptInv

\* The second half writes what was read, with the bits of its place.
LEMMA WriteCr1KeepsPrompt ==
    ASSUME TypeInv, Steady, PromptInv, WriteCr1, ~Doubles
    PROVE  PromptInv'
  <1>1. /\ pc \in DOMAIN Sets /\ mid /\ cr1' = (reg \cup Sets[pc]) \ Clears[pc]
        /\ UNCHANGED <<sr1, line, pins, target>> /\ UNCHANGED <<call, i>>
        /\ mid' = FALSE
    BY DEF WriteCr1, Return
  <1>2. HardwareSound /\ BusSound /\ StartSound /\ WriteSound /\ ReadSound /\ CallSound
    BY <1>1 DEF PromptInv, HardwareSound, Hand, Sets
  <1>3. reg = cr1 /\ ret = "none"
    BY <1>1, <1>2 DEF CallSound, Steady, Sets, Doubles, Closing
  <1>4. Length' = Length
    BY <1>1 DEF Length
  <1>5. cr1 \subseteq Cr1Bits
    BY DEF TypeInv, HardwareType
  <1>6. CASE pc = "start"
    <2>1. pc' = "sb" /\ ret' = ret /\ cr1' = cr1 \cup {"ACK", "START"}
      BY <1>1, <1>3, <1>6 DEF WriteCr1, Sets, Clears, Return
    <2>2. /\ line.bus = "free" /\ "STOP" \notin cr1
          /\ "PE" \in cr1 => target.hold = 0 /\ "START" \notin cr1
      BY <1>2, <1>6 DEF StartSound, BusSound
    <2>3. "PE" \in cr1' => cr1' = Going \cup {"START"}
      BY <1>5, <2>1, <2>2 DEF Going, Cr1Bits
    <2>4. HardwareSound'
      BY <1>1, <1>2, <1>6, <2>1, <2>2 DEF HardwareSound, BusSound, Hand
    <2>5. StartSound' /\ WriteSound' /\ ReadSound'
      BY <1>1, <2>1, <2>2, <2>3 DEF StartSound, WriteSound, ReadSound
    <2>6. CallSound'
      BY <1>1, <1>3, <2>1 DEF CallSound, Steady
    <2>7. QED
      BY <2>4, <2>5, <2>6 DEF PromptInv
  <1>7. CASE pc = "stop"
    <2>1. pc' = "idle" /\ ret' = "OK" /\ cr1' = cr1 \cup {"STOP"}
      BY <1>1, <1>3, <1>7 DEF WriteCr1, Sets, Clears, Return
    <2>2. /\ cr1 = Going /\ line.bus = "tx" /\ line.shift = 0 /\ call.op = "write"
      BY <1>2, <1>7 DEF WriteSound
    <2>3. HardwareSound'
      BY <1>1, <1>2, <1>7, <2>1, <2>2 DEF HardwareSound, BusSound, Hand, Going
    <2>4. StartSound' /\ WriteSound' /\ ReadSound'
      BY <2>1, <2>2 DEF StartSound, WriteSound, ReadSound, Going
    <2>5. CallSound'
      BY <1>1, <2>1, <2>2 DEF CallSound, Steady
    <2>6. QED
      BY <2>3, <2>4, <2>5 DEF PromptInv
  <1>8. CASE pc = "nack"
    <2>1. pc' = "idle" /\ ret' = "NACK" /\ cr1' = cr1 \cup {"STOP"}
      BY <1>1, <1>3, <1>8 DEF WriteCr1, Sets, Clears, Return
    <2>2. cr1 = Going /\ line.bus = "refused"
      BY <1>2, <1>8 DEF StartSound
    <2>3. "AF" \notin sr1
      BY <1>2, <1>8 DEF StartSound
    <2>4. HardwareSound'
      BY <1>1, <1>2, <1>8, <2>1, <2>2, <2>3 DEF HardwareSound, BusSound, Hand, Going
    <2>5. StartSound' /\ WriteSound' /\ ReadSound'
      BY <2>1, <2>2 DEF StartSound, WriteSound, ReadSound, Going
    <2>6. CallSound'
      BY <1>1, <2>1, <2>2 DEF CallSound, Steady
    <2>7. QED
      BY <2>4, <2>5, <2>6 DEF PromptInv
  <1>9. CASE pc \in {"refuse", "queue"}
    <2>1. /\ pc' = IF pc = "refuse" THEN "queue" ELSE "rxne"
          /\ ret' = ret
          /\ cr1' = IF pc = "refuse" THEN cr1 \ {"ACK"} ELSE cr1 \cup {"STOP"}
      BY <1>1, <1>3, <1>9 DEF WriteCr1, Sets, Clears, Return
    <2>2. /\ line.bus = "rx" /\ cr1 = IF pc = "refuse" THEN Going ELSE {"PE"}
          /\ "RXNE" \notin sr1 /\ line.shift = 0
          /\ i = Length - 1 /\ target.sent = i
      BY <1>2, <1>9 DEF ReadSound
    <2>3. cr1' = IF pc = "refuse" THEN {"PE"} ELSE Closing
      BY <2>1, <2>2 DEF Going, Closing
    <2>4. HardwareSound'
      BY <1>1, <1>2, <1>9, <2>1, <2>2, <2>3 DEF HardwareSound, BusSound, Hand, Closing
    <2>5. StartSound' /\ WriteSound'
      BY <1>9, <2>1, <2>3 DEF StartSound, WriteSound, Closing
    <2>6. ReadSound'
      BY <1>1, <1>4, <1>9, <2>1, <2>2, <2>3 DEF ReadSound
    <2>7. CallSound'
      BY <1>1, <1>3, <1>9, <2>1 DEF CallSound, Steady
    <2>8. QED
      BY <2>4, <2>5, <2>6, <2>7 DEF PromptInv
  <1>10. CASE pc = "restore"
    <2>1. pc' = "idle" /\ ret' = "OK" /\ cr1' = cr1 \cup {"ACK"}
      BY <1>1, <1>3, <1>10 DEF WriteCr1, Sets, Clears, Return
    <2>2. LastOver /\ target.sent = Length
      BY <1>2, <1>10 DEF ReadSound
    <2>3. line.bus = "refused" => "AF" \notin sr1
      BY <1>2, <2>2 DEF BusSound, Going, Closing, LastOver
    <2>4. HardwareSound'
      BY <1>1, <1>2, <1>10, <2>1, <2>2, <2>3
         DEF HardwareSound, BusSound, Hand, Closing, LastOver
    <2>5. StartSound' /\ WriteSound' /\ ReadSound'
      BY <2>1, <2>2 DEF StartSound, WriteSound, ReadSound, Closing, LastOver
    <2>6. CallSound'
      BY <1>1, <2>1, <2>2 DEF CallSound, Closing, Length, LastOver, Sets
    <2>7. QED
      BY <2>4, <2>5, <2>6 DEF PromptInv
  <1>11. QED
    BY <1>1, <1>6, <1>7, <1>8, <1>9, <1>10 DEF Sets

\* The accesses to the data register and what follows them.
LEMMA AddressStepKeepsPrompt ==
    ASSUME TypeInv, Steady, PromptInv, Address
    PROVE  PromptInv'
  <1>1. /\ pc = "address" /\ pc' = "addr" /\ UNCHANGED <<cr1, pins, target>>
        /\ sr1' = sr1 \ {"SB", "RXNE", "BTF"}
        /\ line' = IF line.bus = "start"
                   THEN [bus |-> "address", dr |-> 0, shift |-> 0, reads |-> call.reads]
                   ELSE line
        /\ UNCHANGED <<call, i, mid, reg, ret>>
    BY DEF Address, WriteAddress, Goto
  <1>2. HardwareSound /\ BusSound /\ StartSound /\ CallSound
    BY <1>1 DEF PromptInv, HardwareSound, Hand
  <1>3. line.bus = "start" /\ cr1 = Going /\ target.sent = 0
    BY <1>1, <1>2 DEF StartSound
  <1>4. /\ line'.bus = "address" /\ line'.shift = 0 /\ line'.reads = call.reads
        /\ sr1' = {}
    BY <1>1, <1>2, <1>3 DEF BusSound
  <1>5. HardwareSound'
    BY <1>1, <1>2, <1>3, <1>4 DEF HardwareSound, BusSound, Hand, Going
  <1>6. StartSound' /\ WriteSound' /\ ReadSound'
    BY <1>1, <1>3, <1>4 DEF StartSound, WriteSound, ReadSound, Going
  <1>7. CallSound'
    BY <1>1, <1>2 DEF CallSound, Steady, Waits, Sets
  <1>8. QED
    BY <1>5, <1>6, <1>7 DEF PromptInv

\* The data phase begins with nothing received and nothing refused.
LEMMA ClearKeepsPrompt ==
    ASSUME TypeInv, Steady, PromptInv, Clear
    PROVE  PromptInv'
  <1>1. /\ pc = "clear" /\ ClearAddr /\ i' = 0
        /\ pc' = IF call.reads THEN NextIn(0) ELSE NextOut(0)
        /\ UNCHANGED <<call, mid, reg, ret>>
    BY DEF Clear
  <1>2. HardwareSound /\ BusSound /\ StartSound /\ CallSound
    BY <1>1 DEF PromptInv, HardwareSound, Hand
  <1>3. line.bus = "addressed" /\ line.reads = call.reads /\ target.sent = 0
    BY <1>1, <1>2 DEF StartSound
  <1>4. sr1 = {"ADDR"} /\ cr1 = Going /\ line.shift = 0
    BY <1>2, <1>3 DEF BusSound
  <1>5. /\ line'.bus = IF call.reads THEN "rx" ELSE "tx"
        /\ line'.shift = 0
        /\ sr1' = IF call.reads THEN {} ELSE {"TXE"}
        /\ UNCHANGED <<cr1, pins, target>>
    BY <1>1, <1>3, <1>4, LineFields DEF ClearAddr, TypeInv, HardwareType
  <1>6. Length \in Nat /\ Length' = Length /\ (call.reads => Length > 0)
    BY <1>1, LengthType DEF TypeInv, LoopBounds, Length
  <1>7. /\ call.reads => pc' = IF Length = 1 THEN "refuse" ELSE "rxne"
        /\ ~call.reads => pc' \in {"txe", "btf"}
    BY <1>1, <1>6 DEF NextIn, NextOut
  <1>8. HardwareSound'
    BY <1>2, <1>4, <1>5, <1>7 DEF HardwareSound, BusSound, Hand, Going
  <1>9. StartSound' /\ WriteSound'
    BY <1>4, <1>5, <1>7 DEF StartSound, WriteSound, Going
  <1>10. ReadSound'
    <2>1. CASE call.reads /\ Length = 1
      BY <1>1, <1>3, <1>4, <1>5, <1>6, <1>7, <2>1 DEF ReadSound
    <2>2. CASE call.reads /\ Length # 1
      <3>1. pc' = "rxne" /\ More'
        BY <1>1, <1>4, <1>5, <1>6, <1>7, <2>2 DEF More
      <3>2. QED
        BY <1>1, <1>3, <1>5, <2>2, <3>1 DEF ReadSound
    <2>3. CASE ~call.reads
      BY <1>7, <2>3 DEF ReadSound
    <2>4. QED
      BY <2>1, <2>2, <2>3
  <1>11. ~mid'
    BY <1>1, <1>2 DEF CallSound, Steady, Waits, Sets
  <1>12. CallSound'
    BY <1>1, <1>2, <1>5, <1>7, <1>11 DEF CallSound, Steady, Sets
  <1>13. QED
    BY <1>8, <1>9, <1>10, <1>12 DEF PromptInv

LEMMA PutKeepsPrompt ==
    ASSUME TypeInv, Steady, PromptInv, Put
    PROVE  PromptInv'
  <1>1. /\ pc = "put" /\ WriteByte(i + 1) /\ pc' \in {"txe", "btf"}
        /\ UNCHANGED <<call, mid, reg, ret>>
    BY DEF Put, NextOut
  <1>2. HardwareSound /\ BusSound /\ WriteSound /\ CallSound
    BY <1>1 DEF PromptInv, HardwareSound, Hand
  <1>3. cr1 = Going /\ line.bus = "tx"
    BY <1>1, <1>2 DEF WriteSound
  <1>4. /\ line'.bus = "tx" /\ UNCHANGED <<cr1, pins, target>>
        /\ sr1' \subseteq {"TXE"}
    <2>1. /\ line' = [line EXCEPT !.shift = i + 1] \/ line' = [line EXCEPT !.dr = i + 1]
          /\ sr1' \subseteq sr1 \ {"BTF"} /\ UNCHANGED <<cr1, pins, target>>
      BY <1>1, <1>3 DEF WriteByte
    <2>2. line'.bus = "tx"
      <3>1. CASE line' = [line EXCEPT !.shift = i + 1]
        BY <1>3, <3>1, LineFields DEF TypeInv, HardwareType
      <3>2. CASE line' = [line EXCEPT !.dr = i + 1]
        BY <1>3, <3>2, LineFields DEF TypeInv, HardwareType
      <3>3. QED
        BY <2>1, <3>1, <3>2
    <2>3. QED
      BY <1>2, <1>3, <2>1, <2>2 DEF BusSound
  <1>5. HardwareSound'
    BY <1>2, <1>3, <1>4, <1>1 DEF HardwareSound, BusSound, Hand, Going
  <1>6. StartSound' /\ WriteSound' /\ ReadSound'
    BY <1>1, <1>3, <1>4 DEF StartSound, WriteSound, ReadSound, Going
  <1>7. CallSound'
    BY <1>1, <1>2 DEF CallSound, Steady, Waits, Sets
  <1>8. QED
    BY <1>5, <1>6, <1>7 DEF PromptInv

\* The byte before the last leaves the last one to be refused.
LEMMA TakeKeepsPrompt ==
    ASSUME TypeInv, Steady, PromptInv, Take
    PROVE  PromptInv'
  <1>1. /\ pc = "take" /\ ReadByte /\ i' = i + 1 /\ pc' = NextIn(i + 1)
        /\ UNCHANGED <<call, mid, reg, ret>>
    BY DEF Take
  <1>2. HardwareSound /\ BusSound /\ ReadSound /\ CallSound
    BY <1>1 DEF PromptInv, HardwareSound, Hand
  <1>3. line.shift = 0 /\ target.sent = i + 1 /\ (More \/ LastIn)
    BY <1>1, <1>2 DEF ReadSound
  <1>4. /\ line'.bus = line.bus /\ line'.shift = 0
        /\ sr1' = sr1 \ {"BTF", "RXNE"}
        /\ UNCHANGED <<cr1, pins, target>>
    <2>1. /\ line' = [line EXCEPT !.dr = line.shift, !.shift = 0]
          /\ sr1' = sr1 \ ({"BTF"} \cup (IF line.shift = 0 THEN {"RXNE"} ELSE {}))
          /\ UNCHANGED <<cr1, pins, target>>
      BY <1>1 DEF ReadByte
    <2>2. line'.bus = line.bus /\ line'.shift = 0
      BY <2>1, LineFields DEF TypeInv, HardwareType
    <2>3. QED
      BY <1>3, <2>1, <2>2
  <1>5. /\ i \in Nat /\ Length \in Nat /\ Length' = Length
    BY <1>1, LengthType DEF TypeInv, DriverType, Length
  <1>6. ~mid'
    BY <1>1, <1>2 DEF CallSound, Steady, Waits, Sets
  <1>7. CASE More
    <2>1. line.bus = "rx" /\ cr1 = Going /\ i < Length - 1
      BY <1>7 DEF More
    <2>2. pc' = IF i + 1 = Length - 1 THEN "refuse" ELSE "rxne"
      BY <1>1, <1>5, <2>1 DEF NextIn
    <2>3. HardwareSound'
      BY <1>2, <1>4, <2>1, <2>2 DEF HardwareSound, BusSound, Hand, Going
    <2>4. StartSound' /\ WriteSound'
      BY <2>1, <2>2, <1>4 DEF StartSound, WriteSound, Going
    <2>5. ReadSound'
      <3>1. CASE i + 1 = Length - 1
        <4>1. pc' = "refuse"
          BY <2>2, <3>1
        <4>2. QED
          BY <1>1, <1>3, <1>4, <1>5, <2>1, <3>1, <4>1 DEF ReadSound
      <3>2. CASE i + 1 # Length - 1
        <4>1. pc' = "rxne"
          BY <2>2, <3>2
        <4>2. More'
          BY <1>1, <1>4, <1>5, <2>1, <3>2 DEF More
        <4>3. "RXNE" \notin sr1' /\ target'.sent = i'
          BY <1>1, <1>3, <1>4
        <4>4. QED
          BY <1>4, <4>1, <4>2, <4>3 DEF ReadSound
      <3>3. QED
        BY <3>1, <3>2
    <2>6. CallSound'
      BY <1>1, <1>2, <1>6, <2>2 DEF CallSound, Steady, Waits, Sets
    <2>7. QED
      BY <2>3, <2>4, <2>5, <2>6 DEF PromptInv
  <1>8. CASE LastIn
    <2>1. LastOver /\ i = Length - 1
      BY <1>8 DEF LastIn
    <2>2. pc' = "restore" /\ i + 1 = Length
      BY <1>1, <1>5, <2>1 DEF NextIn
    <2>3. HardwareSound'
      <3>1. "PE" \in cr1 /\ ~Hand'
        BY <2>1, <2>2 DEF LastOver, Closing, Hand
      <3>2. pins' = "i2c"
        BY <1>1, <1>2, <1>4, <3>1 DEF HardwareSound, Hand
      <3>3. CASE line.bus = "refused" /\ cr1 = Closing
        BY <1>2, <1>4, <3>1, <3>2, <3>3 DEF HardwareSound, BusSound, Closing, Going
      <3>4. CASE line.bus = "free" /\ cr1 = {"PE"}
        BY <1>2, <1>4, <3>1, <3>2, <3>4 DEF HardwareSound, BusSound
      <3>5. QED
        BY <2>1, <3>3, <3>4 DEF LastOver
    <2>4. StartSound' /\ WriteSound'
      BY <2>1, <2>2, <1>4 DEF StartSound, WriteSound, Closing, LastOver
    <2>5. ReadSound'
      BY <1>3, <1>4, <1>5, <2>1, <2>2 DEF ReadSound, LastOver
    <2>6. CallSound'
      BY <1>1, <1>2, <1>6, <2>2 DEF CallSound, Sets
    <2>7. QED
      BY <2>3, <2>4, <2>5, <2>6 DEF PromptInv
  <1>9. QED
    BY <1>3, <1>7, <1>8

LEMMA SentKeepsPrompt ==
    ASSUME TypeInv, Steady, PromptInv, Sent \/ NoBytes
    PROVE  PromptInv'
  <1>1. /\ \/ pc = "sent" /\ pc' = "stop" /\ call.op = "write" /\ ret' = ret /\ call' = call
           \/ pc' = "idle" /\ ret' = "PARAM"
           \/ pc = "sent" /\ pc' = "busy" /\ ret' = ret
        /\ pc \in {"sent", "param"} /\ UNCHANGED hardwareVars
        /\ mid' = mid \/ mid' = FALSE
    BY DEF Sent, NoBytes, Goto, Return
  <1>2. UNCHANGED <<cr1, sr1, line, pins, target>>
    BY <1>1 DEF hardwareVars
  <1>3. HardwareSound /\ StartSound /\ WriteSound /\ CallSound
    BY DEF PromptInv
  <1>4. HardwareSound'
    BY <1>1, <1>2, <1>3, HardwareUntouched DEF Hand
  <1>5. ~({"PE", "START"} \subseteq cr1)
    BY <1>1, <1>3 DEF StartSound
  <1>6. StartSound' /\ ReadSound'
    BY <1>1, <1>2, <1>5 DEF StartSound, ReadSound
  <1>7. WriteSound'
    BY <1>1, <1>2, <1>3 DEF WriteSound
  <1>8. ~mid'
    BY <1>1, <1>3 DEF CallSound, Steady, Waits, Sets
  <1>9. CallSound'
    BY <1>1, <1>3, <1>8 DEF CallSound, Steady
  <1>10. QED
    BY <1>4, <1>6, <1>7, <1>9 DEF PromptInv

-----------------------------------------------------------------------------
(* What follows for the caller of a prompt driver. *)

PromptHolds == Steady /\ (Orderly => PromptInv)

LEMMA PromptInvInit ==
    ASSUME Init
    PROVE  PromptHolds
  BY DEF Init, HardwareInit, DriverInit, NoTransfer, PromptHolds, PromptInv, HardwareSound,
         BusSound, Hand, StartSound, WriteSound, ReadSound, CallSound, Steady, Waits, Sets

LEMMA SteadyNext ==
    ASSUME TypeInv, Steady, [Next]_vars
    PROVE  Steady'
  <1>1. CASE Transfer
    <2>1. CASE Found \/ NotYet \/ CheckAf
      <3>1. /\ pc \in Waits /\ ret' = ret
            /\ pc' \in Waits \cup DOMAIN Sets \cup
                        {"address", "clear", "put", "sent", "take"}
            /\ mid' => pc' = pc
        BY <2>1 DEF Found, NotYet, CheckAf, Waits, Sets, AfterWait
      <3>2. QED
        BY <3>1 DEF Steady, Waits, Sets
    <2>2. CASE TimeOut
      BY <2>2 DEF TimeOut, Return, Steady
    <2>3. CASE ReadCr1 \/ WriteCr1
      BY <2>3 DEF ReadCr1, WriteCr1, Return, Steady, Waits, Sets
    <2>4. CASE Address \/ Clear \/ Put \/ Take
      BY <2>4 DEF Address, Goto, Clear, NextIn, NextOut, Put, Take, Steady, Waits, Sets
    <2>5. CASE Sent \/ NoBytes
      BY <2>5 DEF Sent, NoBytes, Goto, Return, Steady, Waits, Sets
    <2>6. QED
      BY <1>1, <2>1, <2>2, <2>3, <2>4, <2>5 DEF Transfer
  <1>2. CASE TakePins \/ Clock \/ Recovered \/ GivePins \/ ResetPeripheral \/ Enable
    BY <1>2 DEF TakePins, Clock, Recovered, GivePins, ResetPeripheral, Enable, Goto, Steady,
                Waits, Sets
  <1>3. CASE CallTransfer \/ CallInit \/ CallRecover \/ ProcessorReset
    BY <1>3 DEF CallTransfer, CallInit, CallRecover, Begin, ProcessorReset, Steady,
                Waits, Sets
  <1>4. CASE Peripheral \/ ((Stretch \/ Unstretch) /\ UNCHANGED driverVars)
    BY <1>4 DEF Peripheral, Hardware, Stretch, Unstretch, driverVars, Steady
  <1>5. CASE UNCHANGED vars
    BY <1>5 DEF vars, hardwareVars, driverVars, Steady
  <1>6. QED
    BY <1>1, <1>2, <1>3, <1>4, <1>5 DEF Next, Driver, Environment

LEMMA PromptInvNext ==
    ASSUME TypeInv, PromptHolds, [Next]_vars
    PROVE  PromptHolds'
  <1>1. Steady'
    BY SteadyNext DEF PromptHolds
  <1>2. SUFFICES ASSUME prompt', ~doubled' PROVE PromptInv'
    BY <1>1 DEF PromptHolds, Orderly
  <1>3. Steady /\ prompt
    BY <1>2 DEF PromptHolds, Next, Driver, Peripheral, Environment, vars, driverVars
  <1>4. CASE Recovered \/ ResetPeripheral \/ ProcessorReset
    BY <1>3, <1>4, ResetGivesPrompt
  <1>5. CASE ~(Recovered \/ ResetPeripheral \/ ProcessorReset)
    <2>1. ~doubled /\ (Driver => ~Doubles)
      <3>1. CASE Driver
        <4>1. doubled' = ((doubled \/ Doubles) /\ ~Resets)
          BY <3>1 DEF Driver
        <4>2. \/ Transfer /\ pc \in Waits \cup DOMAIN Sets \cup
                               {"address", "clear", "put", "take", "sent", "param"}
              \/ pc \in {"recover", "clock", "init", "enable"}
          BY <1>5, <3>1 DEF Driver, Transfer, Found, NotYet, TimeOut, CheckAf, ReadCr1,
             WriteCr1, Address, Clear, Put, Take, Sent, NoBytes, TakePins, Clock,
             GivePins, Enable
        <4>3. ~Resets
          BY <4>2 DEF Resets, Waits, Sets
        <4>4. QED
          BY <1>2, <4>1, <4>3
      <3>2. CASE ~Driver
        <4>1. doubled' = doubled
          BY <1>5, <3>2 DEF Next, Peripheral, Environment, vars, driverVars
        <4>2. QED
          BY <1>2, <3>2, <4>1
      <3>3. QED
        BY <3>1, <3>2
    <2>2. PromptInv
      BY <1>3, <2>1 DEF PromptHolds, Orderly
    <2>3. CASE Driver
      <3>1. Transfer \/ TakePins \/ Clock \/ GivePins \/ Enable
        BY <1>5, <2>3 DEF Driver
      <3>2. QED
        BY <1>3, <2>1, <2>2, <2>3, <3>1, LadderKeepsPrompt, FoundKeepsPrompt,
           WaitingKeepsPrompt, CheckAfKeepsPrompt, ReadCr1KeepsPrompt,
           WriteCr1KeepsPrompt, AddressStepKeepsPrompt, ClearKeepsPrompt,
           PutKeepsPrompt, TakeKeepsPrompt, SentKeepsPrompt DEF Transfer
    <2>4. CASE Peripheral
      BY <1>3, <2>2, <2>4, PeripheralKeepsPrompt
    <2>5. CASE Environment
      BY <1>3, <1>5, <2>2, <2>5, CallerKeepsPrompt, StretchKeepsPrompt DEF Environment
    <2>6. CASE UNCHANGED vars
      <3>1. UNCHANGED <<cr1, sr1, line, pins, target, pc, call, i, mid, reg, ret, Length>>
        BY <2>6 DEF vars, hardwareVars, driverVars, Length
      <3>2. HardwareSound' /\ StartSound'
        BY <2>2, <3>1 DEF PromptInv, HardwareSound, BusSound, Hand, StartSound
      <3>3. WriteSound' /\ ReadSound' /\ CallSound'
        BY <2>2, <3>1
           DEF PromptInv, WriteSound, ReadSound, CallSound, More, LastIn, LastOver
      <3>4. QED
        BY <3>2, <3>3 DEF PromptInv
    <2>7. QED
      BY <2>3, <2>4, <2>5, <2>6 DEF Next
  <1>6. QED
    BY <1>4, <1>5

LEMMA PromptInvariant == Spec => []PromptHolds
  <1>1. Init => PromptHolds
    BY PromptInvInit
  <1>2. TypeInv /\ PromptHolds /\ [Next]_vars => PromptHolds'
    BY PromptInvNext
  <1>3. QED
    BY <1>1, <1>2, TypeInvHolds, PTL DEF Spec

\* After I2C_OK of i2c_write or i2c_read the bus of a prompt driver is free, or
\* the STOP that frees it is requested and nothing cancels it; of one that has
\* doubled no STOP since I2C1 was reset.
THEOREM OkAlwaysReleasesBus == Spec => []OkReleasesBus
  <1>1. PromptHolds => OkReleasesBus
    BY DEF PromptHolds, PromptInv, CallSound, OkReleasesBus
  <1>2. QED
    BY <1>1, PromptInvariant, PTL

\* Between the calls of a prompt driver a STOP is pending on a free bus, so that
\* the START of the next call is cut off, only if, since I2C1 was reset, the STOP
\* of an i2c_read has gone out between the halves of its CR1 |= ACK.
THEOREM StrayStopsAreDoubled == Spec => []StrayStopIsDoubled
  <1>1. PromptHolds => StrayStopIsDoubled
    BY DEF PromptHolds, Orderly, PromptInv, HardwareSound, BusSound, Hand,
           StrayStopIsDoubled
  <1>2. QED
    BY <1>1, PromptInvariant, PTL

\* A prompt i2c_read that returns I2C_OK has let the target send as many bytes
\* as were asked for and not one more: the last is refused before it is in.
\* Again until a STOP is doubled.
THEOREM LastByteAlwaysRefused == Spec => []PromptlyRefused
  <1>1. PromptHolds => PromptlyRefused
    BY DEF PromptHolds, PromptInv, CallSound, PromptlyRefused, LastByteRefused
  <1>2. QED
    BY <1>1, PromptInvariant, PTL

-----------------------------------------------------------------------------
(* What is transferred.  This holds of every driver, prompt or not: the       *)
(* bytes are in the buffer, in DR or in the shift register, or the transfer   *)
(* is over and its flags are not set again.                                   *)

\* The bytes 1, 2, ..., k.
Upto(k) == [j \in 1 .. k |-> j]

\* CR1 as it was read is still what it was, as far as PE goes.
CopySound ==
    /\ mid => pc \in Waits \cup DOMAIN Sets
    /\ mid /\ pc \in DOMAIN Sets /\ "PE" \in cr1 => "PE" \in reg

\* What the bus says of the registers, unless the driver clocks by hand.
BusData ==
    /\ "PE" \notin cr1 => line.bus = "free"
    /\ ~Hand =>
          /\ "ADDR" \in sr1 => line.bus = "addressed"
          /\ line.bus \in {"start", "address", "addressed"} =>
                target.got = <<>> /\ target.sent = 0
          /\ line.bus \in {"address", "addressed"} =>
                line.shift = 0 /\ line.dr = 0 /\ "RXNE" \notin sr1

\* A transfer is addressed as its call wants, or not at all.
AddressData ==
    /\ pc \in {"start", "sb", "address"} => line.bus \in {"free", "start"}
    /\ pc = "addr" =>
          \/ line.bus \in {"free", "start", "refused"}
          \/ line.bus \in {"address", "addressed"} /\ line.reads = call.reads
    /\ pc = "clear" => line.bus = "addressed" /\ line.reads = call.reads

\* What i2c_write has put is acknowledged, in the shift register or in DR ...
OutInOrder ==
    LET g == Len(target.got)
    IN  /\ target.got = Upto(g)
        /\ \/ line.shift = 0 /\ line.dr = 0 /\ g = i
           \/ line.shift = g + 1 /\ line.dr = 0 /\ g + 1 = i
           \/ line.shift = g + 1 /\ line.dr = g + 2 /\ g + 2 = i

\* ... or the transmission is over, and BTF will not be set.
GoesOut ==
    /\ line.bus = "tx" /\ OutInOrder
    /\ "TXE" \in sr1 \/ pc = "put" => line.dr = 0
    /\ "BTF" \in sr1 => line.shift = 0 /\ line.dr = 0
Over == line.bus \in {"free", "start", "refused"} /\ "BTF" \notin sr1
WriteData ==
    /\ pc \in {"txe", "put", "btf"} => GoesOut \/ Over
    /\ pc = "btf" => i = Length

\* What the target has sent is stored, in DR or in the shift register.
Held ==
    \/ "RXNE" \notin sr1 /\ line.shift = 0 /\ target.sent = i
    \/ "RXNE" \in sr1 /\ line.shift = 0 /\ target.sent = i + 1
    \/ "RXNE" \in sr1 /\ line.shift # 0 /\ target.sent = i + 2
ReadData ==
    pc \in {"refuse", "queue", "rxne", "take"} =>
       /\ buf = Upto(i) /\ line.bus \in {"free", "start", "refused", "rx"}
       /\ "RXNE" \in sr1 => line.dr = i + 1 /\ line.shift \in {0, i + 2}
       /\ pc = "take" => "RXNE" \in sr1
       /\ line.bus = "rx" => Held

DataInv == CopySound /\ BusData /\ AddressData /\ WriteData /\ ReadData

LEMMA UptoGrows ==
    ASSUME NEW k \in Nat
    PROVE  /\ Upto(k) \in Seq(Nat) /\ Len(Upto(k)) = k /\ Upto(0) = <<>>
           /\ Append(Upto(k), k + 1) = Upto(k + 1)
  BY DEF Upto

\* The same for DR, and for what the target got and sent.
LEMMA DrFields ==
    ASSUME NEW l \in LineType, NEW b, NEW d, NEW s
    PROVE  /\ [l EXCEPT !.bus = b, !.shift = s].dr = l.dr
           /\ [l EXCEPT !.bus = b, !.shift = s].reads = l.reads
           /\ [l EXCEPT !.bus = b, !.dr = d].dr = d
           /\ [l EXCEPT !.shift = s, !.dr = d].dr = d
           /\ [l EXCEPT !.dr = d, !.shift = s].dr = d
           /\ [l EXCEPT !.shift = s].dr = l.dr /\ [l EXCEPT !.dr = d].dr = d
  BY DEF LineType

LEMMA TargetFields ==
    ASSUME NEW t \in TargetType, NEW g, NEW k, NEW r, NEW st
    PROVE  /\ [t EXCEPT !.got = g, !.sent = k, !.refused = r].got = g
           /\ [t EXCEPT !.got = g, !.sent = k, !.refused = r].sent = k
           /\ [t EXCEPT !.stretch = st].got = t.got
           /\ [t EXCEPT !.stretch = st].sent = t.sent
           /\ [t EXCEPT !.refused = r, !.stretch = st].got = t.got
           /\ [t EXCEPT !.refused = r, !.stretch = st].sent = t.sent
           /\ [t EXCEPT !.got = g, !.stretch = st].got = g
           /\ [t EXCEPT !.sent = k, !.stretch = st, !.refused = r].got = t.got
           /\ [t EXCEPT !.sent = k, !.stretch = st, !.refused = r].sent = k
  BY DEF TargetType

\* What is left to show when the peripheral or the target has moved.
LEMMA MoveKeepsData ==
    ASSUME DataInv, UNCHANGED driverVars, "PE" \in cr1' <=> "PE" \in cr1,
           BusData /\ "PE" \in cr1 => BusData',
           "PE" \notin cr1 => line'.bus = line.bus /\ sr1' = sr1,
           "PE" \notin cr1 => target'.got = target.got /\ target'.sent = target.sent,
           AddressData => AddressData',
           GoesOut \/ Over => GoesOut' \/ Over',
           ReadData => ReadData'
    PROVE  DataInv'
  <1>1. UNCHANGED <<pc, call, i, mid, reg, buf, Length>> /\ Hand' = Hand
    BY DEF driverVars, Length, Hand
  <1>2. CopySound'
    BY <1>1 DEF DataInv, CopySound
  <1>3. BusData'
    <2>1. CASE "PE" \in cr1
      BY <2>1 DEF DataInv
    <2>2. CASE "PE" \notin cr1
      <3>1. line.bus = "free" /\ line'.bus = "free"
        BY <2>2 DEF DataInv, BusData
      <3>2. QED
        BY <1>1, <2>2, <3>1 DEF DataInv, BusData
    <2>3. QED
      BY <2>1, <2>2
  <1>4. WriteData'
    BY <1>1 DEF DataInv, WriteData
  <1>5. QED
    BY <1>2, <1>3, <1>4 DEF DataInv

\* START goes out with the shift register empty; BTF and TXE are cleared.
LEMMA StartKeepsData ==
    ASSUME TypeInv, DataInv, SendStart, UNCHANGED driverVars
    PROVE  DataInv'
  <1>1. /\ On /\ line.bus \in {"free", "tx"} /\ cr1' = cr1 \ {"START"}
        /\ sr1' = (sr1 \ {"TXE", "BTF"}) \cup {"SB"}
        /\ line' = [line EXCEPT !.bus = "start"]
        /\ target' = [target EXCEPT !.got = <<>>, !.sent = 0, !.refused = FALSE]
    BY DEF SendStart, CanStart
  <1>2. /\ line'.bus = "start" /\ line'.dr = line.dr /\ line'.shift = line.shift
        /\ target'.got = <<>> /\ target'.sent = 0 /\ line'.reads = line.reads
    BY <1>1, LineFields, DrFields, TargetFields DEF TypeInv, HardwareType
  <1>3. UNCHANGED <<pc, call, i, mid, reg, buf>> /\ "PE" \in cr1
    BY <1>1 DEF driverVars, On
  <1>4. BusData => BusData'
    BY <1>1, <1>2, <1>3 DEF BusData, Hand
  <1>5. AddressData => AddressData'
    BY <1>1, <1>2, <1>3 DEF AddressData
  <1>6. Over'
    BY <1>1, <1>2 DEF Over
  <1>7. ReadData => ReadData'
    BY <1>1, <1>2, <1>3 DEF ReadData
  <1>8. QED
    BY <1>1, <1>3, <1>4, <1>5, <1>6, <1>7, MoveKeepsData

\* STOP ends the transfer and leaves what has arrived in DR.
LEMMA StopKeepsData ==
    ASSUME TypeInv, DataInv, SendStop, UNCHANGED driverVars
    PROVE  DataInv'
  <1>1. /\ On /\ line.bus \in {"start", "refused", "tx", "rx"} /\ cr1' = cr1 \ {"STOP"}
        /\ sr1' = sr1 \ {"TXE", "BTF"}
        /\ line' = [line EXCEPT !.bus = "free"]
    BY DEF SendStop, CanStop
  <1>2. /\ line'.bus = "free" /\ line'.dr = line.dr /\ line'.shift = line.shift
        /\ line'.reads = line.reads
    BY <1>1, LineFields, DrFields, TargetFields DEF TypeInv, HardwareType
  <1>3. UNCHANGED <<pc, call, i, mid, reg, buf>> /\ "PE" \in cr1
    BY <1>1 DEF driverVars, On
  <1>4. BusData => BusData'
    BY <1>1, <1>2, <1>3 DEF BusData, Hand
  <1>5. AddressData => AddressData'
    BY <1>1, <1>2, <1>3 DEF AddressData
  <1>6. Over'
    BY <1>1, <1>2 DEF Over
  <1>7. ReadData => ReadData'
    BY <1>1, <1>2, <1>3 DEF ReadData
  <1>8. QED
    BY <1>1, <1>3, <1>4, <1>5, <1>6, <1>7, MoveKeepsData

\* What a byte, or an address, that is not acknowledged leaves.
LEMMA RefusedKeepsData ==
    ASSUME TypeInv, DataInv, Refused, UNCHANGED driverVars, UNCHANGED cr1, CanShift,
           \/ line.bus = "address"
           \/ line.bus = "tx" /\ line.shift # 0
    PROVE  DataInv'
  <1>1. /\ sr1' = sr1 \cup {"AF"} /\ On
        /\ line' = [line EXCEPT !.bus = "refused", !.shift = 0]
        /\ target' = [target EXCEPT !.refused = TRUE, !.stretch = "may"]
    BY DEF Refused, CanShift
  <1>2. /\ line'.bus = "refused" /\ line'.dr = line.dr /\ line'.shift = 0
        /\ line'.reads = line.reads
        /\ target'.got = target.got /\ target'.sent = target.sent
    BY <1>1, LineFields, DrFields, TargetFields DEF TypeInv, HardwareType
  <1>3. UNCHANGED <<pc, call, i, mid, reg, buf>> /\ "PE" \in cr1
    BY <1>1 DEF driverVars, On
  <1>4. BusData => BusData'
    BY <1>1, <1>2, <1>3 DEF BusData, Hand
  <1>5. AddressData => AddressData'
    BY <1>1, <1>2, <1>3 DEF AddressData
  <1>6. GoesOut \/ Over => Over'
    BY <1>1, <1>2 DEF GoesOut, Over
  <1>7. ReadData => ReadData'
    BY <1>1, <1>2, <1>3 DEF ReadData
  <1>8. QED
    BY <1>1, <1>3, <1>4, <1>5, <1>6, <1>7, MoveKeepsData

LEMMA AddressKeepsData ==
    ASSUME TypeInv, DataInv, SendAddress, UNCHANGED driverVars
    PROVE  DataInv'
  <1>1. CanShift /\ line.bus = "address" /\ UNCHANGED cr1 /\ On
    BY DEF SendAddress, CanShift
  <1>2. CASE Refused
    BY <1>1, <1>2, RefusedKeepsData
  <1>3. CASE ~Refused
    <2>1. /\ sr1' = sr1 \cup {"ADDR"}
          /\ line' = [line EXCEPT !.bus = "addressed"]
          /\ target' = [target EXCEPT !.stretch = "may"]
      BY <1>3, Zenon DEF SendAddress
    <2>2. /\ line'.bus = "addressed" /\ line'.dr = line.dr
          /\ line'.shift = line.shift /\ line'.reads = line.reads
          /\ target'.got = target.got /\ target'.sent = target.sent
      BY <2>1, LineFields, DrFields, TargetFields DEF TypeInv, HardwareType
    <2>3. UNCHANGED <<pc, call, i, mid, reg, buf>> /\ "PE" \in cr1
      BY <1>1 DEF driverVars, On
    <2>4. BusData => BusData'
      BY <1>1, <2>1, <2>2, <2>3 DEF BusData, Hand
    <2>5. AddressData => AddressData'
      BY <1>1, <2>2, <2>3 DEF AddressData
    <2>6. ~(GoesOut \/ Over) /\ (ReadData => ReadData')
      BY <1>1, <2>3 DEF GoesOut, Over, ReadData
    <2>7. QED
      BY <1>1, <2>3, <2>4, <2>5, <2>6, MoveKeepsData
  <1>4. QED
    BY <1>2, <1>3

\* The byte in the shift register is the next one; behind it comes DR.
LEMMA ByteOutKeepsData ==
    ASSUME TypeInv, DataInv, SendByte, UNCHANGED driverVars
    PROVE  DataInv'
  <1>1. CanShift /\ line.bus = "tx" /\ line.shift # 0 /\ UNCHANGED cr1 /\ On
    BY DEF SendByte, CanShift
  <1>2. CASE Refused
    BY <1>1, <1>2, RefusedKeepsData
  <1>3. CASE ~Refused
    <2>1. /\ target' = [target EXCEPT !.got = Append(target.got, line.shift),
                                      !.stretch = "may"]
          /\ line' = [line EXCEPT !.shift = line.dr, !.dr = 0]
          /\ sr1' = sr1 \cup {"TXE"} \cup (IF line.dr = 0 THEN {"BTF"} ELSE {})
      BY <1>3, Zenon DEF SendByte
    <2>2. /\ line'.bus = "tx" /\ line'.dr = 0
          /\ line'.shift = line.dr /\ line'.reads = line.reads
          /\ target'.got = Append(target.got, line.shift)
      BY <1>1, <2>1, LineFields, DrFields, TargetFields DEF TypeInv, HardwareType
    <2>3. UNCHANGED <<pc, call, i, mid, reg, buf>> /\ "PE" \in cr1
      BY <1>1 DEF driverVars, On
    <2>4. BusData => BusData'
      BY <1>1, <2>1, <2>2, <2>3 DEF BusData, Hand
    <2>5. AddressData => AddressData'
      BY <1>1, <2>2, <2>3 DEF AddressData
    <2>6. ASSUME GoesOut PROVE GoesOut'
      <3>1. DEFINE g == Len(target.got)
      <3>2. /\ g \in Nat /\ target.got = Upto(g) /\ "BTF" \notin sr1
            /\ line.shift = g + 1 /\ i \in Nat
            /\ \/ line.dr = 0 /\ g + 1 = i
               \/ line.dr = g + 2 /\ g + 2 = i
        BY <1>1, <2>6, Fields DEF GoesOut, OutInOrder, TypeInv, DriverType
      <3>3. target'.got = Upto(g + 1) /\ Len(target'.got) = g + 1
        <4>1. target'.got = Append(Upto(g), g + 1)
          BY <2>2, <3>2
        <4>2. g + 1 \in Nat
          BY <3>2
        <4>3. QED
          BY <3>2, <4>1, <4>2, UptoGrows
      <3> HIDE DEF g
      <3>4. OutInOrder'
        BY <2>2, <2>3, <3>2, <3>3 DEF OutInOrder
      <3>5. "BTF" \in sr1' => line'.shift = 0
        BY <2>1, <2>2, <3>2
      <3>6. QED
        BY <2>2, <3>4, <3>5 DEF GoesOut
    <2>7. ~Over /\ (ReadData => ReadData')
      BY <1>1, <2>3 DEF Over, ReadData
    <2>8. QED
      BY <1>1, <2>3, <2>4, <2>5, <2>6, <2>7, MoveKeepsData
  <1>4. QED
    BY <1>2, <1>3

\* The byte that comes in goes to DR, or stays behind the one there.
LEMMA ByteInKeepsData ==
    ASSUME TypeInv, DataInv, ReceiveByte, UNCHANGED driverVars
    PROVE  DataInv'
  <1> DEFINE bus == IF "ACK" \in cr1 THEN "rx" ELSE "refused"
             byte == target.sent + 1
  <1>1. /\ On /\ line.bus = "rx" /\ line.shift = 0 /\ UNCHANGED cr1
        /\ target' = [target EXCEPT !.sent = byte, !.stretch = "may",
                                    !.refused = "ACK" \notin cr1]
    BY DEF ReceiveByte, CanShift
  <1>2. /\ "RXNE" \in sr1 => /\ line' = [line EXCEPT !.bus = bus, !.shift = byte]
                             /\ sr1' = sr1 \cup {"BTF"}
        /\ "RXNE" \notin sr1 => /\ line' = [line EXCEPT !.bus = bus, !.dr = byte]
                                /\ sr1' = sr1 \cup {"RXNE"}
    BY DEF ReceiveByte
  <1>3. bus \in {"rx", "refused"} /\ byte = target.sent + 1 /\ target.sent \in Nat
    BY Fields DEF TypeInv
  <1> HIDE DEF bus, byte
  <1>4. /\ line'.bus = bus
        /\ "RXNE" \in sr1 => line'.shift = byte /\ line'.dr = line.dr
        /\ "RXNE" \notin sr1 => line'.shift = 0 /\ line'.dr = byte
    <2>1. CASE "RXNE" \in sr1
      <3>1. line' = [line EXCEPT !.bus = bus, !.shift = byte] /\ line \in LineType
        BY <1>2, <2>1 DEF TypeInv, HardwareType
      <3>2. line'.bus = bus /\ line'.shift = byte /\ line'.dr = line.dr
        BY <3>1, LineFields, DrFields
      <3>3. QED
        BY <1>1, <2>1, <3>2
    <2>2. CASE "RXNE" \notin sr1
      <3>1. line' = [line EXCEPT !.bus = bus, !.dr = byte] /\ line \in LineType
        BY <1>2, <2>2 DEF TypeInv, HardwareType
      <3>2. line'.bus = bus /\ line'.shift = line.shift /\ line'.dr = byte
        BY <3>1, LineFields, DrFields
      <3>3. QED
        BY <1>1, <2>2, <3>2
    <2>3. QED
      BY <2>1, <2>2
  <1>5. target'.got = target.got /\ target'.sent = byte
    BY <1>1, LineFields, DrFields, TargetFields DEF TypeInv, HardwareType
  <1>6. UNCHANGED <<pc, call, i, mid, reg, buf>> /\ "PE" \in cr1
    BY <1>1 DEF driverVars, On
  <1>7. BusData => BusData'
    BY <1>1, <1>2, <1>3, <1>4, <1>6 DEF BusData, Hand
  <1>8. AddressData => AddressData'
    BY <1>1, <1>6 DEF AddressData
  <1>9. ~GoesOut /\ ~Over
    BY <1>1 DEF GoesOut, Over
  <1>10. ASSUME ReadData, pc \in {"refuse", "queue", "rxne", "take"}
         PROVE  ReadData'
    <2>1. Held /\ buf = Upto(i) /\ i \in Nat
      BY <1>1, <1>10 DEF ReadData, TypeInv, DriverType
    <2>2. CASE "RXNE" \in sr1
      <3>1. target.sent = i + 1 /\ line.dr = i + 1 /\ byte = i + 2
        BY <1>1, <1>3, <1>10, <2>1, <2>2 DEF Held, ReadData
      <3>2. /\ line'.shift = i + 2 /\ line'.dr = i + 1 /\ target'.sent = i + 2
            /\ "RXNE" \in sr1'
        BY <1>2, <1>4, <1>5, <2>2, <3>1
      <3>3. Held'
        BY <1>6, <2>1, <3>2 DEF Held
      <3>4. QED
        BY <1>3, <1>4, <1>6, <2>1, <3>2, <3>3 DEF ReadData
    <2>3. CASE "RXNE" \notin sr1
      <3>1. target.sent = i /\ byte = i + 1
        BY <1>1, <1>3, <2>1, <2>3 DEF Held
      <3>2. /\ line'.shift = 0 /\ line'.dr = i + 1 /\ target'.sent = i + 1
            /\ "RXNE" \in sr1'
        BY <1>2, <1>4, <1>5, <2>3, <3>1
      <3>3. Held'
        BY <1>6, <2>1, <3>2 DEF Held
      <3>4. QED
        BY <1>3, <1>4, <1>6, <2>1, <3>2, <3>3 DEF ReadData
    <2>4. QED
      BY <2>2, <2>3
  <1>11. ReadData => ReadData'
    <2>1. CASE pc \in {"refuse", "queue", "rxne", "take"}
      BY <2>1, <1>10
    <2>2. CASE pc \notin {"refuse", "queue", "rxne", "take"}
      BY <1>6, <2>2 DEF ReadData
    <2>3. QED
      BY <2>1, <2>2
  <1>12. QED
    BY <1>1, <1>6, <1>7, <1>8, <1>9, <1>11, MoveKeepsData

\* A clock line held low moves no byte.
LEMMA StretchKeepsData ==
    ASSUME TypeInv, DataInv, Stretch \/ Unstretch, UNCHANGED driverVars
    PROVE  DataInv'
  <1>1. /\ target'.got = target.got /\ target'.sent = target.sent
        /\ UNCHANGED <<cr1, sr1, line, pins>>
    <2>1. /\ UNCHANGED <<cr1, sr1, line, pins>>
          /\ \/ target' = [target EXCEPT !.stretch = "holds"]
             \/ target' = [target EXCEPT !.stretch = "over"]
      BY DEF Stretch, Unstretch
    <2>2. CASE target' = [target EXCEPT !.stretch = "holds"]
      BY <2>1, <2>2, TargetFields DEF TypeInv, HardwareType
    <2>3. CASE target' = [target EXCEPT !.stretch = "over"]
      BY <2>1, <2>3, TargetFields DEF TypeInv, HardwareType
    <2>4. QED
      BY <2>1, <2>2, <2>3
  <1>2. UNCHANGED <<pc, call, i, mid, reg, buf>>
    BY DEF driverVars
  <1>3. BusData => BusData'
    BY <1>1, <1>2 DEF BusData, Hand
  <1>4. (AddressData => AddressData') /\ (ReadData => ReadData')
    BY <1>1, <1>2 DEF AddressData, ReadData, Held
  <1>5. (GoesOut => GoesOut') /\ (Over => Over')
    BY <1>1, <1>2 DEF GoesOut, Over, OutInOrder
  <1>6. QED
    BY <1>1, <1>3, <1>4, <1>5, MoveKeepsData

\* Where the driver is between the wait for the bus and the end of the data.
Transferring == {"start", "sb", "address", "addr", "clear", "txe", "put", "btf",
                 "refuse", "queue", "rxne", "take"}

LEMMA AwayKeepsData ==
    ASSUME pc' \notin Transferring
    PROVE  AddressData' /\ WriteData' /\ ReadData'
  BY DEF Transferring, AddressData, WriteData, ReadData

LEMMA HardwareStays ==
    ASSUME BusData, ~Hand, UNCHANGED <<cr1, sr1, line, target>>
    PROVE  BusData'
  BY DEF BusData

\* No half step is pending outside the waits and the accesses to CR1.
LEMMA NoHalfLeft ==
    ASSUME DataInv, pc \notin Waits \cup DOMAIN Sets, mid' = mid \/ ~mid'
    PROVE  CopySound'
  <1>1. ~mid'
    BY DEF DataInv, CopySound
  <1>2. QED
    BY <1>1 DEF CopySound

\* Nothing is transferred between calls.
LEMMA CallerKeepsData ==
    ASSUME DataInv,
           CallTransfer \/ CallInit \/ CallRecover \/ ProcessorReset
    PROVE  DataInv'
  <1>1. CASE CallTransfer \/ CallInit \/ CallRecover
    <2>1. /\ pc = "idle" /\ pc' \in {"param", "busy", "init", "recover"}
          /\ UNCHANGED hardwareVars /\ mid' = mid
      BY <1>1 DEF CallTransfer, CallInit, CallRecover, Begin
    <2>2. UNCHANGED <<cr1, sr1, line, target>> /\ ~Hand
      BY <2>1 DEF hardwareVars, Hand
    <2>3. CopySound'
      BY <2>1, NoHalfLeft DEF Waits, Sets
    <2>4. QED
      BY <2>1, <2>2, <2>3, HardwareStays, AwayKeepsData DEF DataInv, Transferring
  <1>2. CASE ProcessorReset
    <2>1. /\ pc' = "idle" /\ cr1' = {} /\ sr1' = {} /\ line' = NoTransfer
          /\ ~mid'
      BY <1>2 DEF ProcessorReset, SoftwareReset
    <2>2. CopySound' /\ BusData'
      BY <2>1 DEF CopySound, BusData, NoTransfer
    <2>3. QED
      BY <2>1, <2>2, AwayKeepsData DEF DataInv, Transferring
  <1>3. QED
    BY <1>1, <1>2

LEMMA LadderKeepsData ==
    ASSUME TypeInv, DataInv,
           TakePins \/ Clock \/ Recovered \/ GivePins \/ ResetPeripheral \/ Enable
    PROVE  DataInv'
  <1>1. /\ pc' \in {"clock", "manual", "idle", "swrst", "enable"}
        /\ pc \in {"recover", "clock", "manual", "init", "swrst", "enable"}
        /\ mid' = mid
    BY DEF TakePins, Clock, Recovered, GivePins, ResetPeripheral, Enable, Goto
  <1>2. CopySound'
    BY <1>1, NoHalfLeft DEF Waits, Sets
  <1> SUFFICES BusData'
    BY <1>1, <1>2, AwayKeepsData DEF DataInv, Transferring
  <1>3. BusData
    BY DEF DataInv
  <1>4. CASE TakePins
    <2>1. pc' = "clock" /\ line' = [line EXCEPT !.bus = "free"]
      BY <1>4 DEF TakePins
    <2>2. line'.bus = "free"
      BY <2>1, LineFields DEF TypeInv, HardwareType
    <2>3. QED
      BY <2>1, <2>2 DEF BusData, Hand
  <1>5. CASE Clock
    <2>1. pc' \in {"clock", "manual"} /\ UNCHANGED <<cr1, line>>
      BY <1>5 DEF Clock
    <2>2. QED
      BY <1>3, <2>1 DEF BusData, Hand
  <1>6. CASE Recovered \/ ResetPeripheral
    <2>1. cr1' = {} /\ sr1' = {} /\ line' = NoTransfer
      BY <1>6 DEF Recovered, ResetPeripheral, SoftwareReset
    <2>2. QED
      BY <2>1 DEF BusData, NoTransfer
  <1>7. CASE GivePins
    BY <1>3, <1>7, HardwareStays DEF GivePins, Hand
  <1>8. CASE Enable
    <2>1. pc = "enable" /\ cr1' = {"PE"} /\ UNCHANGED <<sr1, line, target>>
      BY <1>8 DEF Enable
    <2>2. QED
      BY <1>3, <2>1 DEF BusData, Hand
  <1>9. QED
    BY <1>4, <1>5, <1>6, <1>7, <1>8

\* A wait ends on its flag, which says where the bytes are.
LEMMA FoundKeepsData ==
    ASSUME TypeInv, DataInv, Found
    PROVE  DataInv'
  <1>1. /\ pc \in Waits /\ ~mid /\ Arrived /\ pc' = AfterWait[pc]
        /\ UNCHANGED hardwareVars /\ UNCHANGED <<call, i, mid, reg, buf>>
    BY DEF Found
  <1>2. UNCHANGED <<cr1, sr1, line, pins, target, Length>>
    BY <1>1 DEF hardwareVars, Length
  <1>3. \/ pc = "busy" /\ pc' = "start" /\ ~Busy
        \/ pc = "sb" /\ pc' = "address" /\ "SB" \in sr1
        \/ pc = "addr" /\ pc' = "clear" /\ "ADDR" \in sr1
        \/ pc = "txe" /\ pc' = "put" /\ "TXE" \in sr1
        \/ pc = "btf" /\ pc' = "sent" /\ "BTF" \in sr1
        \/ pc = "rxne" /\ pc' = "take" /\ "RXNE" \in sr1
    BY <1>1 DEF Waits, AfterWait, Arrived, Flag
  <1>4. ~Hand /\ BusData /\ AddressData /\ WriteData /\ ReadData
    BY <1>3 DEF DataInv, Hand
  <1>5. CopySound' /\ BusData'
    BY <1>1, <1>2, <1>4, HardwareStays DEF CopySound
  <1> SUFFICES AddressData' /\ WriteData' /\ ReadData'
    BY <1>5 DEF DataInv
  <1>6. CASE pc = "busy"
    <2>1. line.bus = "free"
      BY <1>3, <1>4, <1>6 DEF Busy, BusData
    <2>2. QED
      BY <1>2, <1>3, <1>6, <2>1 DEF AddressData, WriteData, ReadData
  <1>7. CASE pc = "sb"
    BY <1>2, <1>3, <1>4, <1>7 DEF AddressData, WriteData, ReadData
  <1>8. CASE pc = "addr"
    <2>1. line.bus = "addressed" /\ line.reads = call.reads
      BY <1>3, <1>4, <1>8 DEF AddressData, BusData
    <2>2. QED
      BY <1>1, <1>2, <1>3, <1>8, <2>1 DEF AddressData, WriteData, ReadData
  <1>9. CASE pc = "txe"
    <2>1. pc' = "put" /\ "TXE" \in sr1
      BY <1>3, <1>9
    <2>2. AddressData' /\ ReadData'
      BY <2>1 DEF AddressData, ReadData
    <2>3. CASE GoesOut
      <3>1. OutInOrder'
        BY <1>1, <1>2, <2>3 DEF GoesOut, OutInOrder
      <3>2. GoesOut'
        BY <1>2, <2>1, <2>3, <3>1 DEF GoesOut
      <3>3. QED
        BY <2>1, <2>2, <3>2 DEF WriteData
    <2>4. CASE Over
      BY <1>2, <2>1, <2>2, <2>4 DEF Over, WriteData
    <2>5. QED
      BY <1>4, <1>9, <2>3, <2>4 DEF WriteData
  <1>10. CASE pc = "btf"
    BY <1>3, <1>10, AwayKeepsData DEF Transferring
  <1>11. CASE pc = "rxne"
    <2>1. pc' = "take" /\ "RXNE" \in sr1
      BY <1>3, <1>11
    <2>2. QED
      BY <1>1, <1>2, <1>4, <1>11, <2>1 DEF AddressData, WriteData, ReadData, Held
  <1>12. QED
    BY <1>3, <1>6, <1>7, <1>8, <1>9, <1>10, <1>11

\* While a wait goes on nothing of it changes but AF, and a late ADDR is cleared
\* only before the transfer.
LEMMA WaitingKeepsData ==
    ASSUME TypeInv, DataInv, NotYet \/ TimeOut \/ CheckAf
    PROVE  DataInv'
  <1>1. CASE pc = "busy" /\ pc' = pc /\ ~mid' /\ ClearAddr
    <2>1. UNCHANGED <<cr1, target>> /\ "ADDR" \notin sr1' /\ ~Hand
      BY <1>1 DEF ClearAddr, Hand
    <2>2. \/ line' = line
          \/ line.bus = "addressed" /\ line' = [line EXCEPT !.bus = "rx"]
          \/ line.bus = "addressed" /\ line' = [line EXCEPT !.bus = "tx"]
      BY <1>1 DEF ClearAddr
    <2>3. line' = line \/ line'.bus \in {"rx", "tx"}
      <3>1. CASE line' = [line EXCEPT !.bus = "rx"]
        BY <3>1, LineFields DEF TypeInv, HardwareType
      <3>2. CASE line' = [line EXCEPT !.bus = "tx"]
        BY <3>2, LineFields DEF TypeInv, HardwareType
      <3>3. QED
        BY <2>2, <3>1, <3>2
    <2>4. line' = line => sr1' \subseteq sr1 \cup {"TXE"}
      BY <1>1 DEF ClearAddr
    <2>5. "PE" \notin cr1 => line' = line
      BY <2>2 DEF DataInv, BusData
    <2>6. BusData'
      BY <1>1, <2>1, <2>3, <2>4, <2>5 DEF DataInv, BusData, Hand
    <2>7. CopySound'
      BY <1>1 DEF CopySound, Sets
    <2>8. pc' \notin Transferring
      BY <1>1 DEF Transferring
    <2>9. QED
      BY <2>6, <2>7, <2>8, AwayKeepsData DEF DataInv
  <1> SUFFICES ASSUME ~(pc = "busy" /\ pc' = pc /\ ~mid' /\ ClearAddr) PROVE DataInv'
    BY <1>1
  <1>2. /\ pc \in Waits /\ UNCHANGED <<cr1, line, target>>
        /\ UNCHANGED <<call, i, buf, Length>>
        /\ sr1' = sr1 \/ sr1' = sr1 \ {"AF"}
        /\ \/ pc' = pc
           \/ pc' \in {"idle", "nack"} /\ ~mid'
    BY DEF NotYet, TimeOut, CheckAf, Return, hardwareVars, Length
  <1>3. /\ "ADDR" \in sr1' <=> "ADDR" \in sr1
        /\ "RXNE" \in sr1' <=> "RXNE" \in sr1
        /\ "TXE" \in sr1' <=> "TXE" \in sr1
        /\ "BTF" \in sr1' <=> "BTF" \in sr1
    BY <1>2
  <1>4. BusData'
    BY <1>2, <1>3 DEF DataInv, BusData, Hand, Waits
  <1>5. CopySound'
    BY <1>2 DEF CopySound, Sets, Waits
  <1>6. CASE pc' = pc
    <2>1. AddressData' /\ ReadData'
      BY <1>2, <1>3, <1>6 DEF DataInv, AddressData, ReadData, Held
    <2>2. OutInOrder => OutInOrder'
      BY <1>2 DEF OutInOrder
    <2>3. WriteData'
      BY <1>2, <1>3, <1>6, <2>2 DEF DataInv, WriteData, GoesOut, Over
    <2>4. QED
      BY <1>4, <1>5, <2>1, <2>3 DEF DataInv
  <1>7. CASE pc' # pc
    <2>1. pc' \notin Transferring
      BY <1>2, <1>7 DEF Transferring
    <2>2. QED
      BY <1>4, <1>5, <2>1, AwayKeepsData DEF DataInv
  <1>8. QED
    BY <1>6, <1>7

LEMMA ReadCr1KeepsData ==
    ASSUME DataInv, ReadCr1
    PROVE  DataInv'
  <1>1. /\ pc \in DOMAIN Sets /\ reg' = cr1 /\ UNCHANGED hardwareVars
        /\ UNCHANGED <<pc, call, i, buf>>
    BY DEF ReadCr1
  <1>2. UNCHANGED <<cr1, sr1, line, target, Length>> /\ ~Hand
    BY <1>1 DEF hardwareVars, Length, Hand, Sets
  <1>3. CopySound' /\ BusData'
    BY <1>1, <1>2, HardwareStays DEF DataInv, CopySound
  <1>4. AddressData' /\ WriteData' /\ ReadData'
    <2>1. pc \notin {"txe", "put", "btf"}
      BY <1>1 DEF Sets
    <2>2. QED
      BY <1>1, <1>2, <2>1 DEF DataInv, AddressData, WriteData, ReadData, Held
  <1>5. QED
    BY <1>3, <1>4 DEF DataInv

\* CR1 |= and CR1 &= write PE back as it was read.
LEMMA WriteCr1KeepsData ==
    ASSUME DataInv, WriteCr1
    PROVE  DataInv'
  <1>1. /\ pc \in DOMAIN Sets /\ mid /\ ~mid' /\ UNCHANGED <<sr1, line, target>>
        /\ cr1' = (reg \cup Sets[pc]) \ Clears[pc]
        /\ \/ /\ \/ pc = "start" /\ pc' = "sb"
                 \/ pc = "refuse" /\ pc' = "queue"
                 \/ pc = "queue" /\ pc' = "rxne"
              /\ UNCHANGED <<call, i, buf>>
           \/ pc' = "idle"
    BY DEF WriteCr1, Return
  <1>2. ~Hand
    BY <1>1 DEF Hand, Sets
  <1>3. "PE" \in cr1 => "PE" \in cr1'
    BY <1>1 DEF DataInv, CopySound, Sets, Clears
  <1>4. BusData' /\ CopySound'
    BY <1>1, <1>2, <1>3 DEF DataInv, BusData, CopySound
  <1>5. AddressData' /\ WriteData' /\ ReadData'
    <2>1. CASE pc' = "idle"
      BY <2>1, AwayKeepsData DEF Transferring
    <2>2. CASE pc = "start" /\ pc' = "sb"
      BY <1>1, <2>2 DEF DataInv, AddressData, WriteData, ReadData
    <2>3. CASE pc \in {"refuse", "queue"} /\ pc' \in {"queue", "rxne"}
      BY <1>1, <2>3 DEF DataInv, AddressData, WriteData, ReadData, Held
    <2>4. QED
      BY <1>1, <2>1, <2>2, <2>3
  <1>6. QED
    BY <1>4, <1>5 DEF DataInv

\* The address goes out after this call's START, and with nothing in DR.
LEMMA AddressStepKeepsData ==
    ASSUME TypeInv, DataInv, Address
    PROVE  DataInv'
  <1>1. /\ pc = "address" /\ pc' = "addr" /\ UNCHANGED <<cr1, target, call>>
        /\ sr1' = sr1 \ {"SB", "RXNE", "BTF"}
        /\ line' = IF line.bus = "start"
                   THEN [bus |-> "address", dr |-> 0, shift |-> 0, reads |-> call.reads]
                   ELSE line
    BY DEF Address, WriteAddress, Goto
  <1>2. line.bus \in {"free", "start"} /\ ~Hand /\ BusData
    BY <1>1 DEF DataInv, AddressData, Hand
  <1>3. CopySound' /\ WriteData' /\ ReadData'
    <2>1. pc \notin Waits \cup DOMAIN Sets /\ mid' = mid
      BY <1>1 DEF Waits, Sets, Address, Goto
    <2>2. CopySound'
      BY <2>1, NoHalfLeft
    <2>3. QED
      BY <1>1, <2>2 DEF WriteData, ReadData
  <1>4. CASE line.bus = "start"
    <2>1. /\ line'.bus = "address" /\ line'.dr = 0 /\ line'.shift = 0
          /\ line'.reads = call.reads
      BY <1>1, <1>4
    <2>2. BusData'
      BY <1>1, <1>2, <1>4, <2>1 DEF BusData
    <2>3. AddressData'
      BY <1>1, <2>1 DEF AddressData
    <2>4. QED
      BY <1>3, <2>2, <2>3 DEF DataInv
  <1>5. CASE line.bus = "free"
    <2>1. line' = line
      BY <1>1, <1>5
    <2>2. BusData' /\ AddressData'
      BY <1>1, <1>2, <1>5, <2>1 DEF BusData, AddressData
    <2>3. QED
      BY <1>3, <2>2 DEF DataInv
  <1>6. QED
    BY <1>2, <1>4, <1>5

\* The data phase begins with no byte moved.
LEMMA ClearKeepsData ==
    ASSUME TypeInv, DataInv, Clear
    PROVE  DataInv'
  <1>1. /\ pc = "clear" /\ ClearAddr /\ i' = 0 /\ buf' = buf /\ Length' = Length
        /\ pc' = IF call.reads THEN NextIn(0) ELSE NextOut(0)
        /\ UNCHANGED <<cr1, target>>
    BY DEF Clear, ClearAddr, Length
  <1>2. /\ line.bus = "addressed" /\ line.reads = call.reads /\ ~Hand /\ BusData
        /\ line.shift = 0 /\ line.dr = 0 /\ "RXNE" \notin sr1
        /\ target.got = <<>> /\ target.sent = 0 /\ "PE" \in cr1
    BY <1>1 DEF DataInv, AddressData, BusData, Hand
  <1>3. buf = <<>> /\ (call.reads => Length > 0) /\ Length \in Nat
    BY <1>1, LengthType DEF TypeInv, LoopBounds
  <1>4. \/ pc' \in {"refuse", "rxne"} /\ call.reads
        \/ pc' = "txe" /\ ~call.reads
        \/ pc' = "btf" /\ ~call.reads /\ Length = 0
    BY <1>1, <1>3 DEF NextIn, NextOut
  <1>5. /\ line'.bus = IF call.reads THEN "rx" ELSE "tx"
        /\ line'.shift = 0 /\ line'.dr = 0
        /\ "RXNE" \notin sr1' /\ "ADDR" \notin sr1'
    <2>1. /\ line' = [line EXCEPT !.bus = IF line.reads THEN "rx" ELSE "tx"]
          /\ sr1' = (sr1 \ {"ADDR"}) \cup (IF ~line.reads THEN {"TXE"} ELSE {})
      BY <1>1, <1>2 DEF ClearAddr
    <2>2. QED
      BY <1>2, <2>1, LineFields, DrFields DEF TypeInv, HardwareType
  <1>6. CopySound' /\ BusData' /\ AddressData'
    <2>1. ~mid /\ mid' = mid
      BY <1>1 DEF Clear, DataInv, CopySound, Waits, Sets
    <2>2. CopySound' /\ AddressData'
      BY <1>4, <2>1 DEF CopySound, AddressData
    <2>3. BusData'
      BY <1>1, <1>2, <1>4, <1>5 DEF BusData
    <2>4. QED
      BY <2>2, <2>3
  <1>7. ASSUME call.reads PROVE WriteData' /\ ReadData'
    <2>1. pc' \in {"refuse", "rxne"}
      BY <1>4, <1>7
    <2>2. buf' = Upto(0)
      BY <1>1, <1>3, UptoGrows
    <2>3. QED
      BY <1>1, <1>2, <1>5, <1>7, <2>1, <2>2 DEF WriteData, ReadData, Held
  <1>8. ASSUME ~call.reads PROVE WriteData' /\ ReadData'
    <2>1. /\ pc' \in {"txe", "btf"} /\ line'.bus = "tx"
          /\ pc' = "btf" => Length = 0
      BY <1>4, <1>5, <1>8
    <2>2. OutInOrder'
      <3>1. target'.got = <<>> /\ Len(target'.got) = 0 /\ Upto(0) = <<>>
        BY <1>1, <1>2, UptoGrows
      <3>2. QED
        BY <1>1, <1>5, <3>1 DEF OutInOrder
    <2>3. GoesOut'
      BY <1>5, <2>1, <2>2 DEF GoesOut
    <2>4. QED
      BY <1>1, <2>1, <2>3 DEF WriteData, ReadData
  <1>9. QED
    BY <1>6, <1>7, <1>8 DEF DataInv

\* The next byte goes behind the last one, into an empty register.
LEMMA PutKeepsData ==
    ASSUME TypeInv, DataInv, Put
    PROVE  DataInv'
  <1>1. /\ pc = "put" /\ WriteByte(i + 1) /\ i' = i + 1 /\ pc' = NextOut(i + 1)
        /\ Length' = Length /\ UNCHANGED <<cr1, target>>
    BY DEF Put, WriteByte, Length
  <1>2. /\ i \in Nat /\ Length \in Nat /\ i < Length
    BY <1>1, LengthType DEF TypeInv, DriverType, LoopBounds
  <1>3. pc' \in {"txe", "btf"} /\ (pc' = "btf" => i' = Length')
    BY <1>1, <1>2 DEF NextOut
  <1>4. /\ sr1' = sr1 \ ({"RXNE", "BTF"} \cup (IF line.shift = 0 THEN {} ELSE {"TXE"}))
        /\ line.bus = "tx" => line' = IF line.shift = 0 THEN [line EXCEPT !.shift = i + 1]
                                      ELSE [line EXCEPT !.dr = i + 1]
        /\ line.bus # "tx" => line' = line
    BY <1>1 DEF WriteByte
  <1>5. BusData /\ ~Hand /\ (GoesOut \/ Over)
    BY <1>1 DEF DataInv, WriteData, Hand
  <1>6. CopySound' /\ AddressData' /\ ReadData'
    <2>1. pc \notin Waits \cup DOMAIN Sets /\ mid' = mid
      BY <1>1 DEF Waits, Sets, Put
    <2>2. CopySound'
      BY <2>1, NoHalfLeft
    <2>3. QED
      BY <1>3, <2>2 DEF AddressData, ReadData
  <1>7. CASE GoesOut
    <2> DEFINE g == Len(target.got)
    <2>1. /\ line.bus = "tx" /\ line.dr = 0 /\ g \in Nat /\ target.got = Upto(g)
          /\ \/ line.shift = 0 /\ g = i
             \/ line.shift = g + 1 /\ g + 1 = i
      <3>1. line.bus = "tx" /\ line.dr = 0 /\ OutInOrder /\ g \in Nat
        BY <1>1, <1>7, Fields DEF GoesOut, TypeInv
      <3>2. QED
        BY <3>1 DEF OutInOrder
    <2> HIDE DEF g
    <2>2. CASE line.shift = 0
      <3>1. line' = [line EXCEPT !.shift = i + 1] /\ line \in LineType
        BY <1>4, <2>1, <2>2 DEF TypeInv, HardwareType
      <3>2. line'.bus = "tx" /\ line'.shift = i + 1 /\ line'.dr = 0
        BY <2>1, <3>1, LineFields, DrFields
      <3>3. g = i /\ "BTF" \notin sr1'
        BY <1>4, <2>1, <2>2
      <3>4. OutInOrder'
        BY <1>1, <1>2, <2>1, <3>2, <3>3 DEF OutInOrder, g
      <3>5. GoesOut' /\ BusData'
        BY <1>1, <1>3, <1>4, <1>5, <2>1, <3>2, <3>3, <3>4 DEF GoesOut, BusData
      <3>6. QED
        BY <1>3, <1>6, <3>5 DEF WriteData, DataInv
    <2>3. CASE line.shift # 0
      <3>1. line' = [line EXCEPT !.dr = i + 1] /\ line \in LineType
        BY <1>4, <2>1, <2>3 DEF TypeInv, HardwareType
      <3>2. line'.bus = "tx" /\ line'.shift = line.shift /\ line'.dr = i + 1
        BY <2>1, <3>1, LineFields, DrFields
      <3>3. g + 1 = i /\ line.shift = g + 1 /\ "BTF" \notin sr1' /\ "TXE" \notin sr1'
        BY <1>4, <2>1, <2>3
      <3>4. OutInOrder'
        BY <1>1, <1>2, <2>1, <3>2, <3>3 DEF OutInOrder, g
      <3>5. GoesOut' /\ BusData'
        BY <1>1, <1>3, <1>4, <1>5, <2>1, <3>2, <3>3, <3>4 DEF GoesOut, BusData
      <3>6. QED
        BY <1>3, <1>6, <3>5 DEF WriteData, DataInv
    <2>4. QED
      BY <2>2, <2>3
  <1>8. CASE Over
    <2>1. line' = line
      BY <1>4, <1>8 DEF Over
    <2>2. Over' /\ BusData'
      BY <1>1, <1>4, <1>5, <1>8, <2>1 DEF Over, BusData
    <2>3. QED
      BY <1>3, <1>6, <2>2 DEF WriteData, DataInv
  <1>9. QED
    BY <1>5, <1>7, <1>8

\* The byte read is the next one, and the one behind it moves up.
LEMMA TakeStoresNext ==
    ASSUME TypeInv, DataInv, Take
    PROVE  buf' = Upto(i + 1) /\ i' = i + 1 /\ i \in Nat
  <1>1. /\ pc = "take" /\ buf' = Append(buf, line.dr) /\ i' = i + 1 /\ i \in Nat
    BY DEF Take, TypeInv, DriverType
  <1>2. buf = Upto(i) /\ line.dr = i + 1
    BY <1>1 DEF DataInv, ReadData
  <1>3. QED
    BY <1>1, <1>2, UptoGrows

LEMMA TakeKeepsData ==
    ASSUME TypeInv, DataInv, Take
    PROVE  DataInv'
  <1>1. /\ pc = "take" /\ ReadByte /\ i' = i + 1 /\ pc' = NextIn(i + 1)
        /\ UNCHANGED <<cr1, target>>
    BY DEF Take, ReadByte
  <1>2. /\ line' = [line EXCEPT !.dr = line.shift, !.shift = 0]
        /\ sr1' = sr1 \ ({"BTF"} \cup (IF line.shift = 0 THEN {"RXNE"} ELSE {}))
    BY <1>1 DEF ReadByte
  <1>3. line'.bus = line.bus /\ line'.dr = line.shift /\ line'.shift = 0
    BY <1>2, LineFields, DrFields DEF TypeInv, HardwareType
  <1>4. BusData /\ ~Hand /\ ReadData
    BY <1>1 DEF DataInv, Hand
  <1>5. /\ line.bus \in {"free", "start", "refused", "rx"} /\ "RXNE" \in sr1
        /\ line.shift \in {0, i + 2} /\ (line.bus = "rx" => Held)
    BY <1>1, <1>4 DEF ReadData
  <1>6. buf' = Upto(i + 1) /\ i' = i + 1 /\ i \in Nat
    BY TakeStoresNext
  <1>7. pc' \in {"restore", "refuse", "rxne"}
    BY <1>1 DEF NextIn
  <1>8. BusData'
    BY <1>1, <1>2, <1>3, <1>4, <1>5 DEF BusData
  <1>9. CopySound'
    <2>1. mid' = mid /\ ~mid
      BY DEF Take, DataInv, CopySound, Waits, Sets
    <2>2. QED
      BY <2>1 DEF CopySound
  <1>10. AddressData' /\ WriteData'
    BY <1>7 DEF AddressData, WriteData
  <1>11. line'.bus = "rx" => Held'
    <2>1. CASE line.shift = 0
      BY <1>1, <1>2, <1>3, <1>5, <1>6, <2>1 DEF Held
    <2>2. CASE line.shift # 0
      BY <1>1, <1>2, <1>3, <1>5, <1>6, <2>2 DEF Held
    <2>3. QED
      BY <2>1, <2>2
  <1>12. "RXNE" \in sr1' => line'.dr = i' + 1
    BY <1>2, <1>3, <1>5, <1>6
  <1>13. ReadData'
    BY <1>3, <1>5, <1>6, <1>7, <1>11, <1>12 DEF ReadData
  <1>14. QED
    BY <1>8, <1>9, <1>10, <1>13 DEF DataInv

LEMMA SentKeepsData ==
    ASSUME TypeInv, DataInv, Sent \/ NoBytes
    PROVE  DataInv'
  <1>1. /\ pc \in {"sent", "param"} /\ UNCHANGED hardwareVars
        /\ \/ pc' \in {"idle", "busy"}
           \/ pc' = "stop"
        /\ mid' = mid \/ ~mid'
    BY DEF Sent, NoBytes, Goto, Return
  <1>2. UNCHANGED <<cr1, sr1, line, target>> /\ ~Hand
    BY <1>1 DEF hardwareVars, Hand
  <1>3. QED
    <2>1. CopySound'
      BY <1>1, NoHalfLeft DEF Waits, Sets
    <2>2. QED
      BY <1>1, <1>2, <2>1, HardwareStays, AwayKeepsData DEF DataInv, Transferring

LEMMA DataInvInit ==
    ASSUME Init
    PROVE  DataInv
  BY DEF Init, HardwareInit, DriverInit, NoTransfer, DataInv, CopySound, BusData,
         AddressData, WriteData, ReadData, Waits, Sets

LEMMA DataInvNext ==
    ASSUME TypeInv, DataInv, [Next]_vars
    PROVE  DataInv'
  <1>1. CASE Driver
    <2>1. \/ Transfer \/ TakePins \/ Clock \/ Recovered
          \/ GivePins \/ ResetPeripheral \/ Enable
      BY <1>1 DEF Driver
    <2>2. QED
      BY <2>1, LadderKeepsData, FoundKeepsData, WaitingKeepsData, ReadCr1KeepsData,
         WriteCr1KeepsData, AddressStepKeepsData, ClearKeepsData, PutKeepsData,
         TakeKeepsData, SentKeepsData DEF Transfer
  <1>2. CASE Peripheral
    BY <1>2, StartKeepsData, StopKeepsData, AddressKeepsData, ByteOutKeepsData,
       ByteInKeepsData DEF Peripheral, Hardware
  <1>3. CASE Environment
    BY <1>3, CallerKeepsData, StretchKeepsData DEF Environment
  <1>4. CASE UNCHANGED vars
    <2>1. UNCHANGED <<cr1, sr1, line, target, pc, call, i, mid, reg, buf, Length>>
      BY <1>4 DEF vars, hardwareVars, driverVars, Length
    <2>2. CopySound' /\ BusData' /\ AddressData'
      BY <2>1 DEF DataInv, CopySound, BusData, Hand, AddressData
    <2>3. OutInOrder => OutInOrder'
      BY <2>1 DEF OutInOrder
    <2>4. WriteData' /\ ReadData'
      BY <2>1, <2>3 DEF DataInv, WriteData, GoesOut, Over, ReadData, Held
    <2>5. QED
      BY <2>2, <2>4 DEF DataInv
  <1>5. QED
    BY <1>1, <1>2, <1>3, <1>4 DEF Next

LEMMA DataInvariant == Spec => []DataInv
  BY DataInvInit, DataInvNext, TypeInvHolds, PTL DEF Spec

\* What OkMeansTransferred says of one step.
LastWaitEnds ==
    /\ pc = "btf" /\ pc' = "sent" => target.got = [k \in 1 .. call.len |-> k]
    /\ pc = "take" /\ pc' = "restore" => buf' = [k \in 1 .. Length |-> k]

LEMMA LastWaitEndsInOrder ==
    ASSUME TypeInv, DataInv, [Next]_vars
    PROVE  LastWaitEnds
  <1>1. ASSUME pc = "btf", pc' = "sent"
        PROVE  target.got = [k \in 1 .. call.len |-> k]
    <2>1. Found
      BY <1>1 DEF Next, Driver, Transfer, NotYet, TimeOut, CheckAf, Return, ReadCr1,
                  WriteCr1, Address, Clear, Put, Take, Sent, NoBytes, TakePins, Clock,
                  Recovered, GivePins, ResetPeripheral, Enable, Peripheral, Environment,
                  CallTransfer, CallInit, CallRecover, Begin, ProcessorReset, Stretch,
                  Unstretch, driverVars, vars, Waits, Sets
    <2>2. "BTF" \in sr1
      BY <1>1, <2>1 DEF Found, Arrived, Flag
    <2>3. GoesOut /\ i = Length
      BY <1>1, <2>2 DEF DataInv, WriteData, Over
    <2>4. target.got = Upto(i)
      <3>1. OutInOrder /\ line.shift = 0 /\ Len(target.got) \in Nat /\ i \in Nat
        BY <2>2, <2>3, Fields DEF GoesOut, TypeInv, DriverType
      <3>2. QED
        BY <3>1 DEF OutInOrder
    <2>5. Length = call.len
      BY <1>1 DEF TypeInv, LoopBounds, Length
    <2>6. QED
      BY <2>3, <2>4, <2>5 DEF Upto
  <1>2. ASSUME pc = "take", pc' = "restore"
        PROVE  buf' = [k \in 1 .. Length |-> k]
    <2>1. Take
      BY <1>2 DEF Next, Driver, Transfer, Found, NotYet, TimeOut, CheckAf, Return,
                  ReadCr1, WriteCr1, Address, Clear, Put, Sent, NoBytes, TakePins, Clock,
                  Recovered, GivePins, ResetPeripheral, Enable, Peripheral, Environment,
                  CallTransfer, CallInit, CallRecover, Begin, ProcessorReset, Stretch,
                  Unstretch, driverVars, vars, Waits, Sets
    <2>2. pc' = NextIn(i + 1)
      BY <2>1 DEF Take
    <2>3. i + 1 = Length
      BY <1>2, <2>2 DEF NextIn
    <2>4. QED
      BY <2>1, <2>3, TakeStoresNext DEF Upto
  <1>3. QED
    BY <1>1, <1>2 DEF LastWaitEnds

\* When i2c_write's last wait ends the target has acknowledged every byte of
\* the call in order, and when i2c_read's loop ends it has stored the first
\* bytes after its START, however slowly the driver runs.
THEOREM OkAlwaysMeansTransferred == Spec => OkMeansTransferred
  <1>1. TypeInv /\ DataInv /\ [Next]_vars => LastWaitEnds
    BY LastWaitEndsInOrder
  <1>2. QED
    BY <1>1, TypeInvHolds, DataInvariant, PTL DEF Spec, OkMeansTransferred, LastWaitEnds
=============================================================================
