---------------------------- MODULE I2cPeripheral ----------------------------
(* The I2C1 peripheral of the STM32F4 and one target on its bus, as the      *)
(* driver code/stm32f4/i2c_master.c uses them.  Neither is in the            *)
(* repository: the registers behave as the driver's comments and its polling *)
(* sequences expect, at the granularity of one byte and its acknowledge bit. *)
(* A byte is its position in the transfer, 1, 2, ...; 0 is an empty          *)
(* register.                                                                 *)
EXTENDS Naturals, Sequences

CONSTANT MaxHold  \* clocks after which a target left amid a byte lets SDA go

VARIABLES
    cr1,     \* the bits of CR1 that are set: PE, START, STOP, ACK
    sr1,     \* the flags of SR1 that are set
    line,    \* what the peripheral is doing on the bus, and its registers
    pins,    \* PB6 and PB7: "i2c" (alternate function) or "gpio"
    target   \* the target: bytes it got and sent, and what it does to the lines

ASSUME PeripheralAssumption == MaxHold \in Nat

Cr1Bits == {"PE", "START", "STOP", "ACK"}
Sr1Flags == {"SB", "ADDR", "TXE", "BTF", "RXNE", "AF"}

\* bus: "free", "start" (START sent), "address" (address under way),
\* "addressed" (acknowledged, ADDR not yet cleared), "tx", "rx", or "refused"
\* (a byte was not acknowledged).  reads is the R/W bit of the address.
Buses == {"free", "start", "address", "addressed", "tx", "rx", "refused"}
NoTransfer == [bus |-> "free", dr |-> 0, shift |-> 0, reads |-> FALSE]

hardwareVars == <<cr1, sr1, line, pins, target>>

HardwareInit ==
    /\ cr1 = {} /\ sr1 = {} /\ line = NoTransfer /\ pins = "gpio"
    /\ target \in [got : {<<>>}, sent : {0}, refused : {FALSE},
                   stretch : {"may"}, hold : 0 .. MaxHold]

On == pins = "i2c" /\ "PE" \in cr1

\* SR2.BUSY: set by a low line or by the peripheral's own START.
Busy == "PE" \in cr1 /\ (line.bus # "free" \/ target.hold > 0)

-----------------------------------------------------------------------------
(* What the peripheral does by itself. *)

CanStart ==
    On /\ "START" \in cr1 /\ line.bus \in {"free", "tx"} /\ line.shift = 0
       /\ target.hold = 0

\* STOP goes out after the byte under way.
CanStop ==
    /\ On /\ "STOP" \in cr1
    /\ line.bus \in {"start", "refused"} \cup
                    (IF line.shift = 0 THEN {"tx"} ELSE {"rx"})

CanShift ==
    /\ On /\ target.stretch # "holds"
    /\ line.bus \in {"address"} \cup
                    (IF line.shift = 0 THEN {"rx"} ELSE {"tx"})

\* The hardware has something to do; otherwise only the target, or nobody, can
\* set the flag that a wait is for.
Working == CanStart \/ CanStop \/ CanShift

SendStart ==
    /\ CanStart
    /\ cr1' = cr1 \ {"START"}
    /\ sr1' = (sr1 \ {"TXE", "BTF"}) \cup {"SB"}
    /\ line' = [line EXCEPT !.bus = "start"]
    /\ target' = [target EXCEPT !.got = <<>>, !.sent = 0, !.refused = FALSE]

\* A target that was told to go on may hold SDA low with the next byte.
SendStop ==
    /\ CanStop
    /\ cr1' = cr1 \ {"STOP"}
    /\ sr1' = sr1 \ {"TXE", "BTF"}
    /\ line' = [line EXCEPT !.bus = "free"]
    /\ \E h \in IF line.bus = "rx" THEN 0 .. MaxHold ELSE {0} :
          target' = [target EXCEPT !.hold = h, !.stretch = "may"]

Refused ==
    /\ sr1' = sr1 \cup {"AF"}
    /\ line' = [line EXCEPT !.bus = "refused", !.shift = 0]
    /\ target' = [target EXCEPT !.refused = TRUE, !.stretch = "may"]

SendAddress ==
    /\ CanShift /\ line.bus = "address"
    /\ \/ /\ sr1' = sr1 \cup {"ADDR"}
          /\ line' = [line EXCEPT !.bus = "addressed"]
          /\ target' = [target EXCEPT !.stretch = "may"]
       \/ Refused
    /\ UNCHANGED cr1

\* TXE while DR is empty; BTF when the shift register is empty as well.
SendByte ==
    /\ CanShift /\ line.bus = "tx"
    /\ \/ /\ target' = [target EXCEPT !.got = Append(@, line.shift),
                                      !.stretch = "may"]
          /\ line' = [line EXCEPT !.shift = line.dr, !.dr = 0]
          /\ sr1' = sr1 \cup {"TXE"} \cup
                    (IF line.dr = 0 THEN {"BTF"} ELSE {})
       \/ Refused
    /\ UNCHANGED cr1

\* The peripheral answers with the ACK bit as it stands when the byte is in.
\* With DR unread the byte stays in the shift register and the clock stops.
ReceiveByte ==
    /\ CanShift /\ line.bus = "rx"
    /\ LET bus == IF "ACK" \in cr1 THEN "rx" ELSE "refused"
           byte == target.sent + 1
       IN  /\ target' = [target EXCEPT !.sent = byte, !.stretch = "may",
                                       !.refused = "ACK" \notin cr1]
           /\ line' = IF "RXNE" \in sr1
                      THEN [line EXCEPT !.bus = bus, !.shift = byte]
                      ELSE [line EXCEPT !.bus = bus, !.dr = byte]
           /\ sr1' = sr1 \cup (IF "RXNE" \in sr1 THEN {"BTF"} ELSE {"RXNE"})
    /\ UNCHANGED cr1

Hardware ==
    /\ SendStart \/ SendStop \/ SendAddress \/ SendByte \/ ReceiveByte
    /\ UNCHANGED pins

\* The target holds SCL low, at most once in a byte, for as long as it likes.
Stretch ==
    /\ line.bus # "free" /\ target.stretch = "may"
    /\ target' = [target EXCEPT !.stretch = "holds"]
    /\ UNCHANGED <<cr1, sr1, line, pins>>

Unstretch ==
    /\ target.stretch = "holds"
    /\ target' = [target EXCEPT !.stretch = "over"]
    /\ UNCHANGED <<cr1, sr1, line, pins>>

-----------------------------------------------------------------------------
(* What an access of the driver does. *)

\* A write to DR: the address after START, a data byte in a transmission.
WriteAddress(reads) ==
    /\ sr1' = sr1 \ {"SB", "RXNE", "BTF"}
    /\ line' = IF line.bus = "start"
               THEN [bus |-> "address", dr |-> 0, shift |-> 0, reads |-> reads]
               ELSE line
    /\ UNCHANGED <<cr1, pins, target>>

WriteByte(byte) ==
    /\ sr1' = sr1 \ ({"RXNE", "BTF"} \cup
                     (IF line.shift = 0 THEN {} ELSE {"TXE"}))
    /\ line' = IF line.bus # "tx" THEN line
               ELSE IF line.shift = 0 THEN [line EXCEPT !.shift = byte]
               ELSE [line EXCEPT !.dr = byte]
    /\ UNCHANGED <<cr1, pins, target>>

\* A read of DR: the byte behind it moves up.
ReadByte ==
    /\ sr1' = sr1 \ ({"BTF"} \cup (IF line.shift = 0 THEN {"RXNE"} ELSE {}))
    /\ line' = [line EXCEPT !.dr = line.shift, !.shift = 0]
    /\ UNCHANGED <<cr1, pins, target>>

\* The read of SR1 and then SR2 that clears ADDR starts the data phase.
ClearAddr ==
    /\ line' = IF line.bus # "addressed" THEN line
               ELSE [line EXCEPT !.bus = IF line.reads THEN "rx" ELSE "tx"]
    /\ sr1' = (sr1 \ {"ADDR"}) \cup
              (IF line.bus = "addressed" /\ ~line.reads THEN {"TXE"} ELSE {})
    /\ UNCHANGED <<cr1, pins, target>>

\* The driver leaves the lines: the target may be in the middle of a byte.
LeaveLines ==
    \E h \in IF line.bus \in {"free", "start", "refused"}
             THEN {target.hold} ELSE 0 .. MaxHold :
       target' = [target EXCEPT !.hold = h, !.stretch = "may"]

SoftwareReset == cr1' = {} /\ sr1' = {} /\ line' = NoTransfer /\ LeaveLines

=============================================================================
