------------------------------ MODULE I2cMaster ------------------------------
(* code/stm32f4/i2c_master.c: i2c_init, i2c_write, i2c_read, i2c_write_read  *)
(* and i2c_bus_recover, called in any order, one step per access to the      *)
(* peripheral, while the peripheral and the target move on between two       *)
(* accesses.  CR1 |= ... is a read and a write.  The processor may reset at  *)
(* any time; the target then stays as it is.                                 *)
(* Loops is the budget of a wait.  It is calibrated as the comment at        *)
(* I2C_TIMEOUT_LOOPS asks: only polls count on which the peripheral itself   *)
(* has nothing to do.  A prompt driver gets from one wait to the next before *)
(* the peripheral has moved another byte; the other one is interrupted.  A   *)
(* START or a STOP takes about a bit, and may come between any two accesses, *)
(* the halves of a CR1 |= ... included, of a prompt driver too.              *)
EXTENDS I2cPeripheral

CONSTANTS
    Loops,     \* I2C_TIMEOUT_LOOPS
    MaxLen     \* bound: bytes of a transfer

ASSUME MasterAssumption == Loops \in Nat \ {0} /\ MaxLen \in Nat \ {0}

VARIABLES
    pc,      \* where the driver is; "idle" between calls
    call,    \* the call: its name, its lengths, and whether it reads by now
    i, n,    \* the loop's index, and what is left of a wait's budget
    mid,     \* the first half of a step is done: the flag of a wait was found
             \* clear, or CR1 has been read
    reg,     \* CR1 as it was read
    ret,     \* what the last call returned
    buf,     \* the bytes a read has stored
    ladder,  \* history: i2c_bus_recover and then i2c_init have been called
    prompt,  \* no interrupt delays the driver by more than a byte on the bus
    doubled  \* history: since I2C1 was reset, i2c_read's CR1 |= ACK has asked
             \* once more for a STOP that went out between its halves

driverVars == <<pc, call, i, n, mid, reg, ret, buf, ladder, prompt, doubled>>
vars == <<hardwareVars, driverVars>>

Result == {"OK", "BUS_BUSY", "TIMEOUT_START", "NACK", "TIMEOUT_TX",
           "TIMEOUT_RX", "PARAM"}

NoCall == [op |-> "none", len |-> 0, rlen |-> 0, reads |-> FALSE, ready |-> FALSE]

DriverInit ==
    /\ pc = "idle" /\ call = NoCall /\ i = 0 /\ n = Loops /\ mid = FALSE
    /\ reg = {} /\ ret = "none" /\ buf = <<>> /\ ladder = "unknown"
    /\ prompt \in BOOLEAN /\ doubled = FALSE

Init == HardwareInit /\ DriverInit

\* How many bytes the loop that runs now has to move.
Length == IF call.op = "write_read" /\ call.reads THEN call.rlen ELSE call.len

Goto(l) == pc' = l /\ UNCHANGED <<call, i, n, mid, reg, ret, buf, ladder>>

Return(r) ==
    /\ pc' = "idle" /\ ret' = r /\ n' = Loops /\ mid' = FALSE /\ reg' = {}
    /\ UNCHANGED <<call, i, buf, ladder>>

-----------------------------------------------------------------------------
(* The steps that the calls are made of. *)

\* WAIT_FOR: what each wait is for, what it returns, where it goes on.
Waits == {"busy", "sb", "addr", "txe", "btf", "rxne"}

\* Mutant: i2c_write waits for TXE, not BTF, before its STOP.
Flag_TxeEnds ==
    [sb |-> "SB", addr |-> "ADDR", txe |-> "TXE", btf |-> "TXE", rxne |-> "RXNE"]

Flag == [sb |-> "SB", addr |-> "ADDR", txe |-> "TXE", btf |-> "BTF", rxne |-> "RXNE"]
Error == [busy |-> "BUS_BUSY", sb |-> "TIMEOUT_START", addr |-> "NACK",
          txe |-> "TIMEOUT_TX", btf |-> "TIMEOUT_TX", rxne |-> "TIMEOUT_RX"]
AfterWait == [busy |-> "start", sb |-> "address", addr |-> "clear",
              txe |-> "put", btf |-> "sent", rxne |-> "take"]
Arrived == IF pc = "busy" THEN ~Busy ELSE Flag[pc] \in sr1

Found ==
    /\ pc \in Waits /\ ~mid /\ Arrived
    /\ pc' = AfterWait[pc] /\ n' = Loops
    /\ UNCHANGED <<hardwareVars, call, i, mid, reg, ret, buf, ladder>>

\* Mutant: a wait without a budget.
NotYet_Forever ==
    /\ pc \in Waits /\ ~mid /\ ~Arrived
    /\ mid' = TRUE
    /\ UNCHANGED <<hardwareVars, pc, call, i, n, reg, ret, buf, ladder>>

NotYet ==
    /\ pc \in Waits /\ ~mid /\ ~Arrived
    /\ Working \/ n > 1
    /\ n' = IF Working THEN n ELSE n - 1
    /\ mid' = TRUE
    /\ UNCHANGED <<hardwareVars, pc, call, i, reg, ret, buf, ladder>>

\* Mutant: every timeout asks for a STOP, whoever holds the bus.
TimeOut_Stops ==
    /\ pc \in Waits /\ ~mid /\ ~Arrived /\ ~Working /\ n = 1
    /\ cr1' = cr1 \cup {"STOP"} /\ Return(Error[pc])
    /\ UNCHANGED <<sr1, line, pins, target>>

TimeOut ==
    /\ pc \in Waits /\ ~mid /\ ~Arrived /\ ~Working /\ n = 1
    /\ Return(Error[pc]) /\ UNCHANGED hardwareVars

\* The poll of SR2 that follows in the wait for the bus also clears ADDR.
CheckAf ==
    /\ pc \in Waits /\ mid /\ mid' = FALSE
    /\ \/ /\ "AF" \in sr1 /\ pc' = "nack" /\ sr1' = sr1 \ {"AF"}
          /\ UNCHANGED <<cr1, line, pins, target>>
       \/ "AF" \notin sr1 /\ pc = "busy" /\ ClearAddr /\ UNCHANGED pc
       \/ "AF" \notin sr1 /\ pc # "busy" /\ UNCHANGED <<hardwareVars, pc>>
    /\ UNCHANGED <<call, i, n, reg, ret, buf, ladder>>

\* Mutant: i2c_write ends without a STOP.
Sets_NoStop == [start |-> {"ACK", "START"}, stop |-> {}, refuse |-> {},
                queue |-> {"STOP"}, restore |-> {"ACK"}, nack |-> {"STOP"}]

\* CR1 |= Sets and CR1 &= ~Clears: read, then written.
Sets == [start |-> {"ACK", "START"}, stop |-> {"STOP"}, refuse |-> {},
         queue |-> {"STOP"}, restore |-> {"ACK"}, nack |-> {"STOP"}]

\* Mutant: the last byte is acknowledged.
Clears_KeepAck == [start |-> {}, stop |-> {}, refuse |-> {},
                   queue |-> {}, restore |-> {}, nack |-> {}]

Clears == [start |-> {}, stop |-> {}, refuse |-> {"ACK"},
           queue |-> {}, restore |-> {}, nack |-> {}]

ReadCr1 ==
    /\ pc \in DOMAIN Sets /\ ~mid
    /\ mid' = TRUE /\ reg' = cr1
    /\ UNCHANGED <<hardwareVars, pc, call, i, n, ret, buf, ladder>>

WriteCr1 ==
    /\ pc \in DOMAIN Sets /\ mid
    /\ cr1' = (reg \cup Sets[pc]) \ Clears[pc]
    /\ \/ /\ pc \in {"start", "refuse", "queue"}
          /\ pc' = [start |-> "sb", refuse |-> "queue", queue |-> "rxne"][pc]
          /\ mid' = FALSE /\ reg' = {}
          /\ UNCHANGED <<call, i, n, ret, buf, ladder>>
       \/ pc \in {"stop", "restore"} /\ Return("OK")
       \/ pc = "nack" /\ Return("NACK")
    /\ UNCHANGED <<sr1, line, pins, target>>

-----------------------------------------------------------------------------
(* i2c_start, and the data phases of i2c_write and i2c_read. *)

Address == pc = "address" /\ WriteAddress(call.reads) /\ Goto("addr")

\* The next turn of a loop over the bytes, for the next value of i.
NextOut(k) == IF k < Length THEN "txe" ELSE "btf"
\* Mutant: one byte more than there is room for.
NextIn_Over(k) == IF k = Length + 1 THEN "restore"
                  ELSE IF k = Length - 1 THEN "refuse" ELSE "rxne"

NextIn(k) == IF k = Length THEN "restore"
             ELSE IF k = Length - 1 THEN "refuse" ELSE "rxne"

Clear ==
    /\ pc = "clear" /\ ClearAddr
    /\ pc' = IF call.reads THEN NextIn(0) ELSE NextOut(0)
    /\ i' = 0
    /\ UNCHANGED <<call, n, mid, reg, ret, buf, ladder>>

Put ==
    /\ pc = "put" /\ WriteByte(i + 1)
    /\ i' = i + 1 /\ pc' = NextOut(i + 1)
    /\ UNCHANGED <<call, n, mid, reg, ret, buf, ladder>>

Take ==
    /\ pc = "take" /\ ReadByte
    /\ buf' = Append(buf, line.dr)
    /\ i' = i + 1 /\ pc' = NextIn(i + 1)
    /\ UNCHANGED <<call, n, mid, reg, ret, ladder>>

\* Every byte is out: i2c_write stops, i2c_write_read calls i2c_read.
Sent ==
    /\ pc = "sent"
    /\ \/ call.op = "write" /\ Goto("stop")
       \/ call.op = "write_read" /\ call.rlen = 0 /\ Return("PARAM")
       \/ /\ call.op = "write_read" /\ call.rlen > 0
          /\ pc' = "busy" /\ call' = [call EXCEPT !.reads = TRUE]
          /\ UNCHANGED <<i, n, mid, reg, ret, buf, ladder>>
    /\ UNCHANGED hardwareVars

\* i2c_read of no bytes at all.
NoBytes == pc = "param" /\ Return("PARAM") /\ UNCHANGED hardwareVars

Transfer == Found \/ NotYet \/ TimeOut \/ CheckAf \/ ReadCr1 \/ WriteCr1
            \/ Address \/ Clear \/ Put \/ Take \/ Sent \/ NoBytes

-----------------------------------------------------------------------------
(* i2c_bus_recover *)

TakePins ==
    /\ pc = "recover"
    /\ pins' = "gpio" /\ line' = [line EXCEPT !.bus = "free"] /\ LeaveLines
    /\ pc' = "clock" /\ i' = 0
    /\ UNCHANGED <<cr1, sr1, call, n, mid, reg, ret, buf, ladder>>

\* Mutant: the clocks of the data bits only.
Clock_Eight ==
    /\ pc = "clock"
    /\ target' = [target EXCEPT !.hold = IF @ = 0 THEN 0 ELSE @ - 1]
    /\ i' = i + 1
    /\ pc' = IF target'.hold = 0 \/ i' = 8 THEN "manual" ELSE "clock"
    /\ UNCHANGED <<cr1, sr1, line, pins, call, n, mid, reg, ret, buf, ladder>>

\* One clock by hand; the loop ends when SDA is released.
Clock ==
    /\ pc = "clock"
    /\ target' = [target EXCEPT !.hold = IF @ = 0 THEN 0 ELSE @ - 1]
    /\ i' = i + 1
    /\ pc' = IF target'.hold = 0 \/ i' = 9 THEN "manual" ELSE "clock"
    /\ UNCHANGED <<cr1, sr1, line, pins, call, n, mid, reg, ret, buf, ladder>>

\* The STOP by hand, then SWRST and CR1 = 0.
Recovered ==
    /\ pc = "manual" /\ SoftwareReset /\ UNCHANGED pins
    /\ pc' = "idle" /\ ladder' = "recovered"
    /\ UNCHANGED <<call, i, n, mid, reg, ret, buf>>

(* i2c_init *)

GivePins ==
    /\ pc = "init" /\ pins' = "i2c" /\ Goto("swrst")
    /\ UNCHANGED <<cr1, sr1, line, target>>

ResetPeripheral == pc = "swrst" /\ SoftwareReset /\ UNCHANGED pins /\ Goto("enable")

Enable ==
    /\ pc = "enable" /\ cr1' = {"PE"}
    /\ pc' = "idle"
    /\ ladder' = IF ladder = "recovered" THEN "ready" ELSE ladder
    /\ UNCHANGED <<sr1, line, pins, target, call, i, n, mid, reg, ret, buf>>

\* What the history variable doubled records.
Doubles == pc = "restore" /\ mid /\ "STOP" \in reg \ cr1
Resets == pc \in {"manual", "swrst"}

Driver ==
    /\ \/ Transfer
       \/ TakePins \/ Clock \/ Recovered
       \/ GivePins \/ ResetPeripheral \/ Enable
    /\ doubled' = ((doubled \/ Doubles) /\ ~Resets)
    /\ UNCHANGED prompt

-----------------------------------------------------------------------------
(* The caller, and a reset of the processor. *)

Begin(op, len, rlen) ==
    /\ pc = "idle"
    /\ call' = [op |-> op, len |-> len, rlen |-> rlen, reads |-> op = "read",
                ready |-> ladder = "ready"]
    /\ buf' = <<>> /\ ret' = "none" /\ i' = 0
    /\ UNCHANGED <<hardwareVars, n, mid, reg>>

CallTransfer ==
    \E op \in {"write", "read", "write_read"}, len, rlen \in 0 .. MaxLen :
       /\ op # "read" => len > 0
       /\ op # "write_read" => rlen = 0
       /\ Begin(op, len, rlen)
       /\ pc' = IF op = "read" /\ len = 0 THEN "param" ELSE "busy"
       /\ ladder' = "unknown"

CallInit == Begin("init", 0, 0) /\ pc' = "init" /\ UNCHANGED ladder
CallRecover == Begin("recover", 0, 0) /\ pc' = "recover" /\ UNCHANGED ladder

ProcessorReset ==
    /\ SoftwareReset /\ pins' = "gpio"
    /\ pc' = "idle" /\ call' = NoCall /\ i' = 0 /\ n' = Loops /\ mid' = FALSE
    /\ reg' = {} /\ ret' = "none" /\ buf' = <<>> /\ ladder' = "unknown"
    /\ doubled' = FALSE

Environment ==
    \/ (CallTransfer \/ CallInit \/ CallRecover) /\ UNCHANGED <<prompt, doubled>>
    \/ ProcessorReset /\ UNCHANGED prompt
    \/ (Stretch \/ Unstretch) /\ UNCHANGED driverVars

\* The driver's next step waits for nothing.
Due ==
    \/ pc \in {"address", "clear", "put", "take", "sent"} \cup DOMAIN Sets
    \/ pc \in Waits /\ Arrived

\* A prompt driver is there before the next byte is; a START or a STOP takes no
\* more than a bit and does not wait for it.
Peripheral ==
    /\ prompt /\ Due => SendStart \/ SendStop
    /\ Hardware /\ UNCHANGED driverVars

Next == Driver \/ Peripheral \/ Environment

\* The processor runs, and the peripheral does what it has to.  Of the target
\* nothing is assumed.
Spec ==
    /\ Init /\ [][Next]_vars
    /\ WF_vars(Driver) /\ WF_vars(Peripheral)

-----------------------------------------------------------------------------
(* Properties *)

\* Every part of the state has its type.
I2cTypeOK ==
    /\ cr1 \subseteq Cr1Bits /\ sr1 \subseteq Sr1Flags
    /\ line \in [bus : Buses, dr : Nat, shift : Nat, reads : BOOLEAN]
    /\ pins \in {"i2c", "gpio"}
    /\ target \in [got : Seq(Nat), sent : Nat, refused : BOOLEAN,
                   stretch : {"may", "holds", "over"}, hold : 0 .. MaxHold]
    /\ pc \in {"idle", "param", "recover", "clock", "manual", "init", "swrst", "enable",
              "address", "clear", "put", "take", "sent"} \cup Waits \cup DOMAIN Sets
    /\ call.len \in 0 .. MaxLen /\ call.rlen \in 0 .. MaxLen
    /\ i \in 0 .. MaxLen + 9 /\ n \in 1 .. Loops /\ mid \in BOOLEAN
    /\ prompt \in BOOLEAN /\ doubled \in BOOLEAN
    /\ reg \subseteq Cr1Bits /\ ret \in Result \cup {"none"}
    /\ Len(buf) <= MaxLen

\* When i2c_write's last wait ends (BTF, not TXE) the target has acknowledged
\* every byte of this call, in order; when i2c_read's last wait ends, what it
\* stored are the first bytes sent after its START, none left over from before.
OkMeansTransferred ==
    [][/\ pc = "btf" /\ pc' = "sent" =>
            target.got = [k \in 1 .. call.len |-> k]
       /\ pc = "take" /\ pc' = "restore" =>
            buf' = [k \in 1 .. Length |-> k]]_vars

\* A prompt driver that has not doubled a STOP since I2C1 was reset.  After it
\* has, the STOP cuts off a later call, and what that one leaves in CR1 breaks
\* what the two properties below say of the calls after it.
Orderly == prompt /\ ~doubled

\* After I2C_OK of such a driver the bus is free, or becomes so without another
\* call.
OkReleasesBus ==
    Orderly /\ pc = "idle" /\ ret = "OK" => line.bus = "free" \/ "STOP" \in cr1

\* The first time since I2C1 was reset that a prompt driver's request for a STOP
\* outlives its transfer, and so cuts off the next START, it is for one reason
\* only: the STOP queued at i2c_master.c:137 went out between the halves of
\* CR1 |= ACK (:143).  No other CR1 |= ... of the driver, no error exit and no
\* timeout leaves one on a free bus.
StrayStopIsDoubled ==
    prompt /\ pc = "idle" /\ line.bus = "free" /\ "STOP" \in cr1 => doubled

\* i2c_bus_recover and then i2c_init bring the bus back, whatever was left on
\* it: the next i2c_write or i2c_read gets its START.
RecoveryRestoresStart ==
    pc = "idle" /\ call.ready /\ call.op \in {"write", "read"} =>
        ret \notin {"BUS_BUSY", "TIMEOUT_START"}

\* Every call returns, whatever the target does (i2c_master.c:13).
CallReturns == (pc # "idle") ~> (pc = "idle")

\* i2c_write_read follows the write with a repeated START: it does not find
\* the bus busy with its own transfer (i2c_master.c:150, :162).
RepeatedStartSent ==
    ~(pc = "idle" /\ call.op = "write_read" /\ call.reads /\ ret = "BUS_BUSY")

\* i2c_read refuses the last byte before reading it, so that the target sends
\* no more than was asked for (i2c_master.c:133).
LastByteRefused ==
    pc = "idle" /\ call.op = "read" /\ ret = "OK" => target.sent = call.len

\* A prompt driver that has not doubled a STOP does.
PromptlyRefused == Orderly => LastByteRefused

=============================================================================
