-------------------------- MODULE Programs_proofs --------------------------
(* The small programs of MCPrograms, which share nothing: the SPI driver,    *)
(* the delay, the learning ledger and the CAN bit-timing search, in this     *)
(* order.                                                                    *)
EXTENDS SpiMaster, SysTickDelay, LearningLedger, CanBitTiming,
        WellFoundedInduction, TLAPS

-----------------------------------------------------------------------------
(* The SPI driver, for every order of calls, every length, every clock of    *)
(* the bus and every limit of the device: where the byte under way is, what  *)
(* a transfer returns, and what the divider is.                              *)

(* The divider. *)

LEMMA PowerPositive ==
    ASSUME NEW b \in 0 .. 8
    PROVE  2 ^ b \in Nat \ {0}
<1>1. /\ 2 ^ 0 \in Nat \ {0} /\ 2 ^ 1 \in Nat \ {0} /\ 2 ^ 2 \in Nat \ {0}
      /\ 2 ^ 3 \in Nat \ {0} /\ 2 ^ 4 \in Nat \ {0} /\ 2 ^ 5 \in Nat \ {0}
      /\ 2 ^ 6 \in Nat \ {0} /\ 2 ^ 7 \in Nat \ {0} /\ 2 ^ 8 \in Nat \ {0}
  OBVIOUS
<1>2. \/ b = 0 \/ b = 1 \/ b = 2 \/ b = 3 \/ b = 4
      \/ b = 5 \/ b = 6 \/ b = 7 \/ b = 8
  OBVIOUS
<1>3. QED
  BY <1>1, <1>2, Zenon

\* Whole hertz: the quotient is over the limit when the clock is a hertz over.
LEMMA QuotientOver ==
    ASSUME NEW p \in Nat, NEW m \in Nat, NEW d \in Nat \ {0}
    PROVE  p \div d > m <=> p >= (m + 1) * d
OBVIOUS

-----------------------------------------------------------------------------
(* The invariant. *)

Pc == {"idle", "raise", "divider", "disable", "enable", "wait", "release",
       "deselect", "txe", "rxne"}
Starting == {"raise", "divider", "disable", "enable"}
Id == 0 .. Ids

Local == [pc : Pc, pclk : Nat, max : Nat, br : 0 .. 7, todo : Nat, out : Id]
Answer == [out : Id, in : 0 .. Filler, clocked : BOOLEAN]

SpiTypeOK ==
    /\ clocked \in BOOLEAN /\ enabled \in BOOLEAN /\ busy \in BOOLEAN
    /\ br \in 0 .. 7
    /\ tx \in Id /\ shift \in Id /\ rx \in Id
    /\ spi \in Local /\ reply \in Answer

\* Without a clock nothing is in SPI1; with one it is enabled, except during
\* spi_init.
Powered ==
    /\ ~clocked => ~enabled /\ ~busy /\ spi.pc \notin Starting \cup {"rxne"}
    /\ clocked /\ spi.pc \notin Starting => enabled

\* SPI1 holds a byte only while spi_transfer waits for its answer: that very
\* byte, in one place.
OneByte ==
    /\ spi.pc # "rxne" => tx = None /\ shift = None /\ rx = None
    /\ spi.pc = "rxne" =>
          /\ spi.out # None
          /\ \/ tx = spi.out /\ shift = None /\ rx = None
             \/ tx = None /\ shift = spi.out /\ rx = None
             \/ tx = None /\ shift = None /\ rx = spi.out

Unfinished == spi.pc \in {"txe", "rxne"} => spi.todo > 0

LastBitOut == spi.pc = "deselect" => ~busy

\* The divider before was too small, or there is none before.
Slower == spi.br = 0 \/ spi.pclk >= (spi.max + 1) * 2 ^ spi.br
SlowEnough == spi.br = 7 \/ spi.pclk < (spi.max + 1) * 2 ^ (spi.br + 1)

Clock ==
    /\ spi.pc = "raise" => spi.br = 0
    /\ spi.pc = "divider" => Slower
    /\ spi.pc \in {"disable", "enable"} => Slower /\ SlowEnough
    /\ spi.pc = "enable" => ~enabled
    /\ enabled /\ spi.pc \notin Starting => br = spi.br /\ Slower /\ SlowEnough

SpiInv ==
    /\ SpiTypeOK /\ Powered /\ OneByte /\ Unfinished /\ LastBitOut /\ Clock
    /\ ReplyIsOwn

USE SpiAssumption

LEMMA SpiInvInit == SpiMasterInit => SpiInv
<1> SUFFICES ASSUME SpiMasterInit PROVE SpiInv
  OBVIOUS
<1>1. SpiTypeOK
  <2>1. spi \in Local
    BY DEF SpiMasterInit, Local, Pc, Id, None
  <2>2. reply \in Answer
    BY DEF SpiMasterInit, Answer, Id, None, Filler
  <2>3. br \in 0 .. 7 /\ tx \in Id /\ shift \in Id /\ rx \in Id
    BY DEF SpiMasterInit, Id, None
  <2>4. clocked \in BOOLEAN /\ enabled \in BOOLEAN /\ busy \in BOOLEAN
    BY DEF SpiMasterInit
  <2>5. QED
    BY <2>1, <2>2, <2>3, <2>4 DEF SpiTypeOK
<1>2. /\ spi.pc = "idle" /\ ~clocked /\ ~enabled /\ ~busy /\ ~reply.clocked
      /\ tx = None /\ shift = None /\ rx = None
  BY DEF SpiMasterInit
<1>3. QED
  BY <1>1, <1>2 DEF SpiInv, Powered, OneByte, Unfinished, LastBitOut, Clock, ReplyIsOwn, Starting

-----------------------------------------------------------------------------
(* The steps of SPI1. *)

LEMMA Spi1KeepsInv ==
    ASSUME SpiInv, Spi1
    PROVE  SpiInv'
<1>u. UNCHANGED <<odr, cs, spi, reply>> /\ UNCHANGED <<clocked, enabled, br>>
  BY DEF Spi1, Load, Shift, Settle
<1>1. SpiTypeOK'
  <2>1. tx' \in Id /\ shift' \in Id /\ rx' \in Id
    BY DEF Spi1, Load, Shift, Settle, SpiInv, SpiTypeOK, None, Id
  <2>2. busy' \in BOOLEAN
    BY DEF Spi1, Load, Shift, Settle, SpiInv, SpiTypeOK
  <2>3. QED
    BY <1>u, <2>1, <2>2 DEF SpiInv, SpiTypeOK
<1>2. Powered'
  BY <1>u DEF Spi1, Load, Shift, Settle, SpiInv, Powered, OneByte
<1>3. OneByte'
  BY <1>u DEF Spi1, Load, Shift, Settle, SpiInv, OneByte, None
<1>4. LastBitOut' /\ Unfinished'
  BY <1>u DEF Spi1, Load, Shift, Settle, SpiInv, LastBitOut, OneByte, Unfinished
<1>5. Clock' /\ ReplyIsOwn'
  BY <1>u DEF SpiInv, Clock, Slower, SlowEnough, ReplyIsOwn
<1>6. QED
  BY <1>1, <1>2, <1>3, <1>4, <1>5 DEF SpiInv

-----------------------------------------------------------------------------
(* The steps of the driver.  Most of them change nothing of SPI1. *)

\* Fields of the driver's record.
LEMMA LocalExcept ==
    ASSUME NEW r \in Local
    PROVE  /\ \A l \in Pc : [r EXCEPT !.pc = l] \in Local
           /\ \A l \in Pc, k \in Nat : [r EXCEPT !.pc = l, !.todo = k] \in Local
           /\ \A l \in Pc, k \in Nat : [r EXCEPT !.todo = k, !.pc = l] \in Local
           /\ \A l \in Pc, k \in Id : [r EXCEPT !.pc = l, !.out = k] \in Local
           /\ \A k \in 0 .. 7 : [r EXCEPT !.br = k] \in Local
           /\ \A l \in Pc, p \in Nat, x \in Nat, k \in 0 .. 7 :
                 [r EXCEPT !.pc = l, !.pclk = p, !.max = x, !.br = k] \in Local
BY DEF Local

LEMMA LocalFields ==
    ASSUME NEW r \in Local
    PROVE  /\ r.pc \in Pc /\ r.pclk \in Nat /\ r.max \in Nat
           /\ r.br \in 0 .. 7 /\ r.todo \in Nat /\ r.out \in Id
BY DEF Local

\* A step that moves the driver on to l and leaves SPI1 and its locals alone.
LEMMA MoveKeepsInv ==
    ASSUME SpiInv, NEW l \in Pc, spi' = [spi EXCEPT !.pc = l],
           UNCHANGED <<spi1Vars, reply>>,
           spi.pc \notin Starting \cup {"rxne"}, l \notin Starting \cup {"txe", "rxne"},
           l = "deselect" => ~busy
    PROVE  SpiInv'
<1>1. spi \in Local
  BY DEF SpiInv, SpiTypeOK
<1>2. /\ spi' \in Local /\ spi'.pc = l /\ spi'.br = spi.br /\ spi'.out = spi.out
      /\ spi'.pclk = spi.pclk /\ spi'.max = spi.max
  BY <1>1, LocalExcept DEF Local
<1>3. SpiTypeOK'
  BY <1>2 DEF spi1Vars, SpiInv, SpiTypeOK
<1>4. Powered' /\ OneByte' /\ Unfinished' /\ LastBitOut'
  BY <1>2 DEF spi1Vars, SpiInv, Powered, OneByte, Unfinished, LastBitOut, Starting
<1>5. Clock'
  BY <1>2 DEF spi1Vars, SpiInv, Clock, Slower, SlowEnough, Starting
<1>6. ReplyIsOwn'
  BY DEF SpiInv, ReplyIsOwn
<1>7. QED
  BY <1>3, <1>4, <1>5, <1>6 DEF SpiInv

LEMMA InitStepsKeepInv ==
    ASSUME SpiInv,
           \/ \E pclk \in Pclks, max \in Maxima : SpiInit(pclk, max)
           \/ RaiseCs \/ ChooseDivider \/ Disable \/ Enable
    PROVE  SpiInv'
<1>l. /\ spi \in Local /\ spi.pc \in Pc /\ spi.pclk \in Nat /\ spi.max \in Nat
      /\ spi.br \in 0 .. 7
  BY LocalFields DEF SpiInv, SpiTypeOK
<1>1. ASSUME NEW pclk \in Pclks, NEW max \in Maxima, SpiInit(pclk, max)
      PROVE  SpiInv'
  <2>1. /\ spi' = [spi EXCEPT !.pc = "raise", !.pclk = pclk, !.max = max, !.br = 0]
        /\ spi.pc = "idle" /\ clocked' = TRUE
        /\ UNCHANGED <<enabled, br, tx, shift, rx, busy, reply>>
    BY <1>1 DEF SpiInit
  <2>2. pclk \in Nat /\ max \in Nat /\ "raise" \in Pc /\ 0 \in 0 .. 7
    BY SpiAssumption DEF Pc
  <2>3. spi' \in Local /\ spi'.pc = "raise"
    BY <1>l, <2>1, <2>2, LocalExcept DEF Local
  <2>4. clocked' \in BOOLEAN
    BY <2>1
  <2>5. SpiTypeOK'
    BY <2>1, <2>3, <2>4 DEF SpiInv, SpiTypeOK
  <2>6. clocked' /\ Powered' /\ OneByte' /\ Unfinished' /\ LastBitOut'
    BY <2>1, <2>3 DEF SpiInv, Powered, OneByte, Unfinished, LastBitOut, Starting
  <2>7. Clock' /\ ReplyIsOwn'
    BY <2>1, <2>3 DEF SpiInv, Clock, ReplyIsOwn, Starting
  <2>8. QED
    BY <2>5, <2>6, <2>7 DEF SpiInv
<1>2. CASE RaiseCs
  <2>1. /\ spi.pc = "raise" /\ spi' = [spi EXCEPT !.pc = "divider"]
        /\ UNCHANGED <<spi1Vars, reply>> /\ "divider" \in Pc
    BY <1>2 DEF RaiseCs, Pc
  <2>2. spi' \in Local /\ spi'.pc = "divider" /\ spi'.br = spi.br
    BY <1>l, <2>1, LocalExcept DEF Local
  <2>3. SpiTypeOK'
    BY <2>1, <2>2 DEF spi1Vars, SpiInv, SpiTypeOK
  <2>4. Powered' /\ OneByte' /\ Unfinished' /\ LastBitOut' /\ ReplyIsOwn'
    BY <2>1, <2>2 DEF spi1Vars, SpiInv, Powered, OneByte, Unfinished, LastBitOut, ReplyIsOwn, Starting
  <2>5. Clock'
    BY <2>1, <2>2 DEF SpiInv, Clock, Slower, Starting
  <2>6. QED
    BY <2>3, <2>4, <2>5 DEF SpiInv
<1>3. CASE ChooseDivider
  <2>1. /\ spi.pc = "divider" /\ UNCHANGED <<spi1Vars, reply>>
        /\ spi' = IF TooFast /\ spi.br < 7
                  THEN [spi EXCEPT !.br = spi.br + 1]
                  ELSE [spi EXCEPT !.pc = "disable"]
    BY <1>3 DEF ChooseDivider
  <2>2. Slower
    BY <2>1 DEF SpiInv, Clock
  <2>3. spi.br + 1 \in 0 .. 8
    BY <1>l
  <2>4. 2 ^ (spi.br + 1) \in Nat \ {0}
    BY <2>3, PowerPositive
  <2>5. TooFast <=> spi.pclk >= (spi.max + 1) * 2 ^ (spi.br + 1)
    BY <1>l, <2>4, QuotientOver DEF TooFast, Divider
  <2>6. CASE TooFast /\ spi.br < 7
    <3>1. spi' = [spi EXCEPT !.br = spi.br + 1] /\ spi.br + 1 \in 0 .. 7
      BY <1>l, <2>1, <2>6
    <3>2. /\ spi' \in Local /\ spi'.pc = "divider" /\ spi'.br = spi.br + 1
          /\ spi'.pclk = spi.pclk /\ spi'.max = spi.max
      BY <1>l, <2>1, <3>1, LocalExcept DEF Local
    <3>3. Slower'
      BY <2>5, <2>6, <3>2 DEF Slower
    <3>4. SpiTypeOK'
      BY <2>1, <3>2 DEF spi1Vars, SpiInv, SpiTypeOK
    <3>5. Powered' /\ OneByte' /\ Unfinished' /\ LastBitOut' /\ ReplyIsOwn'
      BY <2>1, <3>2 DEF spi1Vars, SpiInv, Powered, OneByte, Unfinished, LastBitOut, ReplyIsOwn, Starting
    <3>6. Clock'
      BY <3>2, <3>3 DEF Clock, Starting
    <3>7. QED
      BY <3>4, <3>5, <3>6 DEF SpiInv
  <2>7. CASE ~(TooFast /\ spi.br < 7)
    <3>1. spi' = [spi EXCEPT !.pc = "disable"] /\ "disable" \in Pc
      BY <2>1, <2>7 DEF Pc
    <3>2. /\ spi' \in Local /\ spi'.pc = "disable" /\ spi'.br = spi.br
          /\ spi'.pclk = spi.pclk /\ spi'.max = spi.max
      BY <1>l, <2>1, <3>1, LocalExcept DEF Local
    <3>3. SlowEnough
      <4>1. CASE spi.br = 7
        BY <4>1 DEF SlowEnough
      <4>2. CASE ~TooFast
        <5> DEFINE limit == (spi.max + 1) * 2 ^ (spi.br + 1)
        <5>1. limit \in Nat
          BY <1>l, <2>4
        <5>2. ~(spi.pclk >= limit)
          BY <2>5, <4>2
        <5>3. spi.pclk < limit
          <6> HIDE DEF limit
          <6>1. QED
            BY <1>l, <5>1, <5>2
        <5>4. QED
          BY <5>3 DEF SlowEnough
      <4>3. QED
        BY <1>l, <2>7, <4>1, <4>2
    <3>4. Slower' /\ SlowEnough'
      BY <2>2, <3>2, <3>3 DEF Slower, SlowEnough
    <3>5. SpiTypeOK'
      BY <2>1, <3>2 DEF spi1Vars, SpiInv, SpiTypeOK
    <3>6. Powered' /\ OneByte' /\ Unfinished' /\ LastBitOut' /\ ReplyIsOwn'
      BY <2>1, <3>2 DEF spi1Vars, SpiInv, Powered, OneByte, Unfinished, LastBitOut, ReplyIsOwn, Starting
    <3>7. Clock'
      BY <3>2, <3>4 DEF Clock, Starting
    <3>8. QED
      BY <3>5, <3>6, <3>7 DEF SpiInv
  <2>8. QED
    BY <2>6, <2>7
<1>4. CASE Disable
  <2>1. /\ spi.pc = "disable" /\ spi' = [spi EXCEPT !.pc = "enable"] /\ "enable" \in Pc
        /\ enabled' = FALSE /\ br' = 0
        /\ UNCHANGED <<clocked, tx, shift, rx, busy, reply>>
    BY <1>4 DEF Disable, Pc
  <2>2. /\ spi' \in Local /\ spi'.pc = "enable" /\ spi'.br = spi.br
        /\ spi'.pclk = spi.pclk /\ spi'.max = spi.max
    BY <1>l, <2>1, LocalExcept DEF Local
  <2>a. br' \in 0 .. 7
    BY <2>1
  <2>3. enabled' \in BOOLEAN /\ ~enabled' /\ br' \in 0 .. 7
    BY <2>1, <2>a, Zenon
  <2>4. SpiTypeOK'
    BY <2>1, <2>2, <2>3 DEF SpiInv, SpiTypeOK
  <2>5. Powered' /\ OneByte' /\ Unfinished' /\ LastBitOut' /\ ReplyIsOwn'
    BY <2>1, <2>2, <2>3 DEF SpiInv, Powered, OneByte, Unfinished, LastBitOut, ReplyIsOwn, Starting
  <2>6. Slower /\ SlowEnough
    BY <2>1 DEF SpiInv, Clock
  <2>7. Slower' /\ SlowEnough'
    BY <2>2, <2>6 DEF Slower, SlowEnough
  <2>8. Clock'
    BY <2>2, <2>3, <2>7 DEF Clock, Starting
  <2>9. QED
    BY <2>4, <2>5, <2>8 DEF SpiInv
<1>5. CASE Enable
  <2>1. /\ spi.pc = "enable" /\ spi' = [spi EXCEPT !.pc = "idle"] /\ "idle" \in Pc
        /\ enabled' = TRUE /\ br' = spi.br
        /\ UNCHANGED <<clocked, tx, shift, rx, busy, reply>>
    BY <1>5 DEF Enable, Pc
  <2>2. /\ spi' \in Local /\ spi'.pc = "idle" /\ spi'.br = spi.br
        /\ spi'.pclk = spi.pclk /\ spi'.max = spi.max
    BY <1>l, <2>1, LocalExcept DEF Local
  <2>3. enabled' \in BOOLEAN /\ enabled' /\ br' \in 0 .. 7
    BY <1>l, <2>1
  <2>4. SpiTypeOK'
    BY <2>1, <2>2, <2>3 DEF SpiInv, SpiTypeOK
  <2>5. clocked
    BY <2>1 DEF SpiInv, Powered, Starting
  <2>6. Powered' /\ OneByte' /\ Unfinished' /\ LastBitOut' /\ ReplyIsOwn'
    BY <2>1, <2>2, <2>3, <2>5 DEF SpiInv, Powered, OneByte, Unfinished, LastBitOut, ReplyIsOwn, Starting
  <2>7. Slower /\ SlowEnough
    BY <2>1 DEF SpiInv, Clock
  <2>8. Slower' /\ SlowEnough'
    BY <2>2, <2>7 DEF Slower, SlowEnough
  <2>9. Clock'
    BY <2>1, <2>2, <2>8 DEF Clock, Starting
  <2>10. QED
    BY <2>4, <2>6, <2>9 DEF SpiInv
<1>6. QED
  BY <1>1, <1>2, <1>3, <1>4, <1>5

LEMMA CsStepsKeepInv ==
    ASSUME SpiInv,
           \/ \E l \in {"wait", "release"} : CallIdle(l)
           \/ CsAssert \/ WaitIdle \/ Deselect
    PROVE  SpiInv'
<1>l. spi \in Local
  BY DEF SpiInv, SpiTypeOK
<1>1. ASSUME NEW l \in {"wait", "release"}, CallIdle(l) PROVE SpiInv'
  <2>1. /\ spi' = [spi EXCEPT !.pc = l] /\ l \in Pc /\ UNCHANGED <<spi1Vars, reply>>
        /\ spi.pc \notin Starting \cup {"rxne"} /\ l \notin Starting \cup {"txe", "rxne"}
        /\ l # "deselect"
    BY <1>1 DEF CallIdle, Pc, Starting
  <2>2. QED
    BY <2>1, MoveKeepsInv
<1>2. CASE CsAssert
  BY <1>2 DEF CsAssert, spi1Vars, SpiInv, SpiTypeOK, Powered, OneByte, Unfinished, LastBitOut, Clock,
     Slower, SlowEnough, ReplyIsOwn
<1>3. CASE WaitIdle
  <2>1. /\ UNCHANGED <<spi1Vars, reply>> /\ spi.pc \notin Starting \cup {"rxne"}
        /\ spi.pc \in {"wait", "release"}
        /\ spi' = [spi EXCEPT !.pc = IF spi.pc = "wait" THEN "idle" ELSE "deselect"]
    BY <1>3 DEF WaitIdle, Starting
  <2>2. ~busy
    BY <1>3 DEF WaitIdle, BusIdle, Bsy, SpiInv, Powered
  <2>3. CASE spi.pc = "wait"
    <3>1. spi' = [spi EXCEPT !.pc = "idle"]
      BY <2>1, <2>3
    <3>2. "idle" \in Pc /\ "idle" \notin Starting \cup {"txe", "rxne"} /\ "idle" # "deselect"
      BY DEF Pc, Starting
    <3>3. QED
      BY <2>1, <3>1, <3>2, MoveKeepsInv
  <2>4. CASE spi.pc # "wait"
    <3>1. spi' = [spi EXCEPT !.pc = "deselect"]
      BY <2>1, <2>4
    <3>2. "deselect" \in Pc /\ "deselect" \notin Starting \cup {"txe", "rxne"}
      BY DEF Pc, Starting
    <3>3. QED
      BY <2>1, <2>2, <3>1, <3>2, MoveKeepsInv
  <2>5. QED
    BY <2>3, <2>4
<1>4. CASE Deselect
  <2>1. /\ spi' = [spi EXCEPT !.pc = "idle"] /\ UNCHANGED <<spi1Vars, reply>>
        /\ spi.pc \notin Starting \cup {"rxne"}
        /\ "idle" \in Pc /\ "idle" \notin Starting \cup {"txe", "rxne"} /\ "idle" # "deselect"
    BY <1>4 DEF Deselect, Pc, Starting
  <2>2. QED
    BY <2>1, MoveKeepsInv
<1>5. QED
  BY <1>1, <1>2, <1>3, <1>4

-----------------------------------------------------------------------------
(* spi_transfer. *)

LEMMA CallTransferKeepsInv ==
    ASSUME SpiInv, NEW len \in 0 .. MaxBytes, CallTransfer(len)
    PROVE  SpiInv'
<1>1. /\ spi.pc = "idle" /\ spi' = [spi EXCEPT !.pc = "txe", !.todo = len]
      /\ len \in Nat /\ len > 0 /\ "txe" \in Pc /\ UNCHANGED <<spi1Vars, reply>> /\ spi \in Local
  BY SpiAssumption DEF CallTransfer, Pc, SpiInv, SpiTypeOK
<1>2. /\ spi' \in Local /\ spi'.pc = "txe" /\ spi'.br = spi.br /\ spi'.todo = len
      /\ spi'.pclk = spi.pclk /\ spi'.max = spi.max
  BY <1>1, LocalExcept DEF Local
<1>3. SpiTypeOK'
  BY <1>1, <1>2 DEF spi1Vars, SpiInv, SpiTypeOK
<1>4. Powered' /\ OneByte' /\ Unfinished' /\ LastBitOut' /\ ReplyIsOwn'
  BY <1>1, <1>2 DEF spi1Vars, SpiInv, Powered, OneByte, Unfinished, LastBitOut, ReplyIsOwn, Starting
<1>5. Clock'
  BY <1>1, <1>2 DEF spi1Vars, SpiInv, Clock, Slower, SlowEnough, Starting
<1>6. QED
  BY <1>3, <1>4, <1>5 DEF SpiInv

LEMMA NextIdIsId == ASSUME NEW k \in Id PROVE (k % Ids) + 1 \in 1 .. Ids
<1>1. k % Ids \in 0 .. Ids - 1
  BY SpiAssumption DEF Id
<1>2. QED
  BY <1>1, SpiAssumption

LEMMA WriteDrKeepsInv ==
    ASSUME SpiInv, WriteDr
    PROVE  SpiInv'
<1>1. /\ spi.pc = "txe" /\ clocked /\ tx' = NextId
      /\ spi' = [spi EXCEPT !.pc = "rxne", !.out = NextId]
      /\ "rxne" \in Pc /\ UNCHANGED <<clocked, enabled, br, shift, rx, busy, reply>>
      /\ spi \in Local
  BY DEF WriteDr, Txe, Pc, SpiInv, SpiTypeOK
<1>2. NextId \in 1 .. Ids
  BY <1>1, LocalFields, NextIdIsId DEF NextId
<1>3. NextId \in Id /\ NextId # None
  BY <1>2 DEF Id, None
<1>4. /\ spi' \in Local /\ spi'.pc = "rxne" /\ spi'.br = spi.br /\ spi'.out = NextId
      /\ spi'.pclk = spi.pclk /\ spi'.max = spi.max /\ spi'.todo = spi.todo
  BY <1>1, <1>3, LocalExcept DEF Local
<1>5. SpiTypeOK'
  BY <1>1, <1>3, <1>4 DEF SpiInv, SpiTypeOK
<1>6. OneByte'
  BY <1>1, <1>3, <1>4 DEF SpiInv, OneByte
<1>7. Powered' /\ Unfinished' /\ LastBitOut' /\ ReplyIsOwn'
  BY <1>1, <1>4 DEF SpiInv, Powered, Unfinished, LastBitOut, ReplyIsOwn, Starting
<1>8. Clock'
  BY <1>1, <1>4 DEF SpiInv, Clock, Slower, SlowEnough, Starting
<1>9. QED
  BY <1>5, <1>6, <1>7, <1>8 DEF SpiInv

\* A transfer that returns with SPI1 empty, and with its own answer if SPI1 has
\* its clock.
LEMMA ReturnKeepsInv ==
    ASSUME SpiInv, NEW in \in 0 .. Filler, TransferReturns(in),
           spi.pc \in {"txe", "rxne"}, clocked => in = spi.out,
           UNCHANGED <<clocked, enabled, br, tx, shift, busy>>,
           tx = None, shift = None, rx' = None
    PROVE  SpiInv'
<1>l. spi \in Local /\ spi.todo \in Nat /\ spi.out \in Id /\ spi.todo > 0
  BY LocalFields DEF SpiInv, SpiTypeOK, Unfinished
<1> DEFINE l == IF spi.todo = 1 THEN "idle" ELSE "txe"
<1>1. /\ spi' = [spi EXCEPT !.todo = spi.todo - 1, !.pc = l]
      /\ l \in Pc /\ spi.todo - 1 \in Nat /\ (l = "txe" => spi.todo - 1 > 0)
      /\ l \in {"idle", "txe"}
  BY <1>l DEF TransferReturns, Pc
<1> HIDE DEF l
<1>2. /\ spi' \in Local /\ spi'.pc = l /\ spi'.br = spi.br /\ spi'.todo = spi.todo - 1
      /\ spi'.pclk = spi.pclk /\ spi'.max = spi.max
  BY <1>l, <1>1, LocalExcept DEF Local
<1>3. reply' \in Answer
  BY <1>l DEF TransferReturns, Answer, SpiInv, SpiTypeOK
<1>4. SpiTypeOK'
  <2>1. rx' \in Id
    BY SpiAssumption DEF Id, None
  <2>2. QED
    BY <1>2, <1>3, <2>1 DEF SpiInv, SpiTypeOK
<1>5. OneByte' /\ Unfinished' /\ LastBitOut'
  BY <1>1, <1>2 DEF OneByte, Unfinished, LastBitOut
<1>6. Powered'
  BY <1>1, <1>2 DEF SpiInv, Powered, Starting
<1>7. Clock'
  BY <1>1, <1>2 DEF SpiInv, Clock, Slower, SlowEnough, Starting
<1>8. ReplyIsOwn'
  BY DEF TransferReturns, ReplyIsOwn
<1>9. QED
  BY <1>4, <1>5, <1>6, <1>7, <1>8 DEF SpiInv

\* The answer that is read is the one to the byte that was written.
LEMMA ReadDrKeepsInv ==
    ASSUME SpiInv, ReadDr
    PROVE  SpiInv'
<1>1. /\ spi.pc = "rxne" /\ rx # None /\ rx' = None /\ TransferReturns(rx)
      /\ UNCHANGED <<clocked, enabled, br, tx, shift, busy>>
  BY DEF ReadDr, Rxne
<1>2. tx = None /\ shift = None /\ rx = spi.out
  BY <1>1 DEF SpiInv, OneByte
<1>3. rx \in 0 .. Filler
  BY SpiAssumption DEF SpiInv, SpiTypeOK, Id, Filler
<1>4. QED
  BY <1>1, <1>2, <1>3, ReturnKeepsInv

\* A wait runs out only before spi_init.
LEMMA TimeOutKeepsInv ==
    ASSUME SpiInv, TimeOut
    PROVE  SpiInv'
<1>1. /\ spi.pc \in {"txe", "rxne"} /\ TransferReturns(Filler) /\ UNCHANGED spi1Vars
      /\ ~Polled /\ Spi1AtRest
  BY DEF TimeOut
<1>2. ~clocked
  BY <1>1 DEF Polled, Spi1AtRest, Txe, Rxne, SpiInv, Powered, OneByte, Starting
<1>3. spi.pc = "txe" /\ tx = None /\ shift = None /\ rx = None
  BY <1>1, <1>2 DEF SpiInv, Powered, OneByte
<1>4. Filler \in 0 .. Filler
  BY SpiAssumption DEF Filler
<1>5. QED
  BY <1>1, <1>2, <1>3, <1>4, ReturnKeepsInv DEF spi1Vars

-----------------------------------------------------------------------------
LEMMA SpiInvStep == SpiInv /\ [SpiNext]_spiVars => SpiInv'
<1> SUFFICES ASSUME SpiInv, [SpiNext]_spiVars PROVE SpiInv'
  OBVIOUS
<1>1. CASE SpiCall
  BY <1>1, InitStepsKeepInv, CsStepsKeepInv, CallTransferKeepsInv DEF SpiCall
<1>2. CASE SpiDriver
  BY <1>2, InitStepsKeepInv, CsStepsKeepInv, WriteDrKeepsInv, ReadDrKeepsInv,
     TimeOutKeepsInv DEF SpiDriver
<1>3. CASE Spi1
  BY <1>3, Spi1KeepsInv
<1>4. CASE UNCHANGED spiVars
  BY <1>4 DEF spiVars, spi1Vars, SpiInv, SpiTypeOK, Powered, OneByte, Unfinished,
     LastBitOut, Clock, Slower, SlowEnough, ReplyIsOwn
<1>5. QED
  BY <1>1, <1>2, <1>3, <1>4 DEF SpiNext

LEMMA SpiInvariant == SpiSpec => []SpiInv
<1>1. QED
  BY SpiInvInit, SpiInvStep, PTL DEF SpiSpec

\* No transfer returns the answer to another byte, however the calls are mixed:
\* when one begins, nothing is left in SPI1.
THEOREM RepliesMatch == SpiSpec => []ReplyIsOwn
<1>1. SpiInv => ReplyIsOwn
  BY DEF SpiInv
<1>2. QED
  BY <1>1, SpiInvariant, PTL

\* spi_cs_release ends no byte early.
THEOREM ReleaseIsLate == SpiSpec => ReleaseAfterLastBit
<1> DEFINE Late == spi.pc = "deselect" /\ cs = "low" /\ cs' = "high"
                      => ~busy /\ tx = None /\ shift = None
<1>1. SpiInv => Late
  BY DEF SpiInv, OneByte, LastBitOut
<1>2. SpiInv => [Late]_<<spi1Vars, odr, cs, spi>>
  BY <1>1
<1>3. QED
  BY <1>2, SpiInvariant, PTL DEF ReleaseAfterLastBit

\* The search for a divider ends with the fastest clock that keeps to the
\* maximum in whole hertz, or with the divider 256, whatever the maximum is.
THEOREM SckIsFastestAllowed == SpiSpec => []SckFastestAllowed
<1>1. SpiInv => SckFastestAllowed
  <2> SUFFICES ASSUME SpiInv, SetUp
               PROVE  /\ br = 7 \/ spi.pclk < (spi.max + 1) * 2 ^ (br + 1)
                      /\ br = 0 \/ spi.pclk >= (spi.max + 1) * 2 ^ br
    BY DEF SckFastestAllowed
  <2>1. br = spi.br /\ Slower /\ SlowEnough
    BY DEF SpiInv, Clock, Starting, SetUp
  <2>2. QED
    BY <2>1 DEF Slower, SlowEnough
<1>2. QED
  BY <1>1, SpiInvariant, PTL

-----------------------------------------------------------------------------
(* delay_ticks takes n ticks or n + 1, for every width of the tick counter   *)
(* and every delay but the longest.                                          *)

LEMMA RemainderOfSmall ==
    ASSUME NEW w \in Nat \ {0}, NEW x \in 0 .. w - 1
    PROVE  x % w = x
OBVIOUS

LEMMA RemainderOfNegative ==
    ASSUME NEW w \in Nat \ {0}, NEW x \in 0 .. w - 1
    PROVE  (x - w) % w = x
OBVIOUS

DelayTypeOK ==
    /\ ticks \in 0 .. TickWord - 1 /\ start \in 0 .. TickWord - 1
    /\ n \in 0 .. TickWord - 2 /\ elapsed \in 0 .. TickWord - 1
    /\ ticked \in BOOLEAN /\ delayPc \in {"idle", "check", "wfi", "asleep"}

\* The counter is ahead of start by the ticks of the call, with at most one
\* wrap between the two.
Ahead == ticks = start + elapsed \/ ticks = start + elapsed - TickWord

\* How far the ticks can have come at each place.  The check that fails comes
\* before tick n; one tick may follow it, and one may end the sleep.
Progress ==
    /\ delayPc = "idle" => n <= elapsed /\ elapsed <= n + 1
    /\ delayPc = "check" => elapsed <= n + 1
    /\ delayPc = "check" /\ ~ticked => elapsed <= n
    /\ delayPc = "wfi" => elapsed <= n
    /\ delayPc = "wfi" /\ ~ticked => elapsed < n
    /\ delayPc = "asleep" => elapsed <= n

DelayInv == DelayTypeOK /\ (delayPc # "idle" => Ahead) /\ Progress

LEMMA DelayInvInit == DelayInit => DelayInv
<1> SUFFICES ASSUME DelayInit PROVE DelayInv
  OBVIOUS
<1>1. ticked \in BOOLEAN /\ ~ticked
  BY DEF DelayInit
<1>2. QED
  BY <1>1, DelayAssumption DEF DelayInit, DelayInv, DelayTypeOK, Ahead, Progress

\* The remainder of the difference is the number of ticks since the call.
LEMMA DifferenceIsElapsed ==
    ASSUME DelayTypeOK, Ahead
    PROVE  (ticks - start) % TickWord = elapsed
<1>1. TickWord \in Nat \ {0} /\ elapsed \in 0 .. TickWord - 1
  BY DelayAssumption DEF DelayTypeOK
<1>2. ticks - start = elapsed \/ ticks - start = elapsed - TickWord
  BY <1>1 DEF DelayTypeOK, Ahead
<1>3. QED
  BY <1>1, <1>2, RemainderOfSmall, RemainderOfNegative

\* The counter steps on, or wraps to zero.
LEMMA NextTick ==
    ASSUME DelayTypeOK
    PROVE  (ticks + 1) % TickWord = IF ticks = TickWord - 1 THEN 0 ELSE ticks + 1
<1>1. TickWord \in Nat \ {0} /\ ticks \in 0 .. TickWord - 1
  BY DelayAssumption DEF DelayTypeOK
<1>2. CASE ticks = TickWord - 1
  <2>1. (ticks + 1) % TickWord = TickWord % TickWord /\ TickWord % TickWord = 0
    BY <1>1, <1>2
  <2>2. QED
    BY <1>2, <2>1
<1>3. CASE ticks # TickWord - 1
  <2>1. ticks + 1 \in 0 .. TickWord - 1
    BY <1>1, <1>3
  <2>2. QED
    BY <1>1, <1>3, <2>1, RemainderOfSmall
<1>4. QED
  BY <1>2, <1>3

LEMMA DelayInvStep == DelayInv /\ [DelayNext]_delayVars => DelayInv'
<1> SUFFICES ASSUME DelayInv, [DelayNext]_delayVars PROVE DelayInv'
  OBVIOUS
<1>w. TickWord \in Nat /\ TickWord >= 2 /\ Delays \subseteq 0 .. TickWord - 2
  BY DelayAssumption
<1>1. CASE SysTick
  <2>1. ticks' = IF ticks = TickWord - 1 THEN 0 ELSE ticks + 1
    BY <1>1, NextTick DEF SysTick, DelayInv
  <2>2. CASE delayPc = "idle"
    BY <1>w, <1>1, <2>1, <2>2 DEF SysTick, DelayInv, DelayTypeOK, Ahead, Progress
  <2>3. CASE delayPc # "idle"
    <3>1. elapsed' = elapsed + 1 /\ elapsed <= n
      BY <1>1, <2>3 DEF SysTick, DelayInv, DelayTypeOK, Progress
    <3>2. DelayTypeOK' /\ Ahead'
      BY <1>w, <1>1, <2>1, <2>3, <3>1 DEF SysTick, DelayInv, DelayTypeOK, Ahead
    <3>3. Progress'
      BY <1>w, <1>1, <2>3, <3>1 DEF SysTick, DelayInv, DelayTypeOK, Progress
    <3>4. QED
      BY <3>2, <3>3 DEF DelayInv
  <2>4. QED
    BY <2>2, <2>3
<1>2. ASSUME NEW k \in Delays, DelayTicks(k) PROVE DelayInv'
  <2>1. /\ delayPc' = "check" /\ elapsed' = 0 /\ n' = k /\ k \in 0 .. TickWord - 2
        /\ start' = ticks /\ ticks' = ticks /\ ticked' \in BOOLEAN
    BY <1>w, <1>2 DEF DelayTicks
  <2>2. ticks \in 0 .. TickWord - 1
    BY DEF DelayInv, DelayTypeOK
  <2>3. DelayTypeOK' /\ Ahead'
    BY <1>w, <2>1, <2>2 DEF DelayTypeOK, Ahead
  <2>4. Progress'
    BY <1>w, <2>1 DEF Progress
  <2>5. QED
    BY <2>3, <2>4 DEF DelayInv
<1>3. CASE Check
  <2>1. (ticks - start) % TickWord = elapsed
    BY <1>3, DifferenceIsElapsed DEF Check, DelayInv
  <2>2. CASE elapsed >= n
    <3>1. delayPc' = "idle"
      BY <1>3, <2>1, <2>2 DEF Check, Reached
    <3>2. QED
      BY <1>w, <1>3, <2>2, <3>1 DEF Check, DelayInv, DelayTypeOK, Ahead, Progress
  <2>3. CASE ~(elapsed >= n)
    <3>1. delayPc' = "wfi"
      BY <1>3, <2>1, <2>3 DEF Check, Reached
    <3>2. elapsed < n
      BY <1>w, <2>3 DEF DelayInv, DelayTypeOK
    <3>3. DelayTypeOK' /\ Ahead'
      BY <1>3, <3>1 DEF Check, DelayInv, DelayTypeOK, Ahead
    <3>4. Progress'
      BY <1>w, <1>3, <3>1, <3>2 DEF Check, DelayInv, DelayTypeOK, Progress
    <3>5. QED
      BY <3>3, <3>4 DEF DelayInv
  <2>4. QED
    BY <2>2, <2>3
<1>4. CASE WaitForInterrupt
  BY <1>w, <1>4 DEF WaitForInterrupt, DelayInv, DelayTypeOK, Ahead, Progress
<1>5. CASE UNCHANGED delayVars
  BY <1>5 DEF delayVars, DelayInv, DelayTypeOK, Ahead, Progress
<1>6. QED
  BY <1>1, <1>2, <1>3, <1>4, <1>5 DEF DelayNext

LEMMA DelayInvariant == DelaySpec => []DelayInv
<1>1. QED
  BY DelayInvInit, DelayInvStep, PTL DEF DelaySpec

\* A delay is never short, and long by one tick at most, although the tick
\* counter wraps and a tick may be slept through.
THEOREM DelayIsBounded == DelaySpec => []DelayBounded
<1>1. DelayInv => DelayBounded
  BY DelayAssumption DEF DelayInv, DelayTypeOK, Progress, DelayBounded
<1>2. QED
  BY <1>1, DelayInvariant, PTL

-----------------------------------------------------------------------------
(* The learning ledger. *)

Attempt == [item : Items, date : 0 .. LastDay, kind : Kind, outcome : Outcome,
            ready : BOOLEAN]

\* No rule looks at a later row, so a ledger that log has checked stays valid.
LedgerInv == rows \in Seq(Attempt) /\ CheckRows(rows)

LEMMA LedgerInvInit == LedgerInit => LedgerInv
<1> SUFFICES ASSUME LedgerInit PROVE LedgerInv
  OBVIOUS
<1>1. rows = <<>> /\ <<>> \in Seq(Attempt)
  BY DEF LedgerInit
<1>2. DOMAIN rows = {}
  BY <1>1
<1>3. QED
  BY <1>1, <1>2 DEF LedgerInv, CheckRows

LEMMA LedgerInvStep == LedgerInv /\ [LedgerNext]_ledgerVars => LedgerInv'
<1> SUFFICES ASSUME LedgerInv, [LedgerNext]_ledgerVars PROVE LedgerInv'
  OBVIOUS
<1>1. ASSUME NEW item \in Items, NEW date \in 0 .. LastDay, NEW kind \in Kind,
             NEW outcome \in Outcome, NEW ready \in BOOLEAN,
             Log(Row(item, date, kind, outcome, ready))
      PROVE  LedgerInv'
  <2> DEFINE row == Row(item, date, kind, outcome, ready)
  <2>1. row \in Attempt
    BY DEF Row, Attempt
  <2>2. CheckRows(Append(rows, row)) /\ rows' = Append(rows, row)
    BY <1>1 DEF Log
  <2> HIDE DEF row
  <2>3. Append(rows, row) \in Seq(Attempt)
    BY <2>1 DEF LedgerInv
  <2>4. QED
    BY <2>2, <2>3 DEF LedgerInv
<1>2. CASE NextDay
  BY <1>2 DEF NextDay, LedgerInv
<1>3. CASE UNCHANGED ledgerVars
  BY <1>3 DEF ledgerVars, LedgerInv
<1>4. QED
  BY <1>1, <1>2, <1>3 DEF LedgerNext

LEMMA LedgerInvariant == LedgerSpec => []LedgerInv
<1>1. QED
  BY LedgerInvInit, LedgerInvStep, PTL DEF LedgerSpec

\* Readiness rests on two rows of the same item, since the row of the 30 days
\* was itself checked against the ones before it.
LEMMA CheckedMeansReady == LedgerInv => ReadyTakesThirtyDays
<1> SUFFICES ASSUME LedgerInv, NEW i \in DOMAIN rows, rows[i].ready
             PROVE  \E j, k \in 1 .. i - 1 :
                       /\ j < k /\ rows[j].item = rows[i].item
                       /\ rows[k].item = rows[i].item
                       /\ IsSuccess(rows[j]) /\ Independent(rows[k])
                       /\ rows[k].date - rows[j].date >= Days30
  BY DEF ReadyTakesThirtyDays
<1>1. DOMAIN rows = 1 .. Len(rows) /\ Len(rows) \in Nat
  BY DEF LedgerInv
<1>2. ReadyAllowed(Before(rows, i), rows[i])
  BY DEF LedgerInv, CheckRows, CheckRow
<1>3. PICK k \in 1 .. i - 1 : /\ rows[k].item = rows[i].item
                              /\ rows[k].kind = "retention30" /\ Independent(rows[k])
  BY <1>2 DEF ReadyAllowed, Before
<1>4. k \in DOMAIN rows
  BY <1>1, <1>3
<1>5. "retention30" \in DOMAIN Days /\ Days["retention30"] = Days30
  BY DEF Days
<1>6. IntervalReached(Before(rows, k), rows[k])
  BY <1>3, <1>4, <1>5 DEF LedgerInv, CheckRows, CheckRow
<1>7. PICK j \in 1 .. k - 1 : /\ rows[j].item = rows[k].item /\ IsSuccess(rows[j])
                              /\ rows[k].date - rows[j].date >= Days[rows[k].kind]
  BY <1>6 DEF IntervalReached, Anchors, Before
<1>8. j \in 1 .. i - 1 /\ j < k
  BY <1>1, <1>3, <1>7
<1>9. QED
  BY <1>3, <1>5, <1>7, <1>8

\* An item is Interview Ready only 30 days after it was solved, in every ledger
\* that log has written, for every pair of intervals.
THEOREM ReadyIsEarned == LedgerSpec => []ReadyTakesThirtyDays
<1>1. QED
  BY LedgerInvariant, CheckedMeansReady, PTL

\* A set of naturals has a least member.
LEMMA LeastMember ==
    ASSUME NEW T, T \subseteq Nat, T # {}
    PROVE  \E x \in T : \A y \in T : x <= y
<1>1. PICK x \in T : \A y \in T : ~(<<y, x>> \in OpToRel(<, Nat))
  BY NatLessThanWellFounded, WFMin
<1>2. ASSUME NEW y \in T PROVE x <= y
  <2>1. x \in Nat /\ y \in Nat
    OBVIOUS
  <2>2. ~(y < x)
    BY <1>1, <2>1 DEF OpToRel
  <2>3. QED
    BY <2>1, <2>2
<1>3. QED
  BY <1>2

\* All that log has written is dated, and not in the future.
DatesPast ==
    /\ today \in 0 .. LastDay
    /\ \A i \in DOMAIN rows : rows[i].date \in Nat /\ rows[i].date <= today

LEMMA DatesPastInit == LedgerInit => DatesPast
<1> SUFFICES ASSUME LedgerInit PROVE DatesPast
  OBVIOUS
<1>1. today = 0 /\ DOMAIN rows = {}
  BY DEF LedgerInit
<1>2. QED
  BY <1>1, LedgerAssumption DEF DatesPast

LEMMA DatesPastStep == LedgerInv /\ DatesPast /\ [LedgerNext]_ledgerVars => DatesPast'
<1> SUFFICES ASSUME LedgerInv, DatesPast, [LedgerNext]_ledgerVars PROVE DatesPast'
  OBVIOUS
<1>1. ASSUME NEW item \in Items, NEW date \in 0 .. LastDay, NEW kind \in Kind,
             NEW outcome \in Outcome, NEW ready \in BOOLEAN,
             Log(Row(item, date, kind, outcome, ready))
      PROVE  DatesPast'
  <2> DEFINE row == Row(item, date, kind, outcome, ready)
  <2>1. row.date = date /\ date \in Nat
    BY DEF Row
  <2>2. date <= today /\ rows' = Append(rows, row) /\ today' = today
    BY <1>1, <2>1 DEF Log
  <2> HIDE DEF row
  <2>3. /\ DOMAIN rows = 1 .. Len(rows) /\ Len(rows) \in Nat
        /\ DOMAIN rows' = 1 .. Len(rows) + 1
        /\ \A i \in 1 .. Len(rows) : rows'[i] = rows[i]
        /\ rows'[Len(rows) + 1] = row
    BY <2>2 DEF LedgerInv
  <2>4. ASSUME NEW i \in DOMAIN rows'
        PROVE  rows'[i].date \in Nat /\ rows'[i].date <= today
    <3>1. CASE i \in 1 .. Len(rows)
      BY <2>3, <3>1 DEF DatesPast
    <3>2. CASE i = Len(rows) + 1
      BY <2>1, <2>2, <2>3, <3>2
    <3>3. QED
      BY <2>3, <3>1, <3>2
  <2>5. QED
    BY <2>2, <2>4 DEF DatesPast
<1>2. CASE NextDay
  <2>1. today' = today + 1 /\ today' \in 0 .. LastDay /\ rows' = rows
    BY <1>2, LedgerAssumption DEF NextDay, DatesPast
  <2>2. ASSUME NEW i \in DOMAIN rows
        PROVE  rows[i].date \in Nat /\ rows[i].date <= today + 1
    BY DEF DatesPast
  <2>3. QED
    BY <2>1, <2>2 DEF DatesPast
<1>3. CASE UNCHANGED ledgerVars
  BY <1>3 DEF ledgerVars, DatesPast
<1>4. QED
  BY <1>1, <1>2, <1>3 DEF LedgerNext

LEMMA DatesPastInvariant == LedgerSpec => [](LedgerInv /\ DatesPast)
<1>1. QED
  BY LedgerInvInit, LedgerInvStep, DatesPastInit, DatesPastStep, PTL DEF LedgerSpec

LEMMA LastOfAppend ==
    ASSUME NEW S, NEW s \in Seq(S), NEW e \in S
    PROVE  Append(s, e)[Len(s) + 1] = e
OBVIOUS

\* What log would take today: a ledger that is valid takes a retention attempt
\* exactly when its interval has been reached.
LEMMA RetentionTaken ==
    ASSUME LedgerInv, DatesPast, NEW item \in Items, NEW kind \in DOMAIN Days,
           NEW attempt, attempt = Row(item, today, kind, "independent", FALSE)
    PROVE  CheckRows(Append(rows, attempt)) <=>
              \E k \in DOMAIN rows : /\ Solves(k, item)
                                     /\ today - rows[k].date >= Days[kind]
<1> DEFINE longer == Append(rows, attempt)
<1>1. /\ attempt.item = item /\ attempt.date = today /\ attempt.kind = kind
      /\ attempt.ready = FALSE
  BY DEF Row
<1>2. /\ DOMAIN rows = 1 .. Len(rows) /\ Len(rows) \in Nat
      /\ DOMAIN longer = 1 .. Len(rows) + 1
      /\ \A i \in 1 .. Len(rows) : longer[i] = rows[i]
      /\ longer[Len(rows) + 1] = attempt
  <2>1. longer = Append(rows, attempt)
    OBVIOUS
  <2> HIDE DEF longer
  <2>2. rows \in Seq(Attempt) /\ attempt \in Attempt
    BY DEF LedgerInv, DatesPast, Row, Attempt, Days, Kind, Outcome
  <2>3. DOMAIN rows = 1 .. Len(rows) /\ Len(rows) \in Nat
    BY <2>2
  <2>4. DOMAIN longer = 1 .. Len(rows) + 1
    BY <2>1, <2>2
  <2>5. \A i \in 1 .. Len(rows) : longer[i] = rows[i]
    BY <2>1, <2>2
  <2>6. longer[Len(rows) + 1] = attempt
    BY <2>1, <2>2, LastOfAppend
  <2>7. QED
    BY <1>1, <2>3, <2>4, <2>5, <2>6
<1> HIDE DEF longer
<1>3. ASSUME NEW i \in 1 .. Len(rows) PROVE Before(longer, i) = Before(rows, i)
  <2>1. \A j \in 1 .. i - 1 : longer[j] = rows[j]
    BY <1>2
  <2>2. QED
    BY <2>1 DEF Before
<1>4. Before(longer, Len(rows) + 1) = {rows[j] : j \in DOMAIN rows}
  <2>1. (Len(rows) + 1) - 1 = Len(rows)
    BY <1>2
  <2>2. QED
    BY <1>2, <2>1 DEF Before
<1>5. ASSUME NEW i \in 1 .. Len(rows) PROVE CheckRow(Before(longer, i), longer[i])
  BY <1>2, <1>3 DEF LedgerInv, CheckRows
<1>6. CheckRows(longer) <=> CheckRow({rows[j] : j \in DOMAIN rows}, attempt)
  <2>1. CheckRows(longer) <=> CheckRow(Before(longer, Len(rows) + 1), attempt)
    <3>1. ASSUME CheckRow(Before(longer, Len(rows) + 1), attempt), NEW i \in DOMAIN longer
          PROVE  CheckRow(Before(longer, i), longer[i])
      <4>1. CASE i \in 1 .. Len(rows)
        BY <1>5, <4>1
      <4>2. CASE i = Len(rows) + 1
        BY <1>2, <3>1, <4>2
      <4>3. QED
        BY <1>2, <4>1, <4>2
    <3>2. ASSUME CheckRows(longer) PROVE CheckRow(Before(longer, Len(rows) + 1), attempt)
      <4>1. Len(rows) + 1 \in DOMAIN longer
        BY <1>2
      <4>2. QED
        BY <1>2, <3>2, <4>1 DEF CheckRows
    <3>3. QED
      BY <3>1, <3>2 DEF CheckRows
  <2>2. QED
    BY <1>4, <2>1
<1>7. \A r \in {rows[j] : j \in DOMAIN rows} : r.date <= attempt.date
  BY <1>1 DEF DatesPast
<1>8. kind # "first" /\ kind \in DOMAIN Days
  BY DEF Days
<1>9. CheckRow({rows[j] : j \in DOMAIN rows}, attempt)
         <=> IntervalReached({rows[j] : j \in DOMAIN rows}, attempt)
  BY <1>1, <1>7, <1>8 DEF CheckRow
<1>10. IntervalReached({rows[j] : j \in DOMAIN rows}, attempt)
         <=> \E k \in DOMAIN rows : /\ Solves(k, item)
                                    /\ today - rows[k].date >= Days[kind]
  BY <1>1 DEF IntervalReached, Anchors, Solves
<1>11. QED
  BY <1>6, <1>9, <1>10 DEF longer

\* The file is in the order of the dates, so its first success is the earliest.
LEMMA FileIsSorted ==
    ASSUME LedgerInv, DatesPast, NEW i \in DOMAIN rows, NEW k \in DOMAIN rows, i <= k
    PROVE  rows[i].date <= rows[k].date
<1>1. DOMAIN rows = 1 .. Len(rows) /\ Len(rows) \in Nat
  BY DEF LedgerInv
<1>2. CASE i = k
  BY <1>2 DEF DatesPast
<1>3. CASE i < k
  <2>1. rows[i] \in Before(rows, k)
    BY <1>1, <1>3 DEF Before
  <2>2. QED
    BY <2>1 DEF LedgerInv, CheckRows, CheckRow
<1>4. QED
  BY <1>1, <1>2, <1>3

LEMMA RemindersAgree == LedgerInv /\ DatesPast => DueIsAccepted
<1> SUFFICES ASSUME LedgerInv, DatesPast, NEW item \in Items, NEW kind \in DOMAIN Days,
                    NEW attempt, attempt = Row(item, today, kind, "independent", FALSE)
             PROVE  Due(item, kind, today) <=>
                       CheckRows(Append(rows, attempt)) /\ ~Done(item, kind, today)
  BY DEF DueIsAccepted
<1>1. DOMAIN rows = 1 .. Len(rows) /\ Len(rows) \in Nat
  BY DEF LedgerInv
<1>2. Visible(today) = DOMAIN rows
  BY DEF Visible, DatesPast
<1>3. Days[kind] \in Nat /\ today \in Nat
  BY LedgerAssumption DEF Days, DatesPast
<1>4. CheckRows(Append(rows, attempt)) <=>
         \E k \in DOMAIN rows : /\ Solves(k, item)
                                /\ today - rows[k].date >= Days[kind]
  BY RetentionTaken
<1>5. ASSUME NEW i \in DOMAIN rows, rows[i].date + Days[kind] <= today
      PROVE  today - rows[i].date >= Days[kind]
  BY <1>3, <1>5 DEF DatesPast
<1>6. Due(item, kind, today) =>
         CheckRows(Append(rows, attempt)) /\ ~Done(item, kind, today)
  BY <1>2, <1>4, <1>5 DEF Due
<1>7. ASSUME NEW k \in DOMAIN rows, Solves(k, item),
             today - rows[k].date >= Days[kind], ~Done(item, kind, today)
      PROVE  Due(item, kind, today)
  <2> DEFINE T == {i \in DOMAIN rows : Solves(i, item)}
  <2>1. T \subseteq Nat /\ T # {}
    BY <1>1, <1>7
  <2>2. PICK i \in T : \A j \in T : i <= j
    BY <2>1, LeastMember
  <2>3. i \in DOMAIN rows /\ Solves(i, item) /\ i <= k
    BY <1>7, <2>2
  <2>4. rows[i].date <= rows[k].date
    BY <2>3, FileIsSorted
  <2>5. rows[i].date + Days[kind] <= today
    BY <1>3, <1>7, <2>3, <2>4 DEF DatesPast
  <2>6. \A j \in DOMAIN rows : Solves(j, item) => i <= j
    BY <2>2
  <2>7. QED
    BY <1>2, <1>7, <2>3, <2>5, <2>6 DEF Due
<1>8. QED
  BY <1>4, <1>6, <1>7

\* Whatever has been logged, summary announces exactly the retention attempts
\* that log would take today and that have not succeeded yet.
THEOREM RemindersAreRight == LedgerSpec => []DueIsAccepted
<1>1. QED
  BY DatesPastInvariant, RemindersAgree, PTL

-----------------------------------------------------------------------------
(* The search of can_solve_bittiming is exhaustive and its ranking right,    *)
(* for every set of limits, every word, and all arguments whose products     *)
(* with the prescaler fit in a word.                                         *)

USE LimitsAssumption

-----------------------------------------------------------------------------
(* Arithmetic. *)

LEMMA ExactQuotient ==
    ASSUME NEW d \in Nat \ {0}, NEW q \in Nat
    PROVE  (d * q) % d = 0 /\ (d * q) \div d = q
OBVIOUS

LEMMA QuotientExact ==
    ASSUME NEW d \in Nat \ {0}, NEW c \in Nat, c % d = 0
    PROVE  d * (c \div d) = c
OBVIOUS

LEMMA ProductGrows ==
    ASSUME NEW a \in Nat, NEW b \in Nat, NEW r \in Nat, a <= b
    PROVE  a * r <= b * r
<1>1. b = a + (b - a) /\ b - a \in Nat
  OBVIOUS
<1> DEFINE k == b - a
<1>2. k \in Nat /\ b = a + k
  BY <1>1
<1> HIDE DEF k
<1>3. b * r = a * r + k * r
  BY <1>2
<1>4. k * r \in Nat /\ a * r \in Nat
  BY <1>2
<1>5. QED
  BY <1>3, <1>4

LEMMA SmallRemainder ==
    ASSUME NEW w \in Nat, NEW x \in Nat, x < w
    PROVE  x % w = x
OBVIOUS

LEMMA ProductOfThree ==
    ASSUME NEW a \in Nat, NEW b \in Nat, NEW c \in Nat
    PROVE  a * b * c = (a * c) * b
OBVIOUS

LEMMA ProductPositive ==
    ASSUME NEW a \in Nat \ {0}, NEW b \in Nat \ {0}
    PROVE  a * b \in Nat \ {0}
OBVIOUS

-----------------------------------------------------------------------------
(* The definitions, told of a request and not of the variable that holds it. *)

Request == [clock : Nat, rate : Nat, target : Nat]
Timing == [brp : Nat, tseg1 : Nat, tseg2 : Nat, tq : Nat, sjw : Nat]

Err(r, t1, tq) == AbsDiff(SamplePoint(t1, tq), r.target)

Exact(r, b, t1, t2, tq) ==
    /\ b \in BrpMin .. BrpMax /\ tq \in TqMin .. TqMax
    /\ t1 \in Tseg1Min .. Tseg1Max /\ t2 \in Tseg2Min .. Tseg2Max
    /\ 1 + t1 + t2 = tq /\ b * tq * r.rate = r.clock

NoWorse(r, c, t1, tq) ==
    /\ Err(r, c.tseg1, c.tq) <= Err(r, t1, tq)
    /\ Err(r, c.tseg1, c.tq) = Err(r, t1, tq) => c.tq >= tq

Sound(r, c) ==
    /\ Exact(r, c.brp, c.tseg1, c.tseg2, c.tq)
    /\ c.sjw \in 1 .. SjwMax /\ c.sjw <= c.tseg1 /\ c.sjw <= c.tseg2

Small(r) == r.clock # 0 /\ r.rate # 0 /\ BrpMax * r.rate < Word

LEMMA ErrIsInt ==
    ASSUME NEW r \in Request, NEW t1 \in Nat, NEW tq \in Nat \ {0}
    PROVE  Err(r, t1, tq) \in Int
<1>1. SamplePoint(t1, tq) \in Int /\ r.target \in Nat
  BY DEF SamplePoint, Request
<1>2. QED
  BY <1>1 DEF Err, AbsDiff

\* A product that fits in a word is what the code computes.
LEMMA DivisorIsProduct ==
    ASSUME NEW r \in Request, Small(r), NEW b \in BrpMin .. BrpMax
    PROVE  /\ (b * r.rate) % Word = b * r.rate
           /\ b * r.rate \in Nat \ {0}
<1>1. b \in Nat \ {0} /\ BrpMax \in Nat /\ b <= BrpMax /\ r.rate \in Nat \ {0}
  BY DEF Request, Small
<1>2. b * r.rate \in Nat \ {0} /\ b * r.rate <= BrpMax * r.rate /\ BrpMax * r.rate \in Nat
  BY <1>1, ProductPositive, ProductGrows
<1>3. Word \in Nat /\ b * r.rate < Word
  BY <1>2 DEF Small
<1>4. QED
  BY <1>2, <1>3, SmallRemainder

\* An exact timing makes its prescaler usable, and says how long a bit is.
LEMMA ExactIsUsable ==
    ASSUME NEW r \in Request, Small(r), NEW b, NEW t1, NEW t2, NEW tq,
           Exact(r, b, t1, t2, tq)
    PROVE  r.clock % (b * r.rate) = 0 /\ r.clock \div (b * r.rate) = tq
<1>1. b \in BrpMin .. BrpMax /\ b \in Nat /\ tq \in Nat /\ r.rate \in Nat
  BY DEF Exact, Request
<1>2. b * r.rate \in Nat \ {0}
  BY <1>1, DivisorIsProduct
<1>3. r.clock = (b * r.rate) * tq
  BY <1>1, ProductOfThree DEF Exact
<1> DEFINE d == b * r.rate
<1>4. d \in Nat \ {0} /\ r.clock = d * tq
  BY <1>2, <1>3
<1> HIDE DEF d
<1>5. r.clock % d = 0 /\ r.clock \div d = tq
  BY <1>1, <1>4, ExactQuotient
<1>6. QED
  BY <1>5 DEF d

\* The quotient of a usable prescaler is an exact bit.
LEMMA UsableIsExact ==
    ASSUME NEW r \in Request, Small(r), NEW b \in BrpMin .. BrpMax,
           r.clock % (b * r.rate) = 0
    PROVE  /\ r.clock \div (b * r.rate) \in Nat
           /\ b * (r.clock \div (b * r.rate)) * r.rate = r.clock
<1> DEFINE d == b * r.rate
<1>1. d \in Nat \ {0} /\ r.clock \in Nat /\ b \in Nat /\ r.rate \in Nat
  BY DivisorIsProduct DEF Request
<1>2. r.clock % d = 0
  OBVIOUS
<1> DEFINE q == r.clock \div d
<1>3. q \in Nat
  <2> HIDE DEF d
  <2>1. QED
    BY <1>1
<1>4. d * q = r.clock
  <2> HIDE DEF d
  <2>1. QED
    BY <1>1, <1>2, QuotientExact
<1>5. b * q * r.rate = d * q
  <2> HIDE DEF q
  <2>1. QED
    BY <1>1, <1>3, ProductOfThree
<1>6. QED
  BY <1>3, <1>4, <1>5

-----------------------------------------------------------------------------
(* The invariant. *)

SolverTypeOK ==
    /\ phase \in {"idle", "brp", "tseg1", "done"}
    /\ req \in Request /\ best \in Timing
    /\ brp \in Nat /\ tseg1 \in Nat /\ found \in BOOLEAN

\* Where the loops stand.
Control ==
    /\ phase \in {"brp", "tseg1"} => brp >= BrpMin
    /\ phase = "tseg1" => brp <= BrpMax /\ Usable /\ tseg1 >= Tseg1Min
    /\ phase = "done" => brp > BrpMax \/ req.clock = 0 \/ req.rate = 0

\* The splits that the two loops have looked at.
Visited(b, t1) == b < brp \/ (phase = "tseg1" /\ b = brp /\ t1 < tseg1)

\* The best of them, if one of them is a timing at all.
BestSoFar ==
    /\ found => Sound(req, best)
    /\ \A b \in BrpMin .. BrpMax, tq \in TqMin .. TqMax,
          t1 \in Tseg1Min .. Tseg1Max, t2 \in Tseg2Min .. Tseg2Max :
          Exact(req, b, t1, t2, tq) /\ Visited(b, t1) =>
             found /\ NoWorse(req, best, t1, tq)

SolverInv ==
    SolverTypeOK /\ Control /\ (phase # "idle" /\ Small(req) => BestSoFar)

LEMMA SolverInvInit == SolverInit => SolverInv
<1> SUFFICES ASSUME SolverInit PROVE SolverInv
  OBVIOUS
<1>1. req \in Request /\ best \in Timing
  BY DEF SolverInit, Request, Timing
<1>2. found \in BOOLEAN
  BY DEF SolverInit
<1>3. QED
  BY <1>1, <1>2 DEF SolverInit, SolverInv, SolverTypeOK, Control

LEMMA SolveKeepsInv ==
    ASSUME SolverInv, NEW clock \in Clocks, NEW rate \in Bitrates,
           NEW target \in Targets, Solve(clock, rate, target)
    PROVE  SolverInv'
<1>1. clock \in Nat /\ rate \in Nat /\ target \in Nat
  BY ArgumentsAssumption
<1>2. /\ req' \in Request /\ req'.clock = clock /\ req'.rate = rate
  BY <1>1 DEF Solve, Request
<1>3. /\ phase' = IF clock = 0 \/ rate = 0 THEN "done" ELSE "brp"
      /\ brp' = BrpMin /\ UNCHANGED <<tseg1, best>>
  BY DEF Solve
<1>4. ~found' /\ found' \in BOOLEAN
  BY DEF Solve
<1>5. SolverTypeOK'
  BY <1>2, <1>3, <1>4 DEF SolverInv, SolverTypeOK
<1>6. Control'
  BY <1>2, <1>3 DEF Control
<1>7. Small(req)' => BestSoFar'
  <2> SUFFICES ASSUME Small(req)' PROVE BestSoFar'
    OBVIOUS
  <2>1. phase' = "brp"
    BY <1>2, <1>3 DEF Small
  <2>2. QED
    BY <1>3, <1>4, <2>1 DEF BestSoFar, Visited
<1>8. QED
  BY <1>5, <1>6, <1>7 DEF SolverInv

-----------------------------------------------------------------------------
(* The two loops. *)

\* What Usable means when no product wraps.
LEMMA UsableWhenSmall ==
    ASSUME SolverInv, Small(req), brp \in BrpMin .. BrpMax
    PROVE  /\ Usable <=> /\ req.clock % (brp * req.rate) = 0
                         /\ TotalTq \in TqMin .. TqMax
           /\ TotalTq = req.clock \div (brp * req.rate)
<1>1. Divisor = brp * req.rate /\ Divisor # 0
  BY DivisorIsProduct DEF SolverInv, SolverTypeOK, Divisor
<1>2. QED
  BY <1>1 DEF Usable, TotalTq

LEMMA PrescalerKeepsInv ==
    ASSUME SolverInv, Prescaler
    PROVE  SolverInv'
<1>t. SolverTypeOK /\ Control
  BY DEF SolverInv
<1>1. phase = "brp" /\ brp >= BrpMin /\ UNCHANGED <<req, found, best>>
  BY <1>t DEF Prescaler, Control
<1>2. CASE brp > BrpMax /\ phase' = "done" /\ UNCHANGED <<brp, tseg1>>
  <2>1. SolverTypeOK' /\ Control'
    BY <1>t, <1>1, <1>2 DEF SolverTypeOK, Control
  <2>2. Small(req) => BestSoFar'
    BY <1>t, <1>1, <1>2 DEF SolverInv, BestSoFar, Visited
  <2>3. QED
    BY <1>1, <2>1, <2>2 DEF SolverInv
<1>3. CASE brp <= BrpMax /\ ~Usable /\ brp' = brp + 1 /\ UNCHANGED <<phase, tseg1>>
  <2>1. SolverTypeOK' /\ Control'
    BY <1>t, <1>1, <1>3 DEF SolverTypeOK, Control
  <2>2. ASSUME Small(req) PROVE BestSoFar'
    <3>1. brp \in BrpMin .. BrpMax
      BY <1>t, <1>1, <1>3 DEF SolverTypeOK
    <3>2. ASSUME NEW t1, NEW t2, NEW tq, Exact(req, brp, t1, t2, tq) PROVE FALSE
      <4>1. req.clock % (brp * req.rate) = 0 /\ req.clock \div (brp * req.rate) = tq
        BY <1>t, <2>2, <3>2, ExactIsUsable DEF SolverTypeOK
      <4>2. tq \in TqMin .. TqMax
        BY <3>2 DEF Exact
      <4>3. QED
        BY <1>3, <2>2, <3>1, <4>1, <4>2, UsableWhenSmall
    <3>3. found => Sound(req, best)
      BY <1>1, <2>2 DEF SolverInv, BestSoFar
    <3>4. ASSUME NEW b \in BrpMin .. BrpMax, NEW tq \in TqMin .. TqMax,
                 NEW t1 \in Tseg1Min .. Tseg1Max, NEW t2 \in Tseg2Min .. Tseg2Max,
                 Exact(req, b, t1, t2, tq), Visited(b, t1)'
          PROVE  found /\ NoWorse(req, best, t1, tq)
      <4>1. b # brp
        BY <3>2, <3>4
      <4>2. Visited(b, t1)
        BY <1>t, <1>1, <1>3, <3>4, <4>1 DEF Visited, SolverTypeOK
      <4>3. QED
        BY <1>1, <2>2, <3>4, <4>2 DEF SolverInv, BestSoFar
    <3>5. QED
      BY <1>1, <3>3, <3>4 DEF BestSoFar
  <2>3. QED
    BY <1>1, <2>1, <2>2 DEF SolverInv
<1>4. CASE /\ brp <= BrpMax /\ Usable
           /\ phase' = "tseg1" /\ tseg1' = Tseg1Min /\ UNCHANGED brp
  <2>1. SolverTypeOK'
    BY <1>t, <1>1, <1>4 DEF SolverTypeOK
  <2>2. Usable'
    BY <1>1, <1>4 DEF Usable, TotalTq, Divisor
  <2>3. Control'
    BY <1>t, <1>1, <1>4, <2>2 DEF Control
  <2>4. Small(req) => BestSoFar'
    BY <1>t, <1>1, <1>4 DEF SolverInv, BestSoFar, Visited
  <2>5. QED
    BY <1>1, <2>1, <2>3, <2>4 DEF SolverInv
<1>5. QED
  BY <1>2, <1>3, <1>4 DEF Prescaler

\* The split that is looked at is the only one with its prescaler and TSEG1.
LEMMA SplitDetermined ==
    ASSUME SolverInv, Small(req), phase = "tseg1",
           NEW t1, NEW t2, NEW tq, Exact(req, brp, t1, t2, tq)
    PROVE  tq = TotalTq /\ t1 \in Tseg1Min .. Tseg1Max /\ t1 + 1 < TotalTq
           /\ (t1 = tseg1 => t2 = Tseg2)
<1>1. brp \in BrpMin .. BrpMax /\ req \in Request
  BY DEF SolverInv, SolverTypeOK, Control
<1>2. tq = TotalTq
  BY <1>1, ExactIsUsable, UsableWhenSmall
<1>3. t1 \in Tseg1Min .. Tseg1Max /\ t2 \in Tseg2Min .. Tseg2Max /\ 1 + t1 + t2 = tq
  BY DEF Exact
<1>4. QED
  BY <1>2, <1>3 DEF Tseg2

LEMMA CandidateIsSound ==
    ASSUME SolverInv, Small(req), phase = "tseg1", tseg1 <= Tseg1Max,
           1 + tseg1 < TotalTq, Tseg2 \in Tseg2Min .. Tseg2Max
    PROVE  Candidate \in Timing /\ Sound(req, Candidate)
<1>1. /\ brp \in BrpMin .. BrpMax /\ brp \in Nat /\ req \in Request /\ Usable
      /\ tseg1 \in Tseg1Min .. Tseg1Max /\ tseg1 \in Nat \ {0}
  BY DEF SolverInv, SolverTypeOK, Control
<1>2. /\ req.clock % (brp * req.rate) = 0 /\ TotalTq \in TqMin .. TqMax
      /\ TotalTq = req.clock \div (brp * req.rate)
  BY <1>1, UsableWhenSmall
<1>3. TotalTq \in Nat /\ Tseg2 \in Nat \ {0} /\ 1 + tseg1 + Tseg2 = TotalTq
  BY <1>1, <1>2 DEF Tseg2
<1>4. brp * TotalTq * req.rate = req.clock
  BY <1>1, <1>2, UsableIsExact
<1>5. Exact(req, brp, tseg1, Tseg2, TotalTq)
  BY <1>1, <1>2, <1>3, <1>4 DEF Exact
<1> DEFINE s == Least(Least(Tseg2, SjwMax), tseg1)
<1>6. s \in 1 .. SjwMax /\ s <= tseg1 /\ s <= Tseg2
  BY <1>1, <1>3 DEF Least
<1> HIDE DEF s
<1>7. Candidate = [brp |-> brp, tseg1 |-> tseg1, tseg2 |-> Tseg2, tq |-> TotalTq, sjw |-> s]
  BY DEF Candidate, s
<1>8. QED
  BY <1>1, <1>3, <1>5, <1>6, <1>7 DEF Sound, Timing

\* Ranks are compared by accuracy and then by length, a total preorder.
LEMMA NoWorseTransitive ==
    ASSUME NEW r \in Request, NEW c \in Timing, NEW d \in Timing,
           c.tq # 0, d.tq # 0, NEW t1 \in Nat, NEW tq \in Nat \ {0},
           NoWorse(r, c, d.tseg1, d.tq), NoWorse(r, d, t1, tq)
    PROVE  NoWorse(r, c, t1, tq)
<1>1. /\ Err(r, c.tseg1, c.tq) \in Int /\ Err(r, d.tseg1, d.tq) \in Int
      /\ Err(r, t1, tq) \in Int /\ c.tq \in Nat /\ d.tq \in Nat
  BY ErrIsInt DEF Timing
<1>2. QED
  BY <1>1 DEF NoWorse

\* One turn of the inner loop that looks at a split.
LEMMA LookKeepsBest ==
    ASSUME SolverInv, Small(req), phase = "tseg1", UNCHANGED <<phase, brp, req>>,
           tseg1 <= Tseg1Max, 1 + tseg1 < TotalTq, tseg1' = tseg1 + 1,
           IF Tseg2 \in Tseg2Min .. Tseg2Max /\ Better
           THEN found' = TRUE /\ best' = Candidate
           ELSE UNCHANGED <<found, best>>
    PROVE  BestSoFar'
<1>t. /\ SolverTypeOK /\ Control /\ BestSoFar
  BY DEF SolverInv
<1>u. /\ brp \in Nat /\ tseg1 \in Nat \ {0} /\ TotalTq \in Nat \ {0} /\ req \in Request
      /\ best \in Timing
  <2>1. brp \in BrpMin .. BrpMax /\ brp \in Nat
    BY <1>t DEF SolverTypeOK, Control
  <2>2. TotalTq \in TqMin .. TqMax
    BY <1>t, <2>1, UsableWhenSmall DEF Control
  <2>3. QED
    BY <1>t, <2>1, <2>2 DEF SolverTypeOK, Control
<1>e. /\ SpError(tseg1, TotalTq) = Err(req, tseg1, TotalTq)
      /\ SpError(best.tseg1, best.tq) = Err(req, best.tseg1, best.tq)
  BY DEF SpError, Err
<1>b. found => best.tq \in Nat \ {0} /\ best.tseg1 \in Nat
  BY <1>t DEF BestSoFar, Sound, Exact
<1>v. ASSUME NEW b \in BrpMin .. BrpMax, NEW t1 \in Nat, Visited(b, t1)'
      PROVE  Visited(b, t1) \/ (b = brp /\ t1 = tseg1)
  BY <1>u, <1>v DEF Visited
<1>1. CASE Tseg2 \in Tseg2Min .. Tseg2Max /\ Better
  <2>1. best' = Candidate /\ Candidate \in Timing /\ Sound(req, Candidate)
    BY <1>1, CandidateIsSound
  <2>2. found'
    BY <1>1
  <2>3. Candidate.tseg1 = tseg1 /\ Candidate.tq = TotalTq
    BY DEF Candidate
  <2>4. NoWorse(req, Candidate, tseg1, TotalTq)
    BY <1>u, <2>3, ErrIsInt DEF NoWorse
  <2>5. found => NoWorse(req, Candidate, best.tseg1, best.tq)
    <3> SUFFICES ASSUME found PROVE NoWorse(req, Candidate, best.tseg1, best.tq)
      OBVIOUS
    <3>1. Err(req, tseg1, TotalTq) \in Int /\ Err(req, best.tseg1, best.tq) \in Int
      BY <1>u, <1>b, ErrIsInt
    <3>2. \/ Err(req, tseg1, TotalTq) < Err(req, best.tseg1, best.tq)
          \/ /\ Err(req, tseg1, TotalTq) = Err(req, best.tseg1, best.tq)
             /\ TotalTq > best.tq
      BY <1>1, <1>e DEF Better
    <3>3. QED
      BY <1>u, <1>b, <2>3, <3>1, <3>2 DEF NoWorse
  <2>6. ASSUME NEW b \in BrpMin .. BrpMax, NEW tq \in TqMin .. TqMax,
               NEW t1 \in Tseg1Min .. Tseg1Max, NEW t2 \in Tseg2Min .. Tseg2Max,
               Exact(req, b, t1, t2, tq), Visited(b, t1)'
        PROVE  NoWorse(req, Candidate, t1, tq)
    <3>1. t1 \in Nat /\ tq \in Nat \ {0}
      OBVIOUS
    <3>2. CASE Visited(b, t1)
      <4>1. found /\ NoWorse(req, best, t1, tq)
        BY <1>t, <2>6, <3>2 DEF BestSoFar
      <4>2. Candidate.tq # 0 /\ best.tq # 0
        BY <1>u, <1>b, <2>3, <4>1
      <4>3. QED
        BY <1>u, <2>1, <2>5, <3>1, <4>1, <4>2, NoWorseTransitive
    <3>3. CASE b = brp /\ t1 = tseg1
      BY <2>4, <2>6, <3>3, SplitDetermined
    <3>4. QED
      BY <1>v, <2>6, <3>1, <3>2, <3>3
  <2>7. QED
    BY <2>1, <2>2, <2>6 DEF BestSoFar
<1>2. CASE ~(Tseg2 \in Tseg2Min .. Tseg2Max /\ Better)
  <2>1. UNCHANGED <<found, best>>
    BY <1>2
  <2>2. ASSUME NEW b \in BrpMin .. BrpMax, NEW tq \in TqMin .. TqMax,
               NEW t1 \in Tseg1Min .. Tseg1Max, NEW t2 \in Tseg2Min .. Tseg2Max,
               Exact(req, b, t1, t2, tq), Visited(b, t1)'
        PROVE  found /\ NoWorse(req, best, t1, tq)
    <3>1. t1 \in Nat
      OBVIOUS
    <3>2. CASE Visited(b, t1)
      BY <1>t, <2>2, <3>2 DEF BestSoFar
    <3>3. CASE b = brp /\ t1 = tseg1
      <4>1. t2 = Tseg2 /\ tq = TotalTq
        BY <2>2, <3>3, SplitDetermined
      <4>2. ~Better
        BY <1>2, <4>1
      <4>3. found
        BY <4>2 DEF Better
      <4>4. /\ ~(Err(req, tseg1, TotalTq) < Err(req, best.tseg1, best.tq))
            /\ Err(req, tseg1, TotalTq) = Err(req, best.tseg1, best.tq)
                  => ~(TotalTq > best.tq)
        BY <1>e, <4>2 DEF Better
      <4>5. Err(req, tseg1, TotalTq) \in Int /\ Err(req, best.tseg1, best.tq) \in Int
        BY <1>u, <1>b, <4>3, ErrIsInt
      <4>6. NoWorse(req, best, tseg1, TotalTq)
        BY <1>u, <1>b, <4>3, <4>4, <4>5 DEF NoWorse
      <4>7. QED
        BY <3>3, <4>1, <4>3, <4>6
    <3>4. QED
      BY <1>v, <2>2, <3>1, <3>2, <3>3
  <2>3. found => Sound(req, best)
    BY <1>t DEF BestSoFar
  <2>4. QED
    BY <2>1, <2>2, <2>3 DEF BestSoFar
<1>3. QED
  BY <1>1, <1>2

LEMMA SplitKeepsInv ==
    ASSUME SolverInv, Split
    PROVE  SolverInv'
<1>t. SolverTypeOK /\ Control
  BY DEF SolverInv
<1>1. phase = "tseg1" /\ req' = req
  BY DEF Split
<1>u. Divisor' = (brp' * req.rate) % Word
  BY <1>1 DEF Divisor
<1>2. CASE /\ tseg1 > Tseg1Max \/ 1 + tseg1 >= TotalTq
           /\ phase' = "brp" /\ brp' = brp + 1
           /\ UNCHANGED <<tseg1, found, best>>
  <2>1. SolverTypeOK' /\ Control'
    BY <1>t, <1>1, <1>2 DEF SolverTypeOK, Control
  <2>2. ASSUME Small(req) PROVE BestSoFar'
    <3>1. BestSoFar
      BY <1>1, <2>2 DEF SolverInv
    <3>2. ASSUME NEW b \in BrpMin .. BrpMax, NEW tq \in TqMin .. TqMax,
                 NEW t1 \in Tseg1Min .. Tseg1Max, NEW t2 \in Tseg2Min .. Tseg2Max,
                 Exact(req, b, t1, t2, tq), Visited(b, t1)'
          PROVE  found /\ NoWorse(req, best, t1, tq)
      <4>1. b < brp \/ b = brp
        BY <1>t, <1>2, <3>2 DEF Visited, SolverTypeOK
      <4>2. ASSUME b = brp PROVE t1 < tseg1
        <5>1. t1 \in Tseg1Min .. Tseg1Max /\ t1 + 1 < TotalTq /\ tq = TotalTq
          BY <1>1, <2>2, <3>2, <4>2, SplitDetermined
        <5>2. TotalTq \in Nat /\ t1 \in Nat /\ tseg1 \in Nat
          BY <1>t, <5>1 DEF SolverTypeOK
        <5>3. QED
          BY <1>2, <5>1, <5>2
      <4>3. Visited(b, t1)
        BY <1>1, <4>1, <4>2 DEF Visited
      <4>4. QED
        BY <3>1, <3>2, <4>3 DEF BestSoFar
    <3>3. QED
      BY <1>1, <1>2, <3>1, <3>2 DEF BestSoFar
  <2>3. QED
    BY <1>1, <2>1, <2>2 DEF SolverInv
<1>3. CASE /\ tseg1 <= Tseg1Max /\ 1 + tseg1 < TotalTq
           /\ tseg1' = tseg1 + 1
           /\ IF Tseg2 \in Tseg2Min .. Tseg2Max /\ Better
              THEN found' = TRUE /\ best' = Candidate
              ELSE UNCHANGED <<found, best>>
           /\ UNCHANGED <<phase, brp>>
  <2>1. found' \in BOOLEAN
    BY <1>t, <1>3 DEF SolverTypeOK
  <2>2. best' \in Timing
    <3>1. TotalTq \in Nat /\ tseg1 \in Nat /\ brp \in Nat
      BY <1>t, <1>1 DEF SolverTypeOK, Control, Usable
    <3>2. Tseg2 \in Nat
      BY <1>3, <3>1 DEF Tseg2
    <3>3. Least(Least(Tseg2, SjwMax), tseg1) \in Nat
      BY <3>1, <3>2 DEF Least
    <3>4. Candidate \in Timing
      BY <3>1, <3>2, <3>3 DEF Candidate, Timing
    <3>5. QED
      BY <1>t, <1>3, <3>4 DEF SolverTypeOK
  <2>3. SolverTypeOK'
    BY <1>t, <1>1, <1>3, <2>1, <2>2 DEF SolverTypeOK
  <2>4. Usable'
    BY <1>t, <1>1, <1>3 DEF Control, Usable, TotalTq, Divisor
  <2>5. Control'
    BY <1>t, <1>1, <1>3, <2>4 DEF SolverTypeOK, Control
  <2>6. Small(req) => BestSoFar'
    BY <1>1, <1>3, LookKeepsBest
  <2>7. QED
    BY <1>1, <1>3, <2>3, <2>5, <2>6 DEF SolverInv
<1>4. QED
  BY <1>2, <1>3 DEF Split

LEMMA SolverInvStep == SolverInv /\ [SolverNext]_solverVars => SolverInv'
<1> SUFFICES ASSUME SolverInv, [SolverNext]_solverVars PROVE SolverInv'
  OBVIOUS
<1>1. CASE \E clock \in Clocks, rate \in Bitrates, target \in Targets :
              Solve(clock, rate, target)
  BY <1>1, SolveKeepsInv
<1>2. CASE Prescaler
  BY <1>2, PrescalerKeepsInv
<1>3. CASE Split
  BY <1>3, SplitKeepsInv
<1>4. CASE UNCHANGED solverVars
  <2>1. Usable' <=> Usable
    BY <1>4 DEF solverVars, Usable, TotalTq, Divisor
  <2>2. SolverTypeOK' /\ Control'
    BY <1>4, <2>1 DEF solverVars, SolverInv, SolverTypeOK, Control
  <2>3. BestSoFar => BestSoFar'
    BY <1>4 DEF solverVars, BestSoFar, Visited
  <2>4. QED
    BY <1>4, <2>2, <2>3 DEF solverVars, SolverInv
<1>5. QED
  BY <1>1, <1>2, <1>3, <1>4 DEF SolverNext

LEMMA SolverInvariant == SolverSpec => []SolverInv
<1>1. QED
  BY SolverInvInit, SolverInvStep, PTL DEF SolverSpec

\* Whenever no product can wrap, can_solve_bittiming finds the best timing that
\* the controller can be given, and fails only when there is none.
THEOREM SearchIsOptimal == SolverSpec => []SolverFindsBest
<1>1. SolverInv => SolverFindsBest
  <2> SUFFICES ASSUME SolverInv, phase = "done", req.clock # 0, req.rate # 0,
                      BrpMax * req.rate < Word
               PROVE  SolverFindsBest
    BY DEF SolverFindsBest
  <2>1. BestSoFar /\ brp > BrpMax /\ brp \in Nat
    BY DEF SolverInv, Small, Control, SolverTypeOK
  <2>2. ASSUME NEW b \in BrpMin .. BrpMax, NEW tq \in TqMin .. TqMax,
               NEW t1 \in Tseg1Min .. Tseg1Max, NEW t2 \in Tseg2Min .. Tseg2Max,
               Legal(b, t1, t2, tq)
        PROVE  /\ found
               /\ SpError(best.tseg1, best.tq) <= SpError(t1, tq)
               /\ SpError(best.tseg1, best.tq) = SpError(t1, tq) => best.tq >= tq
    <3>1. Exact(req, b, t1, t2, tq)
      BY <2>2 DEF Legal, Exact
    <3>2. Visited(b, t1)
      BY <2>1 DEF Visited
    <3>3. found /\ NoWorse(req, best, t1, tq)
      BY <2>1, <3>1, <3>2 DEF BestSoFar
    <3>4. QED
      BY <3>3 DEF NoWorse, Err, SpError
  <2>3. found => /\ Legal(best.brp, best.tseg1, best.tseg2, best.tq)
                 /\ best.sjw \in 1 .. SjwMax
                 /\ best.sjw <= best.tseg1 /\ best.sjw <= best.tseg2
    BY <2>1 DEF BestSoFar, Sound, Exact, Legal
  <2>4. QED
    BY <2>2, <2>3 DEF SolverFindsBest
<1>2. QED
  BY <1>1, SolverInvariant, PTL

=============================================================================
