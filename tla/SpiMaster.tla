------------------------------ MODULE SpiMaster ------------------------------
(* code/stm32f4/spi_master.c: spi_init, spi_transfer, spi_transfer_buf,      *)
(* spi_wait_idle, spi_cs_assert and spi_cs_release, called in any order, one *)
(* step per access to SPI1, which moves on between two accesses.  A polling  *)
(* loop that goes round changes nothing.  The budget of SPI_TIMEOUT_LOOPS    *)
(* outlasts the slowest byte (2048 clocks of the bus) many times, so a wait  *)
(* runs out only when SPI1 has nothing left to do.                           *)
EXTENDS Integers

CONSTANTS
    Pclks, Maxima,  \* bounds: what spi_init is called with
    MaxBytes,       \* bound: bytes of a spi_transfer_buf
    Ids             \* bound: numbers given to the bytes in turn

ASSUME SpiAssumption ==
    /\ Pclks \subseteq Nat /\ Maxima \subseteq Nat
    /\ MaxBytes \in Nat /\ Ids \in Nat \ {0}

VARIABLES
    clocked,        \* RCC gives GPIOA and SPI1 their clocks
    enabled, br,    \* SPE and BR in CR1
    tx, shift, rx,  \* DR on its way out, the shift register, DR on its way in
    busy,           \* SR.BSY
    odr, cs,        \* PA4: its output latch, and what the device sees
    spi,            \* the driver: where it is, and its locals
    reply           \* the last spi_transfer: its byte and what it returned

spi1Vars == <<clocked, enabled, br, tx, shift, rx, busy>>
spiVars == <<spi1Vars, odr, cs, spi, reply>>

None == 0
Filler == Ids + 1   \* 0xFF

SpiMasterInit ==
    /\ clocked = FALSE /\ enabled = FALSE /\ br = 0
    /\ tx = None /\ shift = None /\ rx = None /\ busy = FALSE
    /\ odr = "low" /\ cs = "float"
    /\ spi = [pc |-> "idle", pclk |-> 0, max |-> 0, br |-> 0, todo |-> 0, out |-> None]
    /\ reply = [out |-> None, in |-> None, clocked |-> FALSE]

-----------------------------------------------------------------------------
(* SPI1 and the device, which answers byte number n with byte number n.      *)

\* A peripheral without a clock reads as zeros.
Txe == clocked /\ tx = None
Rxne == clocked /\ rx # None
Bsy == clocked /\ busy

Load ==
    /\ enabled /\ tx # None /\ shift = None
    /\ shift' = tx /\ tx' = None /\ busy' = TRUE
    /\ UNCHANGED <<clocked, enabled, br, rx>>

\* The eighth bit is sampled; a byte that nobody has read is kept.
Shift ==
    /\ shift # None
    /\ shift' = None /\ rx' = IF rx = None THEN shift ELSE rx
    /\ UNCHANGED <<clocked, enabled, br, tx, busy>>

\* BSY clears after the last half clock, later than RXNE is set.
Settle ==
    /\ busy /\ shift = None /\ tx = None
    /\ busy' = FALSE
    /\ UNCHANGED <<clocked, enabled, br, tx, shift, rx>>

Spi1 == (Load \/ Shift \/ Settle) /\ UNCHANGED <<odr, cs, spi, reply>>

-----------------------------------------------------------------------------
(* spi_init *)

\* The clocks come on, and PA4 becomes an output with the level its latch has.
SpiInit(pclk, max) ==
    /\ spi.pc = "idle"
    /\ clocked' = TRUE /\ cs' = odr
    /\ spi' = [spi EXCEPT !.pc = "raise", !.pclk = pclk, !.max = max, !.br = 0]
    /\ UNCHANGED <<enabled, br, tx, shift, rx, busy, odr, reply>>

RaiseCs ==
    /\ spi.pc = "raise"
    /\ odr' = "high" /\ cs' = "high"
    /\ spi' = [spi EXCEPT !.pc = "divider"]
    /\ UNCHANGED <<spi1Vars, reply>>

Divider == 2 ^ (spi.br + 1)

\* Mutant: the divider whose clock is the nearest, at most half as much again.
TooFast_Nearest == 2 * (spi.pclk \div Divider) > 3 * spi.max

TooFast == spi.pclk \div Divider > spi.max

ChooseDivider ==
    /\ spi.pc = "divider"
    /\ spi' = IF TooFast /\ spi.br < 7
              THEN [spi EXCEPT !.br = spi.br + 1]
              ELSE [spi EXCEPT !.pc = "disable"]
    /\ UNCHANGED <<spi1Vars, odr, cs, reply>>

Disable ==
    /\ spi.pc = "disable"
    /\ enabled' = FALSE /\ br' = 0
    /\ spi' = [spi EXCEPT !.pc = "enable"]
    /\ UNCHANGED <<clocked, tx, shift, rx, busy, odr, cs, reply>>

Enable ==
    /\ spi.pc = "enable"
    /\ enabled' = TRUE /\ br' = spi.br
    /\ spi' = [spi EXCEPT !.pc = "idle"]
    /\ UNCHANGED <<clocked, tx, shift, rx, busy, odr, cs, reply>>

-----------------------------------------------------------------------------
(* Chip select *)

CsAssert ==
    /\ spi.pc = "idle" /\ clocked
    /\ odr' = "low" /\ cs' = "low"
    /\ UNCHANGED <<spi1Vars, spi, reply>>

CallIdle(l) ==
    /\ spi.pc = "idle" /\ spi' = [spi EXCEPT !.pc = l]
    /\ UNCHANGED <<spi1Vars, odr, cs, reply>>

\* Mutant: TXE is taken for the end of the transfer.
BusIdle_Txe == Txe

BusIdle == ~Bsy

\* spi_wait_idle, on its own and in spi_cs_release.
WaitIdle ==
    /\ spi.pc \in {"wait", "release"} /\ BusIdle
    /\ spi' = [spi EXCEPT !.pc = IF spi.pc = "wait" THEN "idle" ELSE "deselect"]
    /\ UNCHANGED <<spi1Vars, odr, cs, reply>>

\* Before spi_init the write has no effect.
Deselect ==
    /\ spi.pc = "deselect"
    /\ IF clocked THEN odr' = "high" /\ cs' = "high" ELSE UNCHANGED <<odr, cs>>
    /\ spi' = [spi EXCEPT !.pc = "idle"]
    /\ UNCHANGED <<spi1Vars, reply>>

-----------------------------------------------------------------------------
(* spi_transfer, and spi_transfer_buf, which calls it for one byte after the *)
(* other.                                                                    *)

CallTransfer(len) ==
    /\ spi.pc = "idle" /\ len > 0
    /\ spi' = [spi EXCEPT !.pc = "txe", !.todo = len]
    /\ UNCHANGED <<spi1Vars, odr, cs, reply>>

NextId == (spi.out % Ids) + 1

\* Mutant: a byte whose answer nobody wants is not waited for.
WriteDr_NoReply ==
    /\ spi.pc = "txe" /\ Txe
    /\ tx' = NextId
    /\ spi' = IF spi.todo > 1
              THEN [spi EXCEPT !.out = NextId, !.todo = spi.todo - 1]
              ELSE [spi EXCEPT !.out = NextId, !.pc = "rxne"]
    /\ UNCHANGED <<clocked, enabled, br, shift, rx, busy, odr, cs, reply>>

WriteDr ==
    /\ spi.pc = "txe" /\ Txe
    /\ tx' = NextId
    /\ spi' = [spi EXCEPT !.pc = "rxne", !.out = NextId]
    /\ UNCHANGED <<clocked, enabled, br, shift, rx, busy, odr, cs, reply>>

\* A byte is done: spi_transfer_buf goes on with the next one.
TransferReturns(in) ==
    /\ reply' = [out |-> spi.out, in |-> in, clocked |-> clocked]
    /\ spi' = [spi EXCEPT !.todo = spi.todo - 1,
                          !.pc = IF spi.todo = 1 THEN "idle" ELSE "txe"]

ReadDr ==
    /\ spi.pc = "rxne" /\ Rxne
    /\ TransferReturns(rx) /\ rx' = None
    /\ UNCHANGED <<clocked, enabled, br, tx, shift, busy, odr, cs>>

Spi1AtRest == ~clocked \/ ~enabled \/ (tx = None /\ shift = None)

\* The flag that the wait of spi_transfer polls.
Polled == IF spi.pc = "txe" THEN Txe ELSE Rxne

TimeOut ==
    /\ spi.pc \in {"txe", "rxne"} /\ ~Polled /\ Spi1AtRest
    /\ TransferReturns(Filler)
    /\ UNCHANGED <<spi1Vars, odr, cs>>

SpiCall ==
    \/ \E pclk \in Pclks, max \in Maxima : SpiInit(pclk, max)
    \/ \E len \in 0 .. MaxBytes : CallTransfer(len)
    \/ \E l \in {"wait", "release"} : CallIdle(l)
    \/ CsAssert

SpiDriver ==
    \/ RaiseCs \/ ChooseDivider \/ Disable \/ Enable
    \/ WaitIdle \/ Deselect
    \/ WriteDr \/ ReadDr \/ TimeOut

SpiNext == SpiCall \/ SpiDriver \/ Spi1

SpiSpec == SpiMasterInit /\ [][SpiNext]_spiVars

-----------------------------------------------------------------------------
(* Properties *)

\* Once SPI1 is set up, spi_transfer returns what the device sent while its own
\* byte went out, never the answer to an earlier byte and never the filler of a
\* timeout: whatever was called before, no answer stays behind in DR.
ReplyIsOwn == reply.clocked => reply.in = reply.out

\* spi_cs_release raises chip select only when the last bit of the last byte is
\* out: RXNE, on which spi_transfer returns, comes before that.
ReleaseAfterLastBit ==
    [][spi.pc = "deselect" /\ cs = "low" /\ cs' = "high"
          => ~busy /\ tx = None /\ shift = None]_<<spi1Vars, odr, cs, spi>>

\* SPI1 has finished spi_init and not begun another.
SetUp == enabled /\ spi.pc \notin {"divider", "raise", "disable"}

\* What spi_master.c:18 and :39-41 say: the clock of the bus, pclk / 2^(br + 1),
\* is never above what the device allows.
SckUnderMaximum == SetUp => spi.pclk <= spi.max * 2 ^ (br + 1)

\* What the search does find: no smaller divider keeps to the maximum in whole
\* hertz, and the chosen one does or is 256, the largest.  So the clock is
\* above the maximum by less than a hertz, or because no divider is enough, and
\* for no other reason; and it is never slower than it need be.
SckFastestAllowed ==
    SetUp =>
        /\ br = 7 \/ spi.pclk < (spi.max + 1) * 2 ^ (br + 1)
        /\ br = 0 \/ spi.pclk >= (spi.max + 1) * 2 ^ br

=============================================================================
