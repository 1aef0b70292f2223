------------------------------ MODULE SpscDemo ------------------------------
(* Example 04 (code/qemu-cortex-m/04-spsc-ring-buffer/main.c): the SysTick   *)
(* interrupt produces a repeating pattern, main consumes and checks it, then *)
(* stalls to force an overrun; the UART interrupt puts what is typed into    *)
(* the same buffer.  Interrupts come between any two steps of main and run   *)
(* to completion: both have the reset priority, so neither preempts the      *)
(* other.  Letter k of the pattern is the number k.                          *)
EXTENDS RingBuf, FiniteSets

CONSTANTS
    Period,      \* letters of the pattern (26)
    Target,      \* bytes main consumes in phase 1 (260)
    StallTicks,  \* ticks main stalls in phase 2 (200)
    MaxBurst,    \* bound: interrupts between two steps of main
    MaxTyped     \* bound: bytes typed

ASSUME DemoAssumption ==
    /\ Period \in Nat \ {0} /\ Target \in Nat /\ StallTicks \in Nat
    /\ MaxBurst \in Nat \ {0} /\ MaxTyped \in Nat
    /\ 0 .. Period - 1 \subseteq Byte

VARIABLES
    m,         \* main: where it is, and its locals
    produced, dropped, ticks,  \* g_produced, g_dropped, g_ticks
    burst,     \* interrupts since the last step of main
    typed,     \* bytes typed
    accepted   \* history: of these, the ones that rb_put accepted

counters == <<produced, dropped, ticks>>
demoVars == <<ringVars, getVars, m, counters, burst, typed, accepted>>

DemoInit ==
    /\ RbInit
    /\ m = [ pc |-> "poll", consumed |-> 0, errors |-> 0, expected |-> 0,
             highWater |-> 0, dropsBefore |-> 0, t0 |-> 0 ]
    /\ produced = 0 /\ dropped = 0 /\ ticks = 0
    /\ burst = 0 /\ typed = 0 /\ accepted = 0

-----------------------------------------------------------------------------
(* The interrupt handlers. *)

\* Mutant: a byte is counted as produced although it was dropped.
SysTickHandler_CountsDrops ==
    /\ m.pc # "done" /\ burst < MaxBurst
    /\ burst' = burst + 1 /\ ticks' = ticks + 1 /\ produced' = produced + 1
    /\ \/ RbPutAccepts(produced % Period) /\ UNCHANGED dropped
       \/ RbPutRefuses /\ dropped' = dropped + 1
    /\ UNCHANGED <<getVars, m, typed, accepted>>

\* Mutant: the clock of the timer stops while main sleeps.
SysTickHandler_StopsAsleep ==
    /\ m.pc \notin {"asleep", "done"} /\ burst < MaxBurst
    /\ burst' = burst + 1 /\ ticks' = ticks + 1
    /\ \/ /\ RbPutAccepts(produced % Period)
          /\ produced' = produced + 1 /\ UNCHANGED dropped
       \/ /\ RbPutRefuses
          /\ dropped' = dropped + 1 /\ UNCHANGED produced
    /\ UNCHANGED <<getVars, m, typed, accepted>>

\* SYSTICK_CTRL = 0 ends the ticks.
SysTickHandler ==
    /\ m.pc # "done" /\ burst < MaxBurst
    /\ burst' = burst + 1 /\ ticks' = ticks + 1
    /\ \/ /\ RbPutAccepts(produced % Period)
          /\ produced' = produced + 1 /\ UNCHANGED dropped
       \/ /\ RbPutRefuses
          /\ dropped' = dropped + 1 /\ UNCHANGED produced
    /\ UNCHANGED <<getVars, m, typed, accepted>>

\* One turn of the loop that empties the UART's receive FIFO.
UART0Handler(b) ==
    /\ m.pc # "done" /\ typed < MaxTyped /\ burst < MaxBurst
    /\ burst' = burst + 1 /\ typed' = typed + 1
    /\ \/ /\ RbPutAccepts(b)
          /\ accepted' = accepted + 1 /\ UNCHANGED dropped
       \/ /\ RbPutRefuses
          /\ dropped' = dropped + 1 /\ UNCHANGED accepted
    /\ UNCHANGED <<getVars, m, produced, ticks>>

-----------------------------------------------------------------------------
(* main *)

Goto(pc) == m' = [m EXCEPT !.pc = pc]

\* The head of the phase 1 loop, and the depth it samples.
Poll ==
    /\ m.pc = "poll"
    /\ \/ m.consumed >= Target /\ Goto("drops")
       \/ /\ m.consumed < Target
          /\ m' = [m EXCEPT !.pc = "get",
                            !.highWater = IF Count > @ THEN Count ELSE @]
    /\ UNCHANGED <<ringVars, getVars>>

Get ==
    /\ m.pc = "get"
    /\ \/ (GetLoad \/ GetNonEmpty \/ GetCopy) /\ UNCHANGED m
       \/ GetEmpty /\ Goto("wfi")
       \/ GetPublish /\ Goto("take")

Take ==
    /\ m.pc = "take"
    /\ m' = [m EXCEPT !.pc = "poll", !.consumed = @ + 1,
                      !.errors = IF got # m.expected THEN @ + 1 ELSE @,
                      !.expected = (m.consumed + 1) % Period]
    /\ UNCHANGED <<ringVars, getVars>>

\* wfi returns at the next interrupt; one that came before it does not count.
Sleep == m.pc = "wfi" /\ Goto("asleep") /\ UNCHANGED <<ringVars, getVars>>

Wake ==
    /\ m.pc = "asleep" /\ burst > 0
    /\ Goto("poll")
    /\ UNCHANGED <<ringVars, getVars>>

NoteDrops ==
    /\ m.pc = "drops"
    /\ m' = [m EXCEPT !.pc = "t0", !.dropsBefore = dropped]
    /\ UNCHANGED <<ringVars, getVars>>

\* Mutant: the stall is measured from the start of the program.
NoteTime_FromStart ==
    /\ m.pc = "t0"
    /\ m' = [m EXCEPT !.pc = "stall", !.t0 = 0]
    /\ UNCHANGED <<ringVars, getVars>>

NoteTime ==
    /\ m.pc = "t0"
    /\ m' = [m EXCEPT !.pc = "stall", !.t0 = ticks]
    /\ UNCHANGED <<ringVars, getVars>>

Stall ==
    /\ m.pc = "stall"
    /\ \/ ticks - m.t0 < StallTicks /\ UNCHANGED m
       \/ ticks - m.t0 >= StallTicks /\ Goto("report")
    /\ UNCHANGED <<ringVars, getVars>>

\* The overrun is reported and the timer stopped.
Finish == m.pc = "report" /\ Goto("done") /\ UNCHANGED <<ringVars, getVars>>

Main ==
    /\ Poll \/ Get \/ Take \/ Sleep \/ Wake \/ NoteDrops \/ NoteTime \/ Stall \/ Finish
    /\ burst' = 0
    /\ UNCHANGED <<counters, typed, accepted>>

DemoNext == SysTickHandler \/ (\E b \in Byte : UART0Handler(b)) \/ Main

\* The timer keeps running, and interrupts leave main some time.
DemoSpec ==
    DemoInit /\ [][DemoNext]_demoVars /\ WF_demoVars(SysTickHandler) /\ WF_demoVars(Main)

-----------------------------------------------------------------------------
\* No byte is lost or counted twice between the counters of the interrupt
\* handlers and the counters of main.
EveryByteAccounted ==
    produced + accepted =
        m.consumed + Count + (IF m.pc = "take" THEN 1 ELSE 0)

\* While nothing is typed main finds the pattern in order, whenever the timer
\* strikes and however many of its bytes the full buffer refused.
SequenceIntact == typed = 0 => m.errors = 0

\* The ring is known full and bytes known dropped when the stall is over ("A
\* ring buffer that never fills teaches you nothing", main.c:93).
OverrunForced ==
    StallTicks >= Capacity /\ m.pc = "report" =>
        Count = Capacity /\ dropped - m.dropsBefore >= StallTicks - Capacity

\* main comes to its end: although a byte can arrive between the failed rb_get
\* and wfi, and main then sleeps with a byte in the buffer, the timer wakes it.
MainFinishes == <>(m.pc = "done")

\* The verdict main prints: no ordering errors.
NoOrderingErrors == m.errors = 0

=============================================================================
