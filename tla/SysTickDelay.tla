---------------------------- MODULE SysTickDelay ----------------------------
(* Example 02 (code/qemu-cortex-m/02-systick-timebase/main.c): delay_ticks,  *)
(* which sleeps until the tick counter, a word that wraps, has moved on.     *)
(* SysTick_Handler runs between any two steps of main, but not twice before  *)
(* main, when it is awake, has come one step further: main takes much less   *)
(* than a tick from one to the next.                                         *)
EXTENDS Integers

CONSTANTS
    TickWord,  \* 2^32
    Delays     \* bound: what delay_ticks is called with

\* A delay of 2^32 - 1 ticks does not end when the check misses its only tick.
ASSUME DelayAssumption ==
    TickWord \in Nat /\ TickWord >= 2 /\ Delays \subseteq 0 .. TickWord - 2

VARIABLES
    ticks,           \* g_ticks
    delayPc,         \* "idle" (in the rest of main), "check", "wfi", "asleep"
    start, n,        \* the locals of delay_ticks
    ticked,          \* a tick has come since main's last step
    elapsed          \* history: ticks since the call

delayVars == <<ticks, delayPc, start, n, ticked, elapsed>>

DelayInit ==
    /\ ticks = 0 /\ delayPc = "idle" /\ start = 0 /\ n = 0
    /\ ticked = FALSE /\ elapsed = 0

\* SysTick_Handler: it ends a sleep, but not one that begins after it.
SysTick ==
    /\ ~ticked \/ delayPc \in {"idle", "asleep"}
    /\ ticks' = (ticks + 1) % TickWord
    /\ delayPc' = IF delayPc = "asleep" THEN "check" ELSE delayPc
    /\ elapsed' = IF delayPc = "idle" THEN elapsed ELSE elapsed + 1
    /\ ticked' = TRUE
    /\ UNCHANGED <<start, n>>

DelayTicks(k) ==
    /\ delayPc = "idle"
    /\ delayPc' = "check" /\ start' = ticks /\ n' = k
    /\ ticked' = FALSE /\ elapsed' = 0
    /\ UNCHANGED ticks

\* Mutant: the comparison the comment warns of, start + n in a word.
Reached_Wraps == ticks >= (start + n) % TickWord

\* The difference of two words is a word.
Reached == (ticks - start) % TickWord >= n

Check ==
    /\ delayPc = "check"
    /\ delayPc' = IF Reached THEN "idle" ELSE "wfi"
    /\ ticked' = FALSE
    /\ UNCHANGED <<ticks, start, n, elapsed>>

WaitForInterrupt ==
    /\ delayPc = "wfi"
    /\ delayPc' = "asleep" /\ ticked' = FALSE
    /\ UNCHANGED <<ticks, start, n, elapsed>>

DelayNext ==
    \/ SysTick
    \/ \E k \in Delays : DelayTicks(k)
    \/ Check
    \/ WaitForInterrupt

DelaySpec == DelayInit /\ [][DelayNext]_delayVars

-----------------------------------------------------------------------------
(* Properties *)

\* delay_ticks(n) takes n ticks, or one more when a tick comes between the
\* check and wfi and is slept through, wherever the tick counter wraps.
DelayBounded ==
    /\ elapsed <= n + 1
    /\ delayPc = "idle" => elapsed >= n

=============================================================================
