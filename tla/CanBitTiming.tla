---------------------------- MODULE CanBitTiming ----------------------------
(* code/portable/can/can_bittiming.c: can_solve_bittiming, called with any   *)
(* arguments, one step per turn of its two loops.                            *)
EXTENDS Naturals

CONSTANTS
    Word,                   \* 2^32
    BrpMin, BrpMax,         \* can_btl_limits_t
    Tseg1Min, Tseg1Max,
    Tseg2Min, Tseg2Max,
    SjwMax,
    TqMin, TqMax,
    Clocks, Bitrates, Targets    \* bounds: the arguments it is called with

\* What CAN_LIMITS_BXCAN satisfies, and what keeps the other products of the
\* code below a word.
ASSUME LimitsAssumption ==
    /\ BrpMin \in Nat \ {0} /\ BrpMax \in Nat /\ BrpMax < Word
    /\ Tseg1Min \in Nat \ {0} /\ Tseg1Max \in Nat
    /\ Tseg2Min \in Nat \ {0} /\ Tseg2Max \in Nat
    /\ SjwMax \in Nat \ {0} /\ TqMin \in Nat \ {0} /\ TqMax \in Nat
    /\ Word \in Nat /\ (1 + Tseg1Max) * 1000 < Word

ASSUME ArgumentsAssumption ==
    Clocks \subseteq Nat /\ Bitrates \subseteq Nat /\ Targets \subseteq Nat

VARIABLES
    phase,      \* "idle", "brp" and "tseg1" (the two loops), or "done"
    req,        \* f_can_hz, bitrate_hz and target_sp_permille
    brp, tseg1, \* the loops' variables
    found, best \* what is returned, and *out

solverVars == <<phase, req, brp, tseg1, found, best>>

SolverInit ==
    /\ phase = "idle" /\ req = [clock |-> 0, rate |-> 0, target |-> 0]
    /\ brp = 0 /\ tseg1 = 0 /\ found = FALSE
    /\ best = [brp |-> 0, tseg1 |-> 0, tseg2 |-> 0, tq |-> 0, sjw |-> 0]

Solve(clock, rate, target) ==
    /\ phase \in {"idle", "done"}
    /\ req' = [clock |-> clock, rate |-> rate, target |-> target]
    /\ phase' = IF clock = 0 \/ rate = 0 THEN "done" ELSE "brp"
    /\ brp' = BrpMin /\ found' = FALSE
    /\ UNCHANGED <<tseg1, best>>

-----------------------------------------------------------------------------
\* The 32-bit product brp * bitrate_hz.
Divisor == (brp * req.rate) % Word
TotalTq == req.clock \div Divisor

\* An exact bit rate, and a bit that is neither too short nor too long.
Usable ==
    /\ Divisor # 0 /\ req.clock % Divisor = 0
    /\ TotalTq \in TqMin .. TqMax

Prescaler ==
    /\ phase = "brp"
    /\ \/ brp > BrpMax /\ phase' = "done" /\ UNCHANGED <<brp, tseg1>>
       \/ brp <= BrpMax /\ ~Usable /\ brp' = brp + 1 /\ UNCHANGED <<phase, tseg1>>
       \/ /\ brp <= BrpMax /\ Usable
          /\ phase' = "tseg1" /\ tseg1' = Tseg1Min /\ UNCHANGED brp
    /\ UNCHANGED <<req, found, best>>

\* The distance of a split's sample point from the target, in permille.
SamplePoint(t1, tq) == ((1 + t1) * 1000) \div tq
AbsDiff(a, b) == IF a > b THEN a - b ELSE b - a
SpError(t1, tq) == AbsDiff(SamplePoint(t1, tq), req.target)

Least(a, b) == IF a < b THEN a ELSE b

Tseg2 == TotalTq - 1 - tseg1

\* Mutant: the last of equally accurate splits wins, not the longest bit.
Better_LastWins ==
    ~found \/ SpError(tseg1, TotalTq) <= SpError(best.tseg1, best.tq)

\* Sample point accuracy first, then more time quanta.
Better ==
    \/ ~found
    \/ SpError(tseg1, TotalTq) < SpError(best.tseg1, best.tq)
    \/ SpError(tseg1, TotalTq) = SpError(best.tseg1, best.tq) /\ TotalTq > best.tq

Candidate ==
    [brp |-> brp, tseg1 |-> tseg1, tseg2 |-> Tseg2, tq |-> TotalTq,
     sjw |-> Least(Least(Tseg2, SjwMax), tseg1)]

Split ==
    /\ phase = "tseg1"
    /\ \/ /\ tseg1 > Tseg1Max \/ 1 + tseg1 >= TotalTq
          /\ phase' = "brp" /\ brp' = brp + 1
          /\ UNCHANGED <<tseg1, found, best>>
       \/ /\ tseg1 <= Tseg1Max /\ 1 + tseg1 < TotalTq
          /\ tseg1' = tseg1 + 1
          /\ IF Tseg2 \in Tseg2Min .. Tseg2Max /\ Better
             THEN found' = TRUE /\ best' = Candidate
             ELSE UNCHANGED <<found, best>>
          /\ UNCHANGED <<phase, brp>>
    /\ UNCHANGED req

SolverNext ==
    \/ \E clock \in Clocks, rate \in Bitrates, target \in Targets :
          Solve(clock, rate, target)
    \/ Prescaler \/ Split

SolverSpec == SolverInit /\ [][SolverNext]_solverVars

-----------------------------------------------------------------------------
(* Properties *)

\* A timing the controller accepts and that gives exactly the bit rate.
Legal(b, t1, t2, tq) ==
    /\ b \in BrpMin .. BrpMax /\ tq \in TqMin .. TqMax
    /\ t1 \in Tseg1Min .. Tseg1Max /\ t2 \in Tseg2Min .. Tseg2Max
    /\ 1 + t1 + t2 = tq /\ b * tq * req.rate = req.clock

\* As long as no product wraps (up to 4.19 Mbit/s with 32 bits and the
\* prescalers of bxCAN), a solution is found if there is one, it is legal and
\* exact, no legal timing is nearer to the sample point, none as near has more
\* time quanta, and a resynchronisation never cuts a segment to nothing.
SolverFindsBest ==
    phase = "done" /\ req.clock # 0 /\ req.rate # 0 /\ BrpMax * req.rate < Word =>
        /\ \A b \in BrpMin .. BrpMax, tq \in TqMin .. TqMax,
              t1 \in Tseg1Min .. Tseg1Max, t2 \in Tseg2Min .. Tseg2Max :
              Legal(b, t1, t2, tq) =>
                 /\ found
                 /\ SpError(best.tseg1, best.tq) <= SpError(t1, tq)
                 /\ SpError(best.tseg1, best.tq) = SpError(t1, tq) => best.tq >= tq
        /\ found =>
              /\ Legal(best.brp, best.tseg1, best.tseg2, best.tq)
              /\ best.sjw \in 1 .. SjwMax
              /\ best.sjw <= best.tseg1 /\ best.sjw <= best.tseg2

=============================================================================
