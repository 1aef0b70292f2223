----------------------------- MODULE MCPrograms -----------------------------
(* The small programs of the repository, side by side: each behaviour runs   *)
(* one of them, so that their states add up.  They share nothing.  FrameLink *)
(* keeps its names Init, Next and vars.                                      *)
EXTENDS MCFrameLink, SpiMaster, SysTickDelay, CanBitTiming, LearningLedger

VARIABLE program

mcVars == <<program, vars, spiVars, delayVars, solverVars, ledgerVars>>

MCInit ==
    /\ program \in {"frame", "spi", "delay", "solver", "ledger"}
    /\ Init /\ SpiMasterInit /\ DelayInit /\ SolverInit /\ LedgerInit
    /\ program = "frame" \/ msg = <<>>

MCNext ==
    /\ UNCHANGED program
    /\ \/ /\ program = "frame" /\ Next
          /\ UNCHANGED <<spiVars, delayVars, solverVars, ledgerVars>>
       \/ /\ program = "spi" /\ SpiNext
          /\ UNCHANGED <<vars, delayVars, solverVars, ledgerVars>>
       \/ /\ program = "delay" /\ DelayNext
          /\ UNCHANGED <<vars, spiVars, solverVars, ledgerVars>>
       \/ /\ program = "solver" /\ SolverNext
          /\ UNCHANGED <<vars, spiVars, delayVars, ledgerVars>>
       \/ /\ program = "ledger" /\ LedgerNext
          /\ UNCHANGED <<vars, spiVars, delayVars, solverVars>>

MCSpec == MCInit /\ [][MCNext]_mcVars

=============================================================================
