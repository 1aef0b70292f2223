------------------------------ MODULE IsoTpTx ------------------------------
(* The sender of the ISO-TP transport: isotp_tx_begin, isotp_tx_next and    *)
(* isotp_tx_flow_control of code/portable/can/isotp.c.  tx is the           *)
(* isotp_tx_t; msg stands for the payload pointer, and byte k of message m  *)
(* is <<m, k>>.  STmin and wait_count are left out: the code stores them    *)
(* and never reads them.                                                    *)
EXTENDS IsoTpFrame

VARIABLE tx

TxState == [ state : {"NONE", "IDLE", "WAIT_FC", "SENDING", "DONE", "ABORTED"},
             msg : Nat,
             len : 0 .. MaxPayload,
             sent : 0 .. MaxPayload,
             nextSn : 0 .. SnMod - 1,
             blockSize : Nat,
             cfInBlock : Nat ]

Payload(m, len) == [k \in 1 .. len |-> <<m, k>>]

\* The structure before the first isotp_tx_begin ("NONE" is no code state).
TxInit ==
    tx = [ state |-> "NONE", msg |-> 0, len |-> 0, sent |-> 0, nextSn |-> 0,
           blockSize |-> 0, cfInBlock |-> 0 ]

\* Mutant: the first consecutive frame is numbered 0.
TxBegin_SnZero(m, len) ==
    /\ len \in 1 .. MaxPayload
    /\ tx' = [ state |-> "IDLE", msg |-> m, len |-> len, sent |-> 0,
               nextSn |-> 0, blockSize |-> 0, cfInBlock |-> 0 ]

\* isotp_tx_begin, accepted.
TxBegin(m, len) ==
    /\ len \in 1 .. MaxPayload
    /\ tx' = [ state |-> "IDLE", msg |-> m, len |-> len, sent |-> 0,
               nextSn |-> 1, blockSize |-> 0, cfInBlock |-> 0 ]

\* count bytes of the payload from the unsent part on, padded to a size.
Slice(count, size) ==
    [ k \in 1 .. size |-> IF k <= count THEN <<tx.msg, tx.sent + k>> ELSE Pad ]

SingleFrame ==
    [ pci |-> "SF", dlc |-> Dlc, n |-> tx.len, bs |-> 0,
      data |-> Slice(tx.len, CfData) ]

FirstFrame ==
    [ pci |-> "FF", dlc |-> Dlc, n |-> tx.len, bs |-> 0,
      data |-> Slice(FfData, FfData) ]

\* The bytes the next consecutive frame carries.
TxTake == IF tx.len - tx.sent > CfData THEN CfData ELSE tx.len - tx.sent

ConsecutiveFrame ==
    [ pci |-> "CF", dlc |-> Dlc, n |-> tx.nextSn, bs |-> 0,
      data |-> Slice(TxTake, CfData) ]

-----------------------------------------------------------------------------
(* isotp_tx_next *)

TxSingle ==
    /\ tx.state = "IDLE" /\ tx.len <= CfData
    /\ tx' = [tx EXCEPT !.sent = tx.len, !.state = "DONE"]

\* Mutant: consecutive frames follow without waiting for flow control.
TxFirst_NoWait ==
    /\ tx.state = "IDLE" /\ tx.len > CfData
    /\ tx' = [tx EXCEPT !.sent = FfData, !.state = "SENDING"]

TxFirst ==
    /\ tx.state = "IDLE" /\ tx.len > CfData
    /\ tx' = [tx EXCEPT !.sent = FfData, !.state = "WAIT_FC"]

\* Mutant: one frame more than the block the receiver granted.
BlockSent_Late == tx.blockSize # 0 /\ tx.cfInBlock > tx.blockSize

BlockSent == tx.blockSize # 0 /\ tx.cfInBlock >= tx.blockSize

\* A block is used up: no frame goes out, another flow control is awaited.
TxEndBlock ==
    /\ tx.state = "SENDING" /\ BlockSent
    /\ tx' = [tx EXCEPT !.state = "WAIT_FC"]

TxConsecutive ==
    /\ tx.state = "SENDING" /\ ~BlockSent
    /\ tx' = [tx EXCEPT !.sent = tx.sent + TxTake,
                        !.nextSn = (tx.nextSn + 1) % SnMod,
                        !.cfInBlock = tx.cfInBlock + 1,
                        !.state = IF tx.sent + TxTake >= tx.len
                                  THEN "DONE" ELSE "SENDING"]

-----------------------------------------------------------------------------
(* isotp_tx_flow_control *)

\* Mutant: flow control is accepted only while sending.
FcIgnorable_Waiting(f) == f.dlc < 3 \/ f.pci # "FC" \/ tx.state # "SENDING"

\* The early returns: a short frame, another PDU, nothing in progress.
FcIgnorable(f) ==
    \/ f.dlc < 3
    \/ f.pci # "FC"
    \/ tx.state \notin {"WAIT_FC", "SENDING"}

TxIgnore(f) == FcIgnorable(f) /\ UNCHANGED tx

\* Mutant: the count of the old block goes on in the new one.
TxContinue_NoReset(f) ==
    /\ ~FcIgnorable(f) /\ f.n = CTS
    /\ tx' = [tx EXCEPT !.blockSize = f.bs, !.state = "SENDING"]

TxContinue(f) ==
    /\ ~FcIgnorable(f) /\ f.n = CTS
    /\ tx' = [tx EXCEPT !.blockSize = f.bs, !.cfInBlock = 0,
                        !.state = "SENDING"]

TxWait(f) ==
    /\ ~FcIgnorable(f) /\ f.n = WAIT
    /\ tx' = [tx EXCEPT !.state = "WAIT_FC"]

\* OVFLW, or a flow status nobody defined.
TxAbort(f) ==
    /\ ~FcIgnorable(f) /\ f.n \notin {CTS, WAIT}
    /\ tx' = [tx EXCEPT !.state = "ABORTED"]

TxFlowControl(f) == TxIgnore(f) \/ TxContinue(f) \/ TxWait(f) \/ TxAbort(f)

-----------------------------------------------------------------------------
TxTypeOK == tx \in TxState

=============================================================================
