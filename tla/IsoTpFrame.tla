----------------------------- MODULE IsoTpFrame -----------------------------
(* The CAN frames of the ISO-TP transport (code/portable/can/isotp.h).      *)
(* A frame is what its PCI byte says plus the payload bytes behind it; the  *)
(* nibbles and shifts that pack the PCI are abstracted.  The widths of the  *)
(* protocol are constants, so that a check uses small ones and a proof      *)
(* covers all of them: in the code Dlc = 8, SnMod = 16, MaxPayload = 4095.  *)
EXTENDS Integers, Sequences

CONSTANTS
    Dlc,         \* ISOTP_CAN_DLC: bytes of a full CAN frame
    SnMod,       \* sequence numbers wrap modulo this (16: one nibble)
    MaxPayload,  \* ISOTP_MAX_PAYLOAD: the ceiling of the length field
    Byte,        \* the payload bytes
    Pad          \* the padding byte, 0xCC

ASSUME FrameAssumption ==
    /\ Dlc \in Nat /\ Dlc >= 3
    /\ SnMod \in Nat /\ SnMod >= 2
    /\ MaxPayload \in Nat /\ MaxPayload >= Dlc
    /\ Pad \in Byte

Pci == {"SF", "FF", "CF", "FC", "reserved"}

\* ISOTP_FS_*: what a flow-control frame tells the sender.
CTS == 0
WAIT == 1
OVFLW == 2

\* Payload bytes behind a one-byte PCI (SF, CF) and behind FF's two bytes.
CfData == Dlc - 1
FfData == Dlc - 2

ValidDlc(f) == f.dlc \in 1 .. Dlc

\* n is the length of an SF or FF, the sequence number of a CF, the flow
\* status of an FC; bs is the block size an FC carries.  The data is what is
\* really in the frame, whatever length its PCI claims.
Frame ==
    { f \in [pci : Pci, dlc : Nat, n : Nat, bs : Nat, data : Seq(Byte)] :
        /\ f.pci \in {"SF", "CF"} /\ ValidDlc(f) => Len(f.data) = f.dlc - 1
        /\ f.pci = "FF" /\ f.dlc = Dlc => Len(f.data) = FfData
        /\ f.pci = "FF" => f.n <= MaxPayload }

FcFrame(status, blockSize) ==
    [pci |-> "FC", dlc |-> Dlc, n |-> status, bs |-> blockSize, data |-> <<>>]

=============================================================================
