---------------------------- MODULE MCIsoTpLink ----------------------------
(* IsoTpLink for TLC: frames of 3 bytes, so that a first frame carries one   *)
(* byte and a consecutive frame two, and small sequence numbers.             *)
EXTENDS IsoTpLink, TLC

CONSTANT Other  \* a byte that no sender of the model sends

MCByte == ((1 .. MaxMsgs) \X (1 .. MaxPayload)) \cup {Pad, Other}

MCLengths == 1 .. MaxPayload

F(pci, dlc, n, bs, data) ==
    [pci |-> pci, dlc |-> dlc, n |-> n, bs |-> bs, data |-> data]

\* One foreign frame for every case of isotp_rx_frame and
\* isotp_tx_flow_control.
MCForeign ==
    { F("SF", 0, 0, 0, <<>>),                      \* DLC 0
      F("SF", Dlc, 0, 0, <<Other, Other>>),        \* SF of length 0
      F("SF", 2, 2, 0, <<Other>>),                 \* SF longer than its frame
      F("SF", 2, 1, 0, <<Other>>),
      F("FF", 2, Dlc, 0, <<>>),                    \* short FF
      F("FF", Dlc, 1, 0, <<Other>>),               \* FF below the minimum
      F("FF", Dlc, Dlc, 0, <<Other>>),
      F("FF", Dlc, MaxPayload, 0, <<Other>>),
      F("CF", 1, 1, 0, <<>>),                      \* CF with no data
      F("CF", Dlc, 1, 0, <<Other, Other>>),
      F("CF", Dlc, 0, 0, <<Other, Other>>),
      F("reserved", Dlc, 0, 0, <<>>),
      F("FC", 2, CTS, 0, <<>>),                    \* short FC
      F("FC", Dlc, CTS, 0, <<>>),
      F("FC", Dlc, CTS, 1, <<>>),
      F("FC", Dlc, WAIT, 0, <<>>),
      F("FC", Dlc, OVFLW, 0, <<>>),
      F("FC", Dlc, 3, 0, <<>>) }

=============================================================================
