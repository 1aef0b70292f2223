---------------------------- MODULE IsoTpService ----------------------------
(* What an ISO-TP link promises its users, with no frames, no flow control   *)
(* and no sequence numbers: messages go in, whole messages come out, each    *)
(* once and in the order they went in.                                       *)
EXTENDS Naturals, Sequences

CONSTANTS Lengths, MaxMsgs

VARIABLES sent, delivered

serviceVars == <<sent, delivered>>

\* Message m: its bytes know where they belong.
Message(m) == [k \in 1 .. sent[m] |-> <<m, k>>]

Init == sent = <<>> /\ delivered = <<>>

Submit(len) ==
    /\ Len(sent) < MaxMsgs
    /\ sent' = Append(sent, len)
    /\ UNCHANGED delivered

Deliver ==
    /\ Len(delivered) < Len(sent)
    /\ delivered' = Append(delivered, Message(Len(delivered) + 1))
    /\ UNCHANGED sent

Next == (\E len \in Lengths : Submit(len)) \/ Deliver

Spec == Init /\ [][Next]_serviceVars /\ WF_serviceVars(Deliver)

=============================================================================
