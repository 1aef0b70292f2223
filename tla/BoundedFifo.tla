---------------------------- MODULE BoundedFifo ----------------------------
(* What a byte ring buffer promises the two contexts that share it: a queue  *)
(* of at most Capacity bytes.  A put on a full queue is refused and a get on *)
(* an empty one fails; either leaves the queue alone.                        *)
EXTENDS Naturals, Sequences

CONSTANTS Capacity, Byte, Garbage

VARIABLES
    queue,
    putOk,      \* what the last put returned
    getOk, got  \* what the last get returned, and the byte it last gave

fifoVars == <<queue, putOk, getOk, got>>

Init ==
    /\ queue = <<>>
    /\ putOk = FALSE /\ getOk = FALSE /\ got = Garbage

Put(b) ==
    /\ Len(queue) < Capacity
    /\ queue' = Append(queue, b) /\ putOk' = TRUE
    /\ UNCHANGED <<getOk, got>>

Refuse ==
    /\ Len(queue) = Capacity
    /\ putOk' = FALSE
    /\ UNCHANGED <<queue, getOk, got>>

Get ==
    /\ queue # <<>>
    /\ queue' = Tail(queue) /\ got' = Head(queue) /\ getOk' = TRUE
    /\ UNCHANGED putOk

Fail ==
    /\ queue = <<>>
    /\ getOk' = FALSE
    /\ UNCHANGED <<queue, putOk, got>>

Next == (\E b \in Byte : Put(b)) \/ Refuse \/ Get \/ Fail

\* A consumer that keeps asking gets what is there.
Spec == Init /\ [][Next]_fifoVars /\ WF_fifoVars(Get)

=============================================================================
