------------------------------ MODULE SpscRing ------------------------------
(* One producer and one consumer on the ring buffer of ringbuf.h, each a     *)
(* single context that calls rb_put or rb_get again and again, interleaved   *)
(* at every access to shared memory.  That covers a producer interrupt that  *)
(* preempts the consumer ("Call from exactly one context (typically the      *)
(* ISR)"), a consumer that preempts the producer, and two cores whose stores *)
(* become visible in program order.                                          *)
EXTENDS RingBuf, Sequences

VARIABLES
    p,     \* the producer in rb_put: where it is, and its locals
    putOk  \* what the last rb_put returned

vars == <<ringVars, getVars, p, putOk>>

Init ==
    /\ RbInit
    /\ p = [pc |-> "idle", head |-> 0, byte |-> Garbage]
    /\ putOk = FALSE

-----------------------------------------------------------------------------
(* rb_put *)

PutLoad(b) ==
    /\ p.pc = "idle"
    /\ p' = [pc |-> "check", head |-> head, byte |-> b]
    /\ UNCHANGED <<ringVars, putOk>>

PutFull ==
    /\ p.pc = "check" /\ Full(p.head, tail)
    /\ p' = [p EXCEPT !.pc = "idle"]
    /\ putOk' = FALSE
    /\ UNCHANGED ringVars

PutRoom ==
    /\ p.pc = "check" /\ ~Full(p.head, tail)
    /\ p' = [p EXCEPT !.pc = "store"]
    /\ UNCHANGED <<ringVars, putOk>>

\* Mutant: the index is published before the byte is stored.
PutStore_Late ==
    /\ p.pc = "store"
    /\ head' = Succ(p.head)
    /\ p' = [p EXCEPT !.pc = "publish"]
    /\ UNCHANGED <<buf, tail, putOk>>

PutStore ==
    /\ p.pc = "store"
    /\ buf' = [buf EXCEPT ![Slot(p.head)] = p.byte]
    /\ p' = [p EXCEPT !.pc = "publish"]
    /\ UNCHANGED <<head, tail, putOk>>

PutPublish ==
    /\ p.pc = "publish"
    /\ head' = Succ(p.head)
    /\ p' = [p EXCEPT !.pc = "idle"]
    /\ putOk' = TRUE
    /\ UNCHANGED <<buf, tail>>

RbPut ==
    \/ \E b \in Byte : PutLoad(b)
    \/ PutFull
    \/ PutRoom
    \/ PutStore
    \/ PutPublish

-----------------------------------------------------------------------------
Next ==
    \/ RbPut /\ UNCHANGED getVars
    \/ RbGet /\ UNCHANGED <<p, putOk>>

\* The consumer keeps polling, as the loop of example 04 does.  Nothing is
\* asked of the producer.
Consumer == RbGet /\ UNCHANGED <<p, putOk>>

Spec == Init /\ [][Next]_vars

FairSpec == Spec /\ WF_vars(Consumer)

-----------------------------------------------------------------------------
RingTypeOK ==
    /\ buf \in [0 .. Capacity - 1 -> Byte \cup {Garbage}]
    /\ head \in Index /\ tail \in Index
    /\ c \in [pc : {"idle", "check", "copy", "publish"}, tail : Index,
              byte : Byte \cup {Garbage}]
    /\ p \in [pc : {"idle", "check", "store", "publish"}, head : Index,
              byte : Byte \cup {Garbage}]
    /\ getOk \in BOOLEAN /\ putOk \in BOOLEAN /\ got \in Byte \cup {Garbage}

\* A check made with an index that the other side has moved on since still
\* holds when it is acted on: between its check and its publication each side
\* owns what it found, across the wrap at 2^32 too ("Break either assumption
\* ... and you need locking again", ringbuf.h:8).
ChecksStayTrue ==
    /\ Count <= Capacity
    /\ p.pc \in {"store", "publish"} => Count < Capacity
    /\ c.pc \in {"copy", "publish"} => Count > 0

\* The byte the producer is writing is never one the consumer may be reading:
\* the plain accesses to buf do not race.
NoSharedSlot ==
    p.pc \in {"store", "publish"} /\ c.pc \in {"copy", "publish"} =>
        Slot(p.head) # Slot(c.tail)

\* n bytes of an array from index t on.
Window(b, t, n) == [i \in 1 .. n |-> b[Slot(t + i - 1)]]

\* Everything between tail and head, oldest first.
Contents == Window(buf, tail, Count)

Fifo == INSTANCE BoundedFifo WITH queue <- Contents

\* The ring buffer is a bounded FIFO queue: a put takes effect when it
\* publishes head or finds the buffer full, a get when it publishes tail or
\* finds it empty; nothing is lost, invented, duplicated or reordered, all of
\* Capacity is usable, and what was accepted comes out of a polling consumer.
ImplementsFifo == Fifo!Spec

=============================================================================
