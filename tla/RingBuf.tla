------------------------------ MODULE RingBuf ------------------------------
(* The byte ring buffer of code/portable/ringbuf/ringbuf.h.  The indices run *)
(* free and wrap at Wrap (2^32); an access takes them modulo Capacity        *)
(* (RB_CAPACITY, 64).  Both are powers of two, of which only "Capacity       *)
(* divides Wrap" matters.                                                    *)
(* rb_get is one action per access to shared memory, since an interrupt can  *)
(* come between any two of them; rb_put is here in one piece, the way an     *)
(* interrupt handler executes it, and step by step in SpscRing.              *)
EXTENDS Integers

CONSTANTS
    Capacity,  \* RB_CAPACITY
    Wrap,      \* the indices are stored modulo this
    Byte,      \* what is put
    Garbage    \* what memory holds before anything is put

ASSUME RingBufAssumption ==
    /\ Capacity \in Nat \ {0} /\ Wrap \in Nat
    /\ Wrap % Capacity = 0 /\ Wrap > Capacity
    /\ Garbage \notin Byte

VARIABLES
    buf, head, tail,  \* ringbuf_t
    c,                \* the consumer in rb_get: where it is, and its locals
    getOk, got        \* what the last rb_get returned, and *out

ringVars == <<buf, head, tail>>
getVars == <<c, getOk, got>>

Index == 0 .. Wrap - 1

Minus(a, b) == (a - b) % Wrap

\* Mutant: the index never wraps.
Succ_NoWrap(a) == a + 1

Succ(a) == (a + 1) % Wrap

Slot(i) == i % Capacity

\* rb_count
Count == Minus(head, tail)

\* Mutant: one byte more than there is room for.
Full_Late(h, t) == Minus(h, t) > Capacity

\* The test of rb_full and rb_put.
Full(h, t) == Minus(h, t) >= Capacity

\* rb_init, with the consumer outside rb_get.
RbInit ==
    /\ head = 0 /\ tail = 0
    /\ buf = [i \in 0 .. Capacity - 1 |-> Garbage]
    /\ c = [pc |-> "idle", tail |-> 0, byte |-> Garbage]
    /\ getOk = FALSE /\ got = Garbage

-----------------------------------------------------------------------------
(* rb_put, uninterrupted: it returns true, or false. *)

RbPutAccepts(b) ==
    /\ ~Full(head, tail)
    /\ buf' = [buf EXCEPT ![Slot(head)] = b]
    /\ head' = Succ(head)
    /\ UNCHANGED tail

RbPutRefuses == Full(head, tail) /\ UNCHANGED ringVars

-----------------------------------------------------------------------------
(* rb_get *)

GetLoad ==
    /\ c.pc = "idle"
    /\ c' = [c EXCEPT !.pc = "check", !.tail = tail]
    /\ UNCHANGED <<ringVars, getOk, got>>

GetEmpty ==
    /\ c.pc = "check" /\ head = c.tail
    /\ c' = [c EXCEPT !.pc = "idle"]
    /\ getOk' = FALSE
    /\ UNCHANGED <<ringVars, got>>

GetNonEmpty ==
    /\ c.pc = "check" /\ head # c.tail
    /\ c' = [c EXCEPT !.pc = "copy"]
    /\ UNCHANGED <<ringVars, getOk, got>>

\* Mutant: the slot is given back before the byte is read.
GetCopy_Late ==
    /\ c.pc = "copy"
    /\ tail' = Succ(c.tail)
    /\ c' = [c EXCEPT !.pc = "publish"]
    /\ UNCHANGED <<buf, head, getOk, got>>

GetCopy ==
    /\ c.pc = "copy"
    /\ c' = [c EXCEPT !.pc = "publish", !.byte = buf[Slot(c.tail)]]
    /\ UNCHANGED <<ringVars, getOk, got>>

GetPublish ==
    /\ c.pc = "publish"
    /\ tail' = Succ(c.tail)
    /\ c' = [c EXCEPT !.pc = "idle"]
    /\ getOk' = TRUE /\ got' = c.byte
    /\ UNCHANGED <<buf, head>>

RbGet == GetLoad \/ GetEmpty \/ GetNonEmpty \/ GetCopy \/ GetPublish

=============================================================================
