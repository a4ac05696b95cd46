------------------------------ MODULE ByteFifo ------------------------------
(***************************************************************************)
(* What the ring buffer of src/vban_common/ringbuffer.h promises to the    *)
(* one thread that writes it and the one thread that reads it: a bounded   *)
(* FIFO of bytes.  Bytes are named by their position in the stream the     *)
(* writer hands over (1, 2, 3, ...), so that a lost, repeated, reordered   *)
(* or overwritten byte is visible.                                         *)
(***************************************************************************)
EXTENDS Integers, Sequences

CONSTANT Capacity   \* bytes that may be pending, a positive number

VARIABLES
    pending,   \* bytes put and not yet taken, oldest first
    output     \* every byte taken so far, in the order it was taken

fifoVars == <<pending, output>>

FifoInit ==
    /\ pending = << >>
    /\ output = << >>

(* The writer makes its next n bytes available in one step. *)
Put(n) ==
    /\ Len(pending) + n <= Capacity
    /\ pending' = pending \o [i \in 1..n |-> Len(output) + Len(pending) + i]
    /\ UNCHANGED output

(* The reader takes the n oldest bytes in one step. *)
Get(n) ==
    /\ n <= Len(pending)
    /\ output' = output \o SubSeq(pending, 1, n)
    /\ pending' = SubSeq(pending, n + 1, Len(pending))

FifoNext == \E n \in 1..Capacity : Put(n) \/ Get(n)

FifoSpec == FifoInit /\ [][FifoNext]_fifoVars

=============================================================================
