------------------------------ MODULE VbanRing ------------------------------
(***************************************************************************)
(* The lock-free ring buffer of src/vban_common/ringbuffer.h: one thread   *)
(* calls ringbuffer_write (the network thread of a receptor), another one  *)
(* calls ringbuffer_read (the audio callback).                             *)
(*                                                                         *)
(* The grain is one shared access per step: a call reads the pointer of    *)
(* the other side once, copies one byte per step with memcpy, and stores   *)
(* its own pointer once per contiguous part.  A call that crosses the end  *)
(* of the storage copies and publishes two parts.                          *)
(*                                                                         *)
(* Bytes are named by their position in the writer's stream (1, 2, ...);   *)
(* 0 is a cell that was never written.                                     *)
(***************************************************************************)
EXTENDS Integers, Sequences

CONSTANTS
    Size,         \* rb->size; one cell always stays free
    WriteSizes,   \* the cnt arguments of ringbuffer_write
    ReadSizes,    \* the cnt arguments of ringbuffer_read
    MaxBytes      \* bound of the runs: length of the stream offered

ASSUME SizeAssumption == Size \in Nat \ {0, 1}
(* Every caller asks for at least a frame, a MIDI event or half a ring.     *)
ASSUME WriteSizesAssumption == WriteSizes \subseteq Nat \ {0}
ASSUME ReadSizesAssumption == ReadSizes \subseteq Nat \ {0}
ASSUME MaxBytesAssumption == MaxBytes \in Nat

VARIABLES
    buf,         \* rb->buf
    write_ptr,   \* rb->write_ptr, stored by the writer only
    read_ptr,    \* rb->read_ptr, stored by the reader only
    wpc,         \* the writer: outside a call, or in one of its two steps
    wn,          \* bytes of the contiguous part being written
    wrest,       \* n2: bytes of the part that follows it, 0 if none
    wi,          \* bytes of the part already copied by memcpy
    rpc, rn, rrest, ri,   \* the same for the reader
    sent,        \* history: bytes published by the writer
    received,    \* history: bytes released by the reader
    out          \* history: every byte the reader's memcpy has copied

ringVars == <<buf, write_ptr, read_ptr>>
writerVars == <<wpc, wn, wrest, wi>>
readerVars == <<rpc, rn, rrest, ri>>
vars == <<buf, write_ptr, read_ptr, wpc, wn, wrest, wi,
          rpc, rn, rrest, ri, sent, received, out>>

-----------------------------------------------------------------------------
(* The pointer arithmetic of the header. *)

Cells == 0 .. Size - 1

(* Defects used to test the properties: a wrapped ring read as empty, and  *)
(* the free cell given away.                                               *)
ReadSpaceNoLap(w, r) == IF w > r THEN w - r ELSE 0
WriteSpaceFullLap(w, r) ==
    IF w > r THEN (r - w + Size) % Size
    ELSE IF w < r THEN r - w
    ELSE Size - 1

(* ringbuffer_read_space *)
ReadSpace(w, r) ==
    IF w > r THEN w - r ELSE (w - r + Size) % Size

(* ringbuffer_write_space *)
WriteSpace(w, r) ==
    IF w > r THEN ((r - w + Size) % Size) - 1
    ELSE IF w < r THEN (r - w) - 1
    ELSE Size - 1

(* to_read, to_write: the request cut down to what is there. *)
AtMost(cnt, space) == IF cnt > space THEN space ELSE cnt

(* n1 and n2: the contiguous parts of n cells that start at ptr. *)
FirstPart(ptr, n) == IF ptr + n > Size THEN Size - ptr ELSE n
SecondPart(ptr, n) == IF ptr + n > Size THEN (ptr + n) % Size ELSE 0

(* The new value of a pointer after a part of n cells. *)
Advance(ptr, n) == (ptr + n) % Size

-----------------------------------------------------------------------------
(* ringbuffer_create *)
Init ==
    /\ buf = [c \in Cells |-> 0]
    /\ write_ptr = 0
    /\ read_ptr = 0
    /\ wpc = "idle" /\ wn = 0 /\ wrest = 0 /\ wi = 0
    /\ rpc = "idle" /\ rn = 0 /\ rrest = 0 /\ ri = 0
    /\ sent = 0
    /\ received = 0
    /\ out = << >>

(* ringbuffer_write up to the first memcpy: the only read of read_ptr.     *)
(* A call that finds the ring full returns 0 and changes nothing.          *)
WriteBegin(cnt) ==
    /\ wpc = "idle"
    /\ sent + cnt <= MaxBytes
    /\ LET space == WriteSpace(write_ptr, read_ptr)
           n == AtMost(cnt, space)
       IN  /\ space # 0
           /\ wn' = FirstPart(write_ptr, n)
           /\ wrest' = SecondPart(write_ptr, n)
    /\ wi' = 0
    /\ wpc' = "copy"
    /\ UNCHANGED <<ringVars, readerVars, sent, received, out>>

(* One byte of a memcpy of ringbuffer_write. *)
WriteCopy ==
    /\ wpc = "copy"
    /\ wi < wn
    /\ buf' = [buf EXCEPT ![write_ptr + wi] = sent + wi + 1]
    /\ wi' = wi + 1
    /\ UNCHANGED <<write_ptr, read_ptr, wpc, wn, wrest, readerVars,
                   sent, received, out>>

(* A defect used to test the properties: write_ptr stored before memcpy. *)
WritePublishEarly ==
    /\ wpc = "copy"
    /\ write_ptr' = Advance(write_ptr, wn)
    /\ sent' = sent + wn
    /\ wpc' = IF wrest = 0 THEN "idle" ELSE "copy"
    /\ wn' = wrest
    /\ wrest' = 0
    /\ wi' = 0
    /\ UNCHANGED <<buf, read_ptr, readerVars, received, out>>

(* The store of write_ptr after a part; the second part, if any, follows. *)
WritePublish ==
    /\ wpc = "copy"
    /\ wi = wn
    /\ write_ptr' = Advance(write_ptr, wn)
    /\ sent' = sent + wn
    /\ wpc' = IF wrest = 0 THEN "idle" ELSE "copy"
    /\ wn' = wrest
    /\ wrest' = 0
    /\ wi' = 0
    /\ UNCHANGED <<buf, read_ptr, readerVars, received, out>>

(* ringbuffer_read up to the first memcpy: the only read of write_ptr. *)
ReadBegin(cnt) ==
    /\ rpc = "idle"
    /\ LET space == ReadSpace(write_ptr, read_ptr)
           n == AtMost(cnt, space)
       IN  /\ space # 0
           /\ rn' = FirstPart(read_ptr, n)
           /\ rrest' = SecondPart(read_ptr, n)
    /\ ri' = 0
    /\ rpc' = "copy"
    /\ UNCHANGED <<ringVars, writerVars, sent, received, out>>

(* One byte of a memcpy of ringbuffer_read. *)
ReadCopy ==
    /\ rpc = "copy"
    /\ ri < rn
    /\ out' = Append(out, buf[read_ptr + ri])
    /\ ri' = ri + 1
    /\ UNCHANGED <<ringVars, writerVars, rpc, rn, rrest, sent, received>>

(* The store of read_ptr after a part. *)
ReadRelease ==
    /\ rpc = "copy"
    /\ ri = rn
    /\ read_ptr' = Advance(read_ptr, rn)
    /\ received' = received + rn
    /\ rpc' = IF rrest = 0 THEN "idle" ELSE "copy"
    /\ rn' = rrest
    /\ rrest' = 0
    /\ ri' = 0
    /\ UNCHANGED <<buf, write_ptr, writerVars, sent, out>>

Write == (\E cnt \in WriteSizes : WriteBegin(cnt)) \/ WriteCopy \/ WritePublish
Read == (\E cnt \in ReadSizes : ReadBegin(cnt)) \/ ReadCopy \/ ReadRelease

Next == Write \/ Read

Spec == Init /\ [][Next]_vars

(* The audio callback runs for ever and asks for at least a byte; a call   *)
(* of ringbuffer_write, once begun, runs to its end.  Nothing obliges the  *)
(* network to deliver, so WriteBegin has no fairness.                      *)
Fairness ==
    /\ WF_vars(Read)
    /\ WF_vars(WriteCopy \/ WritePublish)

FairSpec == Spec /\ Fairness

-----------------------------------------------------------------------------
(* Properties. *)

Fill == sent - received

(* The cell that holds the byte k places behind the read pointer. *)
Wrap(x) == IF x < Size THEN x ELSE x - Size

(* Types of the shared and local variables and of the histories. *)
TypeOK ==
    /\ buf \in [Cells -> Nat]
    /\ write_ptr \in Cells /\ read_ptr \in Cells
    /\ wpc \in {"idle", "copy"} /\ rpc \in {"idle", "copy"}
    /\ wn \in Nat /\ wrest \in Nat /\ wi \in 0..wn
    /\ rn \in Nat /\ rrest \in Nat /\ ri \in 0..rn
    /\ sent \in Nat /\ received \in Nat
    /\ out \in Seq(Nat)

(* No memcpy of either side leaves the storage, also in a call that wraps: *)
(* ringbuffer.h:295-301 and 441-447 use raw pointers into rb->buf.         *)
CopiesInBounds ==
    /\ wpc = "copy" => write_ptr + wn <= Size
    /\ rpc = "copy" => read_ptr + rn <= Size

(* The pointers alone tell how many bytes are stored: a full ring is never *)
(* taken for an empty one, whatever the laps both sides have made, and     *)
(* what one side may read plus what the other may write is always Size-1.  *)
PointersTellFill ==
    /\ Fill = ReadSpace(write_ptr, read_ptr)
    /\ ReadSpace(write_ptr, read_ptr) + WriteSpace(write_ptr, read_ptr)
         = Size - 1

(* The space a call computed from a pointer the other thread keeps moving  *)
(* is still there when the call uses it (ringbuffer.h:278 and 424 read it  *)
(* once, the copies come later).                                           *)
ReservationsHold ==
    /\ wpc = "copy" => wn + wrest <= WriteSpace(write_ptr, read_ptr)
    /\ rpc = "copy" => rn + rrest <= ReadSpace(write_ptr, read_ptr)

(* Cells a call is copying, or has still to copy, in its current part. *)
Writing == IF wpc = "copy" THEN write_ptr .. write_ptr + wn - 1 ELSE {}
Reading == IF rpc = "copy" THEN read_ptr .. read_ptr + rn - 1 ELSE {}

(* "safely accessed by two threads simultaneously" (ringbuffer.h): the two *)
(* memcpys never touch a common cell.                                      *)
NoDataRace == Writing \cap Reading = {}

(* Every byte between the pointers is the byte the writer stored there: a  *)
(* published byte is never overwritten before it is released, and no part  *)
(* is published before it is copied.                                       *)
UnreadIntact ==
    \A k \in 0 .. Fill - 1 : buf[Wrap(read_ptr + k)] = received + k + 1

(* A part of RingInv: the reader gets the writer's stream, no byte lost,   *)
(* repeated, reordered or torn, through any interleaving of partial and    *)
(* wrapped calls.                                                          *)
InOrder ==
    /\ Len(out) = received + ri
    /\ \A i \in 1 .. Len(out) : out[i] = i

Fifo == INSTANCE ByteFifo WITH
            Capacity <- Size - 1,
            pending <- [k \in 1..Fill |-> buf[Wrap(read_ptr + k - 1)]],
            output <- SubSeq(out, 1, received)

(* The storage and the two unsynchronised pointers implement the abstract  *)
(* bounded FIFO: each publication of a part is one Put, each release one   *)
(* Get, and every other step is invisible.                                 *)
ImplementsFifo == Fifo!FifoSpec

(* The inductive invariant: TypeOK and three linear relations.             *)
(* OutsideACall: a thread outside a call holds no reservation.             *)
OutsideACall ==
    /\ wpc = "idle" => wn = 0 /\ wrest = 0
    /\ rpc = "idle" => rn = 0 /\ rrest = 0

(* The pointers are Fill cells apart, and the parts reserved by the calls  *)
(* in progress fit between them and do not cross the end of the storage.   *)
Geometry ==
    /\ received <= sent
    /\ write_ptr = Wrap(read_ptr + Fill)
    /\ Fill + wn + wrest <= Size - 1
    /\ rn + rrest <= Fill
    /\ write_ptr + wn <= Size
    /\ read_ptr + rn <= Size
    /\ wrest > 0 => write_ptr + wn = Size
    /\ rrest > 0 => read_ptr + rn = Size

(* The cells from the read pointer to the last byte memcpy has stored.     *)
Contents ==
    \A k \in 0 .. Fill + wi - 1 : buf[Wrap(read_ptr + k)] = received + k + 1

RingInv == TypeOK /\ OutsideACall /\ Geometry /\ Contents /\ InOrder

(* What the writer published reaches the audio callback: no publication is *)
(* stuck behind a pointer value the reader misreads.                       *)
EverythingIsRead ==
    \A n \in 1 .. MaxBytes : (sent >= n) ~> (received >= n)

=============================================================================
