--------------------------- MODULE VbanRingProofs ---------------------------
(***************************************************************************)
(* Proofs about VbanRing for every storage size and every set of requests. *)
(***************************************************************************)
EXTENDS VbanRing, TLAPS

(* The only property of % the header relies on: the pointers are brought   *)
(* back into the storage from less than two laps away (the "% rb->size" of *)
(* ringbuffer.h:135, 154, 287, 296, 301, 433, 442, 447).                   *)
LEMMA ModWrap ==
    ASSUME NEW x \in 0 .. 2 * Size - 1
    PROVE  x % Size = Wrap(x)
<1>1. Size \in Nat /\ Size > 1
  BY SizeAssumption
<1>2. CASE x < Size
  BY <1>1, <1>2, SMT DEF Wrap
<1>3. CASE x >= Size
  BY <1>1, <1>3, SMT DEF Wrap
<1>4. QED
  BY <1>1, <1>2, <1>3

(* ringbuffer_read_space and ringbuffer_write_space recover the number of  *)
(* stored bytes from the two pointers alone, full and empty included.      *)
LEMMA SpacesTellFill ==
    ASSUME NEW r \in Cells, NEW f \in 0 .. Size - 1, NEW w \in Cells,
           w = Wrap(r + f)
    PROVE  /\ ReadSpace(w, r) = f
           /\ WriteSpace(w, r) = Size - 1 - f
<1>1. Size \in Nat /\ Size > 1
  BY SizeAssumption
<1>2. w \in Nat /\ r \in Nat /\ w < Size /\ r < Size
  BY <1>1 DEF Cells
<1>3. CASE w > r
  <2>1. f = w - r
    BY <1>1, <1>2, <1>3 DEF Wrap
  <2>2. (r - w + Size) % Size = r - w + Size
    <3>1. r - w + Size \in 0 .. 2 * Size - 1 /\ r - w + Size < Size
      BY <1>1, <1>2, <1>3
    <3>2. QED
      BY <3>1, ModWrap DEF Wrap
  <2>3. QED
    BY <1>1, <1>2, <1>3, <2>1, <2>2 DEF ReadSpace, WriteSpace
<1>4. CASE w < r
  <2>1. f = w - r + Size
    BY <1>1, <1>2, <1>4 DEF Wrap
  <2>2. (w - r + Size) % Size = w - r + Size
    <3>1. w - r + Size \in 0 .. 2 * Size - 1 /\ w - r + Size < Size
      BY <1>1, <1>2, <1>4
    <3>2. QED
      BY <3>1, ModWrap DEF Wrap
  <2>3. QED
    BY <1>1, <1>2, <1>4, <2>1, <2>2 DEF ReadSpace, WriteSpace
<1>5. CASE w = r
  <2>1. f = 0
    BY <1>1, <1>2, <1>5 DEF Wrap
  <2>2. (w - r + Size) % Size = 0
    <3>1. w - r + Size \in 0 .. 2 * Size - 1 /\ w - r + Size = Size
      BY <1>1, <1>2, <1>5
    <3>2. QED
      BY <3>1, <1>1, ModWrap DEF Wrap
  <2>3. QED
    BY <1>1, <1>2, <1>5, <2>1, <2>2 DEF ReadSpace, WriteSpace
<1>6. QED
  BY <1>2, <1>3, <1>4, <1>5

(* The two contiguous parts of a request of n cells, n smaller than the    *)
(* storage: together they are the request, the first one stays inside the  *)
(* storage, and a second one exists only when the first one ends it.       *)
LEMMA PartsOfARequest ==
    ASSUME NEW ptr \in Cells, NEW n \in 0 .. Size - 1
    PROVE  /\ FirstPart(ptr, n) \in Nat
           /\ SecondPart(ptr, n) \in Nat
           /\ FirstPart(ptr, n) + SecondPart(ptr, n) = n
           /\ ptr + FirstPart(ptr, n) <= Size
           /\ SecondPart(ptr, n) > 0 => ptr + FirstPart(ptr, n) = Size
<1>1. Size \in Nat /\ Size > 1 /\ ptr \in Nat /\ ptr < Size /\ n \in Nat /\ n < Size
  BY SizeAssumption DEF Cells
<1>2. ptr + n \in 0 .. 2 * Size - 1
  BY <1>1
<1>3. (ptr + n) % Size = Wrap(ptr + n)
  BY <1>2, ModWrap
<1>4. QED
  BY <1>1, <1>3 DEF FirstPart, SecondPart, Wrap

(* A pointer stays in the storage after a part that does not cross its end.*)
LEMMA AdvanceWraps ==
    ASSUME NEW ptr \in Cells, NEW n \in Nat, ptr + n <= Size
    PROVE  Advance(ptr, n) = Wrap(ptr + n) /\ Advance(ptr, n) \in Cells
<1>1. Size \in Nat /\ Size > 1 /\ ptr \in Nat
  BY SizeAssumption DEF Cells
<1>2. ptr + n \in 0 .. 2 * Size - 1
  BY <1>1
<1>3. (ptr + n) % Size = Wrap(ptr + n)
  BY <1>2, ModWrap
<1>4. QED
  BY <1>1, <1>3 DEF Advance, Wrap, Cells

-----------------------------------------------------------------------------
(* The first memcpy of ringbuffer_write stores the next byte of the stream *)
(* in the cell after the last stored one and disturbs no unread byte.      *)
LEMMA WriteCopyKeepsContents ==
    ASSUME RingInv, WriteCopy
    PROVE  Contents' /\ buf' \in [Cells -> Nat]
<1>1. /\ Size \in Nat /\ Size > 1
      /\ read_ptr \in Nat /\ read_ptr < Size
      /\ write_ptr \in Nat /\ write_ptr < Size
      /\ wi \in Nat /\ wn \in Nat /\ wrest \in Nat /\ wi < wn
      /\ sent \in Nat /\ received \in Nat
      /\ buf \in [Cells -> Nat]
  BY SizeAssumption DEF RingInv, TypeOK, Cells, WriteCopy
<1>2. /\ buf' = [buf EXCEPT ![write_ptr + wi] = sent + wi + 1]
      /\ wi' = wi + 1
      /\ UNCHANGED <<read_ptr, sent, received>>
  BY DEF WriteCopy
<1>3. Fill \in Nat /\ Fill + wi + 1 <= Size - 1 /\ write_ptr + wi < Size
  BY <1>1 DEF RingInv, Geometry, Fill
<1>4. write_ptr + wi = Wrap(read_ptr + Fill + wi)
  BY <1>1, <1>3 DEF RingInv, Geometry, Wrap
<1>5. write_ptr + wi \in Cells /\ sent + wi + 1 \in Nat
  BY <1>1, <1>3 DEF Cells
<1>6. buf' \in [Cells -> Nat]
  BY <1>1, <1>2, <1>5
<1>7. Contents'
  <2> SUFFICES ASSUME NEW k \in 0 .. Fill + wi
               PROVE  buf'[Wrap(read_ptr + k)] = received + k + 1
    BY <1>1, <1>2, <1>3 DEF Contents, Fill, Wrap
  <2>1. k \in Nat /\ Wrap(read_ptr + k) \in Cells
    BY <1>1, <1>3 DEF Wrap, Cells
  <2>2. CASE k = Fill + wi
    BY <1>1, <1>2, <1>4, <1>5, <2>1, <2>2 DEF Fill
  <2>3. CASE k < Fill + wi
    <3>1. Wrap(read_ptr + k) # write_ptr + wi
      BY <1>1, <1>3, <1>4, <2>1, <2>3 DEF Wrap
    <3>2. buf'[Wrap(read_ptr + k)] = buf[Wrap(read_ptr + k)]
      BY <1>1, <1>2, <1>5, <2>1, <3>1
    <3>3. k \in 0 .. Fill + wi - 1
      BY <1>1, <1>3, <2>1, <2>3
    <3>4. QED
      BY <3>2, <3>3 DEF RingInv, Contents
  <2>4. QED
    BY <1>1, <1>3, <2>1, <2>2, <2>3
<1>8. QED
  BY <1>6, <1>7

(* Releasing a part moves the origin of the unread bytes by rn cells.      *)
LEMMA ReleaseKeepsContents ==
    ASSUME RingInv, ReadRelease
    PROVE  Contents'
<1>1. /\ Size \in Nat /\ Size > 1
      /\ read_ptr \in Cells /\ read_ptr \in Nat /\ read_ptr < Size
      /\ wi \in Nat /\ wn \in Nat /\ wrest \in Nat /\ wi <= wn
      /\ rn \in Nat /\ rrest \in Nat
      /\ sent \in Nat /\ received \in Nat
  BY SizeAssumption DEF RingInv, TypeOK, Cells
<1>2. /\ read_ptr' = Wrap(read_ptr + rn)
      /\ received' = received + rn
      /\ UNCHANGED <<buf, wi, sent>>
  BY <1>1, AdvanceWraps DEF RingInv, Geometry, ReadRelease, writerVars
<1>3. Fill \in Nat /\ rn <= Fill /\ Fill + wi <= Size - 1 /\ read_ptr + rn <= Size
  BY <1>1 DEF RingInv, Geometry, Fill
<1>4. ASSUME NEW k \in 0 .. Fill - rn + wi - 1
      PROVE  buf[Wrap(Wrap(read_ptr + rn) + k)] = received + rn + k + 1
  <2>1. k + rn \in 0 .. Fill + wi - 1 /\ k \in Nat
    BY <1>1, <1>3
  <2>2. Wrap(Wrap(read_ptr + rn) + k) = Wrap(read_ptr + (k + rn))
    BY <1>1, <1>3, <2>1 DEF Wrap
  <2>3. buf[Wrap(read_ptr + (k + rn))] = received + (k + rn) + 1
    BY <2>1 DEF RingInv, Contents
  <2>4. QED
    BY <1>1, <2>1, <2>2, <2>3
<1>5. Fill' + wi' - 1 = Fill - rn + wi - 1
  BY <1>1, <1>2 DEF Fill
<1>6. QED
  <2> SUFFICES ASSUME NEW k \in 0 .. Fill' + wi' - 1
               PROVE  buf'[Wrap(read_ptr' + k)] = received' + k + 1
    BY DEF Contents, Wrap
  <2>1. QED
    BY <1>2, <1>4, <1>5

LEMMA InitHolds == Init => RingInv
<1> SUFFICES ASSUME Init PROVE RingInv
  OBVIOUS
<1>1. Size \in Nat /\ Size > 1
  BY SizeAssumption
<1>2. TypeOK /\ OutsideACall
  BY <1>1 DEF Init, TypeOK, OutsideACall, Cells
<1>3. Geometry
  BY <1>1 DEF Init, Geometry, Fill, Wrap
<1>4. Contents /\ InOrder
  BY DEF Init, Contents, InOrder, Fill
<1>5. QED
  BY <1>2, <1>3, <1>4 DEF RingInv

(* Every step keeps the invariant: one case per action of the two threads. *)
LEMMA NextKeepsRingInv == RingInv /\ [Next]_vars => RingInv'
<1> SUFFICES ASSUME RingInv, [Next]_vars PROVE RingInv'
  OBVIOUS
<1>0. /\ Size \in Nat /\ Size > 1
      /\ write_ptr \in Cells /\ read_ptr \in Cells
      /\ write_ptr \in Nat /\ read_ptr \in Nat
      /\ wn \in Nat /\ wrest \in Nat /\ wi \in Nat /\ wi <= wn
      /\ rn \in Nat /\ rrest \in Nat /\ ri \in Nat /\ ri <= rn
      /\ sent \in Nat /\ received \in Nat /\ Fill \in 0 .. Size - 1
  BY SizeAssumption DEF RingInv, TypeOK, Geometry, Fill, Cells
<1>1. /\ ReadSpace(write_ptr, read_ptr) = Fill
      /\ WriteSpace(write_ptr, read_ptr) = Size - 1 - Fill
  BY <1>0, SpacesTellFill DEF RingInv, Geometry
<1>2. ASSUME NEW cnt \in WriteSizes, WriteBegin(cnt)
      PROVE  RingInv'
  <2> DEFINE n == AtMost(cnt, Size - 1 - Fill)
  <2>1. n \in 0 .. Size - 1 /\ n <= Size - 1 - Fill
    BY <1>0, WriteSizesAssumption DEF AtMost
  <2>2. wn' = FirstPart(write_ptr, n) /\ wrest' = SecondPart(write_ptr, n)
    BY <1>1, <1>2 DEF WriteBegin
  <2>3. /\ wn' \in Nat /\ wrest' \in Nat /\ wn' + wrest' = n
        /\ write_ptr + wn' <= Size
        /\ wrest' > 0 => write_ptr + wn' = Size
    BY <1>0, <2>1, <2>2, PartsOfARequest
  <2>4. /\ wi = 0 /\ wi' = 0 /\ wpc' = "copy"
        /\ UNCHANGED <<ringVars, readerVars, sent, received, out>>
    BY <1>0, <1>2 DEF WriteBegin, RingInv, OutsideACall
  <2>5. TypeOK' /\ OutsideACall'
    BY <2>3, <2>4 DEF RingInv, TypeOK, OutsideACall, ringVars, readerVars
  <2>6. Geometry'
    <3>1. Fill' = Fill
      BY <2>4 DEF Fill
    <3>2. Fill + wn' + wrest' <= Size - 1
      <4>1. Size \in Nat /\ Fill \in Nat /\ wn' \in Nat /\ wrest' \in Nat
        BY <1>0, <2>3
      <4>2. wn' + wrest' <= Size - 1 - Fill
        BY <2>1, <2>3
      <4>3. ASSUME NEW f \in Nat, NEW a \in Nat, NEW b \in Nat,
                   a + b <= Size - 1 - f
            PROVE  f + a + b <= Size - 1
        BY <4>1, <4>3
      <4>4. QED
        BY <4>1, <4>2, <4>3
    <3>3. write_ptr' = Wrap(read_ptr' + Fill')
      BY <2>4, <3>1 DEF RingInv, Geometry, Wrap, ringVars
    <3>4. QED
      BY <2>3, <2>4, <3>1, <3>2, <3>3 DEF RingInv, Geometry, Wrap, ringVars, readerVars
  <2>7. Contents' /\ InOrder'
    BY <2>4 DEF RingInv, Contents, InOrder, Fill, Wrap, ringVars, readerVars
  <2>8. QED
    BY <2>5, <2>6, <2>7 DEF RingInv
<1>3. CASE WriteCopy
  <2>1. /\ wi < wn /\ wi' = wi + 1
        /\ UNCHANGED <<write_ptr, read_ptr, wpc, wn, wrest, rpc, rn, rrest,
                       ri, sent, received, out>>
    BY <1>3 DEF WriteCopy, readerVars
  <2>2. Contents' /\ buf' \in [Cells -> Nat]
    BY <1>3, WriteCopyKeepsContents
  <2>3. TypeOK' /\ OutsideACall'
    BY <1>0, <2>1, <2>2 DEF RingInv, TypeOK, OutsideACall
  <2>4. Geometry' /\ InOrder'
    BY <2>1 DEF RingInv, Geometry, InOrder, Fill, Wrap
  <2>5. QED
    BY <2>2, <2>3, <2>4 DEF RingInv
<1>4. CASE WritePublish
  <2>1. /\ wi = wn /\ sent' = sent + wn /\ wn' = wrest /\ wrest' = 0 /\ wi' = 0
        /\ wpc' = IF wrest = 0 THEN "idle" ELSE "copy"
        /\ UNCHANGED <<buf, read_ptr, rpc, rn, rrest, ri, received, out>>
    BY <1>4 DEF WritePublish, readerVars
  <2>2. write_ptr' = Wrap(write_ptr + wn) /\ write_ptr' \in Cells
    BY <1>0, <1>4, AdvanceWraps DEF WritePublish, RingInv, Geometry
  <2>3. TypeOK' /\ OutsideACall'
    BY <1>0, <2>1, <2>2 DEF RingInv, TypeOK, OutsideACall
  <2>4. Geometry'
    BY <1>0, <2>1, <2>2 DEF RingInv, Geometry, Fill, Wrap
  <2>5. Contents'
    <3>1. Fill' + wi' - 1 = Fill + wi - 1
      BY <1>0, <2>1 DEF Fill
    <3>2. SUFFICES ASSUME NEW k \in 0 .. Fill' + wi' - 1
                   PROVE  buf[Wrap(read_ptr + k)] = received + k + 1
      BY <2>1 DEF Contents, Wrap
    <3>3. k \in 0 .. Fill + wi - 1
      BY <3>1, <3>2
    <3>4. QED
      BY <3>3 DEF RingInv, Contents
  <2>6. InOrder'
    BY <2>1 DEF RingInv, InOrder
  <2>7. QED
    BY <2>3, <2>4, <2>5, <2>6 DEF RingInv
<1>5. ASSUME NEW cnt \in ReadSizes, ReadBegin(cnt)
      PROVE  RingInv'
  <2> DEFINE n == AtMost(cnt, Fill)
  <2>1. n \in 0 .. Size - 1 /\ n <= Fill
    BY <1>0, ReadSizesAssumption DEF AtMost
  <2>2. rn' = FirstPart(read_ptr, n) /\ rrest' = SecondPart(read_ptr, n)
    BY <1>1, <1>5 DEF ReadBegin
  <2>3. /\ rn' \in Nat /\ rrest' \in Nat /\ rn' + rrest' = n
        /\ read_ptr + rn' <= Size
        /\ rrest' > 0 => read_ptr + rn' = Size
    BY <1>0, <2>1, <2>2, PartsOfARequest
  <2>4. /\ ri = 0 /\ ri' = 0 /\ rpc' = "copy"
        /\ UNCHANGED <<ringVars, writerVars, sent, received, out>>
    BY <1>0, <1>5 DEF ReadBegin, RingInv, OutsideACall
  <2>5. TypeOK' /\ OutsideACall'
    BY <2>3, <2>4 DEF RingInv, TypeOK, OutsideACall, ringVars, writerVars
  <2>6. Geometry'
    BY <1>0, <2>1, <2>3, <2>4
    DEF RingInv, Geometry, Fill, Wrap, ringVars, writerVars
  <2>7. Contents' /\ InOrder'
    BY <2>4 DEF RingInv, Contents, InOrder, Fill, Wrap, ringVars, writerVars
  <2>8. QED
    BY <2>5, <2>6, <2>7 DEF RingInv
<1>6. CASE ReadCopy
  <2>1. /\ ri < rn /\ ri' = ri + 1 /\ out' = Append(out, buf[read_ptr + ri])
        /\ UNCHANGED <<buf, write_ptr, read_ptr, wpc, wn, wrest, wi, rpc, rn,
                       rrest, sent, received>>
    BY <1>6 DEF ReadCopy, ringVars, writerVars
  <2>2. read_ptr + ri = Wrap(read_ptr + ri) /\ ri \in 0 .. Fill + wi - 1
    BY <1>0, <2>1 DEF RingInv, Geometry, Wrap
  <2>3. buf[read_ptr + ri] = received + ri + 1
    BY <2>2 DEF RingInv, Contents
  <2>4. TypeOK' /\ OutsideACall'
    BY <1>0, <2>1, <2>3 DEF RingInv, TypeOK, OutsideACall
  <2>5. Geometry' /\ Contents'
    BY <2>1 DEF RingInv, Geometry, Contents, Fill, Wrap
  <2>6. InOrder'
    <3>1. out \in Seq(Nat) /\ Len(out) = received + ri
      BY DEF RingInv, TypeOK, InOrder
    <3>2. Len(out') = received' + ri'
      BY <1>0, <2>1, <3>1
    <3>3. ASSUME NEW i \in 1 .. Len(out') PROVE out'[i] = i
      <4>1. CASE i = Len(out) + 1
        BY <1>0, <2>1, <2>3, <3>1, <4>1
      <4>2. CASE i \in 1 .. Len(out)
        BY <2>1, <3>1, <4>2 DEF RingInv, InOrder
      <4>3. QED
        BY <1>0, <2>1, <3>1, <4>1, <4>2
    <3>4. QED
      BY <3>2, <3>3 DEF InOrder
  <2>7. QED
    BY <2>4, <2>5, <2>6 DEF RingInv
<1>7. CASE ReadRelease
  <2>1. /\ ri = rn /\ received' = received + rn
        /\ rn' = rrest /\ rrest' = 0 /\ ri' = 0
        /\ rpc' = IF rrest = 0 THEN "idle" ELSE "copy"
        /\ UNCHANGED <<buf, write_ptr, wpc, wn, wrest, wi, sent, out>>
    BY <1>7 DEF ReadRelease, writerVars
  <2>2. read_ptr' = Wrap(read_ptr + rn) /\ read_ptr' \in Cells
    BY <1>0, <1>7, AdvanceWraps DEF ReadRelease, RingInv, Geometry
  <2>3. TypeOK' /\ OutsideACall'
    BY <1>0, <2>1, <2>2 DEF RingInv, TypeOK, OutsideACall
  <2>4. Geometry'
    BY <1>0, <2>1, <2>2 DEF RingInv, Geometry, Fill, Wrap
  <2>5. Contents'
    BY <1>7, ReleaseKeepsContents
  <2>6. InOrder'
    BY <1>0, <2>1 DEF RingInv, InOrder
  <2>7. QED
    BY <2>3, <2>4, <2>5, <2>6 DEF RingInv
<1>8. CASE UNCHANGED vars
  BY <1>8 DEF vars, RingInv, TypeOK, OutsideACall, Geometry, Contents, InOrder,
              Fill, Wrap
<1>9. QED
  BY <1>2, <1>3, <1>4, <1>5, <1>6, <1>7, <1>8 DEF Next, Write, Read

(* Every interleaving of ringbuffer_write and ringbuffer_read, for every   *)
(* size and every request, keeps the bookkeeping of both calls, the        *)
(* geometry of the two pointers and the bytes of the stream (ringbuffer.h).*)
THEOREM RingInvHolds == Spec => []RingInv
<1>1. QED
  BY InitHolds, NextKeepsRingInv, PTL DEF Spec

-----------------------------------------------------------------------------
(* The variables and histories of the ring keep their types: in particular *)
(* both pointers stay inside the storage for ever.                         *)
THEOREM TypeCorrect == Spec => []TypeOK
<1>1. RingInv => TypeOK
  BY DEF RingInv
<1>2. QED
  BY <1>1, RingInvHolds, PTL

(* No memcpy of ringbuffer_read or ringbuffer_write leaves rb->buf.        *)
THEOREM CopiesStayInBounds == Spec => []CopiesInBounds
<1>1. RingInv => CopiesInBounds
  BY DEF RingInv, Geometry, CopiesInBounds
<1>2. QED
  BY <1>1, RingInvHolds, PTL

(* The unsynchronised pointers always tell how many bytes are stored.      *)
THEOREM PointersNeverAmbiguous == Spec => []PointersTellFill
<1>1. RingInv => PointersTellFill
  <2> SUFFICES ASSUME RingInv PROVE PointersTellFill
    OBVIOUS
  <2>1. Size \in Nat /\ Fill \in 0 .. Size - 1
    BY SizeAssumption DEF RingInv, TypeOK, Geometry, Fill
  <2>2. QED
    BY <2>1, SpacesTellFill DEF RingInv, TypeOK, Geometry, PointersTellFill
<1>2. QED
  BY <1>1, RingInvHolds, PTL

(* The space computed at the beginning of a call is still there when the   *)
(* call copies and publishes, whatever the other thread does meanwhile.    *)
THEOREM ReservationsAlwaysHold == Spec => []ReservationsHold
<1>1. RingInv => ReservationsHold
  <2> SUFFICES ASSUME RingInv PROVE ReservationsHold
    OBVIOUS
  <2>1. /\ Size \in Nat /\ Fill \in 0 .. Size - 1
        /\ wn \in Nat /\ wrest \in Nat /\ rn \in Nat /\ rrest \in Nat
    BY SizeAssumption DEF RingInv, TypeOK, Geometry, Fill
  <2>2. /\ ReadSpace(write_ptr, read_ptr) = Fill
        /\ WriteSpace(write_ptr, read_ptr) = Size - 1 - Fill
    BY <2>1, SpacesTellFill DEF RingInv, TypeOK, Geometry
  <2>3. QED
    BY <2>1, <2>2 DEF RingInv, Geometry, ReservationsHold
<1>2. QED
  BY <1>1, RingInvHolds, PTL

(* The writer's and the reader's memcpy never touch a common cell: the     *)
(* "safely accessed by two threads simultaneously" of ringbuffer.h.        *)
THEOREM DataRaceFreedom == Spec => []NoDataRace
<1>1. RingInv => NoDataRace
  <2> SUFFICES ASSUME RingInv, NEW c \in Writing, c \in Reading PROVE FALSE
    BY DEF NoDataRace
  <2>1. /\ Size \in Nat /\ write_ptr \in Nat /\ read_ptr \in Nat
        /\ wn \in Nat /\ wrest \in Nat /\ rn \in Nat /\ rrest \in Nat
        /\ Fill \in 0 .. Size - 1 /\ read_ptr < Size
    BY SizeAssumption DEF RingInv, TypeOK, Geometry, Fill, Cells
  <2>2. /\ c \in write_ptr .. write_ptr + wn - 1
        /\ c \in read_ptr .. read_ptr + rn - 1
    BY DEF Writing, Reading
  <2>3. QED
    BY <2>1, <2>2 DEF RingInv, Geometry, Wrap
<1>2. QED
  BY <1>1, RingInvHolds, PTL

(* A published byte stays in its cell, unchanged, until it is released.    *)
THEOREM UnreadBytesIntact == Spec => []UnreadIntact
<1>1. RingInv => UnreadIntact
  <2> SUFFICES ASSUME RingInv, NEW k \in 0 .. Fill - 1
               PROVE  buf[Wrap(read_ptr + k)] = received + k + 1
    BY DEF UnreadIntact
  <2>1. k \in 0 .. Fill + wi - 1
    BY DEF RingInv, TypeOK, Fill
  <2>2. QED
    BY <2>1 DEF RingInv, Contents
<1>2. QED
  BY <1>1, RingInvHolds, PTL

(* The reader obtains exactly the writer's stream, in order (a part of     *)
(* RingInv in its own words).                                              *)
THEOREM BytesArriveInOrder == Spec => []InOrder
<1>1. RingInv => InOrder
  BY DEF RingInv
<1>2. QED
  BY <1>1, RingInvHolds, PTL

-----------------------------------------------------------------------------
(* The refinement of ByteFifo.                                             *)

(* In any reachable state the two mapped variables are determined by how   *)
(* many bytes have been published and released.                            *)
Stretch(from, n) == [k \in 1..n |-> from + k]
Pending == [k \in 1..Fill |-> buf[Wrap(read_ptr + k - 1)]]
Output == SubSeq(out, 1, received)

LEMMA MappedState ==
    RingInv => /\ Fill \in Nat /\ received \in Nat
               /\ Pending = Stretch(received, Fill)
               /\ Output = Stretch(0, received)
<1> SUFFICES ASSUME RingInv
    PROVE  /\ Fill \in Nat /\ received \in Nat
           /\ Pending = Stretch(received, Fill)
           /\ Output = Stretch(0, received)
  OBVIOUS
<1>1. /\ received \in Nat /\ sent \in Nat /\ ri \in Nat /\ Size \in Nat
      /\ read_ptr \in Nat /\ Fill \in Nat /\ wi \in Nat /\ out \in Seq(Nat)
  BY SizeAssumption DEF RingInv, TypeOK, Geometry, Fill, Cells
<1>2. Pending = Stretch(received, Fill)
  <2>1. ASSUME NEW k \in 1..Fill
        PROVE  buf[Wrap(read_ptr + k - 1)] = received + k
    <3>1. k - 1 \in 0 .. Fill + wi - 1 /\ read_ptr + (k - 1) = read_ptr + k - 1
      BY <1>1
    <3>2. buf[Wrap(read_ptr + (k - 1))] = received + (k - 1) + 1
      BY <3>1 DEF RingInv, Contents
    <3>3. QED
      BY <1>1, <3>1, <3>2
  <2>2. QED
    BY <2>1 DEF Pending, Stretch
<1>3. Output = Stretch(0, received)
  <2>1. Len(out) = received + ri /\ \A i \in 1..Len(out) : out[i] = i
    BY DEF RingInv, InOrder
  <2>2. Output = [i \in 1..received |-> out[i]]
    BY <1>1, <2>1 DEF Output
  <2>3. QED
    BY <1>1, <2>1, <2>2 DEF Stretch
<1>4. QED
  BY <1>1, <1>2, <1>3

LEMMA StretchIsSeq ==
    ASSUME NEW f \in Nat, NEW n \in Nat
    PROVE  Stretch(f, n) \in Seq(Nat) /\ Len(Stretch(f, n)) = n
  BY DEF Stretch

LEMMA StretchGrows ==
    ASSUME NEW f \in Nat, NEW m \in Nat, NEW n \in Nat
    PROVE  Stretch(f, m) \o [i \in 1..n |-> f + m + i] = Stretch(f, m + n)
<1>1. Stretch(f, m) \in Seq(Nat) /\ Len(Stretch(f, m)) = m
  BY StretchIsSeq
<1>2. [i \in 1..n |-> f + m + i] \in Seq(Nat) /\ Len([i \in 1..n |-> f + m + i]) = n
  OBVIOUS
<1>3. QED
  BY <1>1, <1>2 DEF Stretch

LEMMA StretchDivides ==
    ASSUME NEW f \in Nat, NEW m \in Nat, NEW n \in 0..m
    PROVE  /\ SubSeq(Stretch(f, m), 1, n) = Stretch(f, n)
           /\ SubSeq(Stretch(f, m), n + 1, m) = Stretch(f + n, m - n)
<1>1. Stretch(f, m) \in Seq(Nat) /\ Len(Stretch(f, m)) = m
  BY StretchIsSeq
<1>2. QED
  BY <1>1 DEF Stretch

(* ringbuffer_create makes an empty FIFO.                                  *)
LEMMA InitIsFifoInit == Init => Fifo!FifoInit
<1> SUFFICES ASSUME Init PROVE Fifo!FifoInit
  OBVIOUS
<1>1. RingInv
  BY InitHolds
<1>2. Fill = 0 /\ received = 0
  BY DEF Init, Fill
<1>3. Pending = << >> /\ Output = << >>
  BY <1>1, <1>2, MappedState DEF Stretch
<1>4. QED
  BY <1>3 DEF Fifo!FifoInit, Pending, Output

LEMMA MappedStateNext ==
    RingInv' => /\ Fill' \in Nat /\ received' \in Nat
                /\ Pending' = Stretch(received', Fill')
                /\ Output' = Stretch(0, received')
<1>1. (RingInv => /\ Fill \in Nat /\ received \in Nat
                 /\ Pending = Stretch(received, Fill)
                 /\ Output = Stretch(0, received))'
  BY MappedState, PTL
<1>2. QED
  BY <1>1 DEF Stretch

(* Each store of write_ptr puts the bytes of a part.                       *)
LEMMA PublishIsPut ==
    ASSUME RingInv, WritePublish, RingInv'
    PROVE  Fifo!Put(wn) /\ wn \in 0 .. Size - 1
<1>1. /\ Pending = Stretch(received, Fill) /\ Output = Stretch(0, received)
      /\ Pending' = Stretch(received', Fill') /\ Output' = Stretch(0, received')
      /\ Fill \in Nat /\ received \in Nat
  BY MappedState, MappedStateNext
<1>2. received' = received /\ sent' = sent + wn /\ wn \in Nat /\ Fill + wn <= Size - 1
      /\ sent \in Nat /\ Size \in Nat
  BY SizeAssumption DEF RingInv, TypeOK, Geometry, WritePublish, Fill
<1>3. Fill' = Fill + wn
  BY <1>1, <1>2 DEF Fill
<1>4. Pending' = Stretch(received, Fill + wn) /\ Output' = Output
  BY <1>1, <1>2, <1>3
<1>5. Len(Pending) = Fill /\ Len(Output) = received
  BY <1>1, StretchIsSeq
<1>6. Pending' = Pending \o [i \in 1..wn |-> Len(Output) + Len(Pending) + i]
  <2>1. Stretch(received, Fill) \o [i \in 1..wn |-> received + Fill + i]
          = Stretch(received, Fill + wn)
    BY <1>1, <1>2, StretchGrows
  <2>2. [i \in 1..wn |-> Len(Output) + Len(Pending) + i] = [i \in 1..wn |-> received + Fill + i]
    BY <1>5
  <2>3. QED
    BY <1>1, <1>4, <2>1, <2>2
<1>7. Len(Pending) + wn <= Size - 1
  BY <1>2, <1>5
<1>8. Fifo!Put(wn)
  BY <1>4, <1>6, <1>7, Zenon DEF Fifo!Put, Pending, Output, Fill, Wrap
<1>9. QED
  BY <1>1, <1>2, <1>8

(* Each store of read_ptr takes the bytes of a part.                       *)
LEMMA ReleaseIsGet ==
    ASSUME RingInv, ReadRelease, RingInv'
    PROVE  Fifo!Get(rn) /\ rn \in 0 .. Size - 1
<1>1. /\ Pending = Stretch(received, Fill) /\ Output = Stretch(0, received)
      /\ Pending' = Stretch(received', Fill') /\ Output' = Stretch(0, received')
      /\ Fill \in Nat /\ received \in Nat
  BY MappedState, MappedStateNext
<1>2. received' = received + rn /\ sent' = sent /\ rn \in 0 .. Fill /\ Fill <= Size - 1
      /\ sent \in Nat /\ Size \in Nat
  BY SizeAssumption DEF RingInv, TypeOK, Geometry, ReadRelease, Fill
<1>3. Fill' = Fill - rn
  BY <1>1, <1>2 DEF Fill
<1>4. Len(Pending) = Fill
  BY <1>1, StretchIsSeq
<1>5. /\ SubSeq(Stretch(received, Fill), 1, rn) = Stretch(received, rn)
      /\ SubSeq(Stretch(received, Fill), rn + 1, Fill)
           = Stretch(received + rn, Fill - rn)
  BY <1>1, <1>2, StretchDivides
<1>6. Pending' = SubSeq(Pending, rn + 1, Len(Pending))
  <2>1. Pending' = Stretch(received + rn, Fill - rn)
    BY <1>1, <1>2, <1>3
  <2>2. QED
    BY <1>1, <1>4, <1>5, <2>1, Zenon
<1>7. Output' = Output \o SubSeq(Pending, 1, rn)
  <2>1. Stretch(0, received) \o [i \in 1..rn |-> 0 + received + i]
          = Stretch(0, received + rn)
    <3>1. 0 \in Nat /\ rn \in Nat
      BY <1>1, <1>2
    <3>2. QED
      BY <1>1, <3>1, StretchGrows, Zenon
  <2>2. Stretch(received, rn) = [i \in 1..rn |-> 0 + received + i]
    BY <1>1 DEF Stretch
  <2>3. Output' = Stretch(0, received + rn)
    BY <1>1, <1>2
  <2>4. SubSeq(Pending, 1, rn) = Stretch(received, rn)
    BY <1>1, <1>5, Zenon
  <2>5. QED
    BY <1>1, <2>1, <2>2, <2>3, <2>4, Zenon
<1>8. rn <= Len(Pending)
  BY <1>1, <1>2, <1>4
<1>9. Fifo!Get(rn)
  BY <1>6, <1>7, <1>8, Zenon DEF Fifo!Get, Pending, Output, Fill, Wrap
<1>10. QED
  BY <1>1, <1>2, <1>9

(* Every other step leaves the bytes between the pointers as they are.     *)
LEMMA OtherStepsAreInvisible ==
    ASSUME RingInv, RingInv', UNCHANGED <<sent, received>>
    PROVE  UNCHANGED Fifo!fifoVars
<1>1. /\ Pending = Stretch(received, Fill) /\ Output = Stretch(0, received)
      /\ Pending' = Stretch(received', Fill') /\ Output' = Stretch(0, received')
  BY MappedState, MappedStateNext
<1>2. received' = received /\ Fill' = Fill
  BY DEF Fill
<1>3. Pending' = Pending /\ Output' = Output
  BY <1>1, <1>2
<1>4. QED
  BY <1>3, Zenon DEF Fifo!fifoVars, Pending, Output, Fill, Wrap

LEMMA StepIsFifoStep ==
    RingInv /\ RingInv' /\ [Next]_vars => [Fifo!FifoNext]_(Fifo!fifoVars)
<1> SUFFICES ASSUME RingInv, RingInv', [Next]_vars
             PROVE  [Fifo!FifoNext]_(Fifo!fifoVars)
  OBVIOUS
<1>1. sent \in Nat /\ received \in Nat /\ Size \in Nat
  BY SizeAssumption DEF RingInv, TypeOK
<1>2. CASE WritePublish
  <2>1. Fifo!Put(wn) /\ wn \in 0 .. Size - 1
    BY <1>2, PublishIsPut
  <2>2. CASE wn = 0
    BY <1>1, <1>2, <2>2, OtherStepsAreInvisible DEF WritePublish
  <2>3. CASE wn \in 1 .. Size - 1
    BY <2>1, <2>3 DEF Fifo!FifoNext
  <2>4. QED
    BY <1>1, <2>1, <2>2, <2>3
<1>3. CASE ReadRelease
  <2>1. Fifo!Get(rn) /\ rn \in 0 .. Size - 1
    BY <1>3, ReleaseIsGet
  <2>2. CASE rn = 0
    BY <1>1, <1>3, <2>2, OtherStepsAreInvisible DEF ReadRelease
  <2>3. CASE rn \in 1 .. Size - 1
    BY <2>1, <2>3 DEF Fifo!FifoNext
  <2>4. QED
    BY <1>1, <2>1, <2>2, <2>3
<1>4. CASE UNCHANGED <<sent, received>>
  BY <1>4, OtherStepsAreInvisible
<1>5. WritePublish \/ ReadRelease \/ UNCHANGED <<sent, received>>
  BY DEF Next, Write, Read, WriteBegin, WriteCopy, ReadBegin, ReadCopy, vars
<1>6. QED
  BY <1>2, <1>3, <1>4, <1>5

(* The storage and the two unsynchronised pointers of ringbuffer.h are a   *)
(* bounded FIFO of Size - 1 bytes for one writer and one reader, for every *)
(* size and any requests.                                                  *)
THEOREM RingImplementsFifo == Spec => ImplementsFifo
<1>1. Init => Fifo!FifoInit
  BY InitIsFifoInit
<1>2. RingInv /\ RingInv' /\ [Next]_vars => [Fifo!FifoNext]_(Fifo!fifoVars)
  BY StepIsFifoStep
<1>3. QED
  BY <1>1, <1>2, RingInvHolds, PTL DEF Spec, ImplementsFifo, Fifo!FifoSpec

=============================================================================
