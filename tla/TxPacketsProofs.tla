---------------------------- MODULE TxPacketsProofs ----------------------------
(***************************************************************************)
(* The packets of TxPackets stay inside the period for every period,       *)
(* number of channels, format and sample rate, odd and oversized ones      *)
(* included, and so do the slices that the timer thread of SlicedTx sends, *)
(* whatever the delays of the two threads.                                 *)
(* A plain period leaves whole, and slice by slice in time, as long as the *)
(* delays stay below half a slice.                                         *)
(***************************************************************************)
EXTENDS SlicedTx, TLAPS

(* The loop keeps the bytes of all packets within the buffer; slices do    *)
(* not add packets to the period.                                          *)
PacketsFit == pacnum * pacdatalen <= txbuflen
SlicesFit ==
    pc = "ready" /\ slicing => tx_transactions * pacnum_t32 <= pacnum

TxInv ==
    /\ TypeOK
    /\ PacketsFit
    /\ SlicesFit
    /\ pc = "loop" => nframes # 0

-----------------------------------------------------------------------------
(* Arithmetic. *)

(* The only fact about the width of the fields that the proofs need.       *)
LEMMA WidthOfFields == UINT16 \in Nat /\ UINT16 > 1
  BY DEF UINT16

(* A field of 16 bits is never larger than what is stored in it.           *)
LEMMA WordBounds ==
    ASSUME NEW n \in Nat
    PROVE  Word(n) \in 0 .. UINT16 - 1 /\ Word(n) <= n
  BY WidthOfFields DEF Word

(* Division keeps a value within the range of its field.                   *)
LEMMA QuotientBounds ==
    ASSUME NEW n \in Nat, NEW d \in Nat, d # 0
    PROVE  n \div d \in Nat /\ n \div d <= n
  <1>1. n \div d \in Nat /\ d * (n \div d) <= n
    OBVIOUS
  <1> DEFINE q == n \div d
  <1> HIDE DEF q
  <1>2. q \in Nat /\ d * q <= n
    BY <1>1 DEF q
  <1>3. 1 * q <= d * q
    <2>1. d * q = (d - 1) * q + q /\ (d - 1) * q >= 0
      BY <1>2
    <2> QED BY <1>2, <2>1
  <1> QED BY <1>2, <1>3 DEF q

LEMMA ProductMonotone ==
    ASSUME NEW a \in Nat, NEW b \in Nat, NEW c \in Nat, a <= b
    PROVE  a * c <= b * c /\ c * a <= c * b /\ a * c \in Nat
  OBVIOUS

(* Twice as many packets of half the size are not more bytes.              *)
LEMMA HalvingLosesOnly ==
    ASSUME NEW p \in Nat, NEW d \in Nat
    PROVE  Word(p * 2) * Half(d) <= p * d
  <1>1. Word(p * 2) <= p * 2 /\ Word(p * 2) \in Nat
    BY WordBounds
  <1>2. Half(d) \in Nat /\ 2 * Half(d) <= d
    BY DEF Half
  <1> DEFINE w == Word(p * 2)
             h == Half(d)
  <1> HIDE DEF w, h
  <1>3. w * h <= (p * 2) * h
    BY <1>1, <1>2, ProductMonotone DEF w, h
  <1>4. (p * 2) * h = p * (2 * h)
    BY <1>2 DEF h
  <1>5. p * (2 * h) <= p * d
    BY <1>2, ProductMonotone DEF h
  <1>6. w \in Nat /\ h \in Nat
    BY <1>1, <1>2 DEF w, h
  <1>7. w * h \in Int /\ p * (2 * h) \in Int /\ p * d \in Int
    BY <1>6
  <1> QED BY <1>3, <1>4, <1>5, <1>7 DEF w, h

(* The packets of a slice, taken once for every whole slice of a period,   *)
(* are at most the packets of the period.                                  *)
LEMMA SlicesAddNothing ==
    ASSUME NEW n \in Nat, n # 0, NEW t \in Nat, t # 0, NEW p \in Nat
    PROVE  (n \div t) * ((p * t) \div n) <= p
  <1> DEFINE a == n \div t
             b == (p * t) \div n
  <1>1. a \in Nat /\ a * t <= n
    OBVIOUS
  <1>2. p * t \in Nat
    OBVIOUS
  <1>3. b \in Nat /\ b * n <= p * t
    BY <1>2
  <1> HIDE DEF a, b
  <1>4. (a * b) * n <= p * n
    <2>1. (a * b) * n = a * (b * n)
      BY <1>1, <1>3
    <2>2. a * (b * n) <= a * (p * t)
      BY <1>1, <1>2, <1>3, ProductMonotone
    <2>3. a * (p * t) = p * (a * t)
      BY <1>1
    <2>4. p * (a * t) <= p * n
      BY <1>1, ProductMonotone
    <2>5. a * (b * n) \in Int /\ p * (a * t) \in Int /\ p * n \in Int
      BY <1>1, <1>3
    <2> QED BY <2>1, <2>2, <2>3, <2>4, <2>5
  <1>5. a * b <= p
    <2> SUFFICES ASSUME a * b >= p + 1 PROVE FALSE
      BY <1>1, <1>3
    <2>1. a * b \in Nat
      BY <1>1, <1>3
    <2>2. (p + 1) * n <= (a * b) * n
      BY <2>1, ProductMonotone
    <2>3. (p + 1) * n = p * n + n
      OBVIOUS
    <2>4. p * n \in Int /\ (a * b) * n \in Int
      BY <2>1
    <2> QED BY <1>4, <2>2, <2>3, <2>4
  <1> QED BY <1>5 DEF a, b

(* The bytes of a period are a natural number.                             *)
LEMMA BytesOfPeriod ==
    ASSUME NEW n \in Periods, TypeOK
    PROVE  n * nbinputs * size \in Nat /\ n \in Nat /\ n # 0
  <1>1. n \in Nat /\ n # 0 /\ nbinputs \in Nat /\ size \in Nat
    BY PeriodsAssumption, ChannelsAssumption, SampleSizesAssumption DEF TypeOK
  <1>2. n * nbinputs \in Nat
    BY <1>1
  <1> QED BY <1>1, <1>2

(* The duration of a slice is a natural number of nanoseconds.             *)
LEMMA NanosecondsNat ==
    ASSUME TypeOK, NEW n \in Nat
    PROVE  Nanoseconds(n) \in Nat
  <1>1. samplerate \in Nat /\ samplerate # 0
    BY RatesAssumption DEF TypeOK
  <1>2. (n * 1000000) \div samplerate \in Nat
    BY <1>1
  <1>3. ((n * 1000000) % samplerate) \in Nat
    BY <1>1
  <1>4. (((n * 1000000) % samplerate) * 1000) \div samplerate \in Nat
    BY <1>1, <1>3
  <1> QED BY <1>2, <1>4 DEF Nanoseconds

-----------------------------------------------------------------------------
(* A plain period. *)

(* Powers of two divide each other. *)
LEMMA PowersDivide ==
    ASSUME NEW a \in PowersOfTwo, NEW b \in PowersOfTwo, a <= b
    PROVE  \E m \in Nat : m # 0 /\ b = m * a
  <1> DEFINE P == {1, 2, 4, 8, 16, 32, 64, 128, 256, 512, 1024, 2048, 4096,
                   8192, 16384, 32768}
  <1>1. PowersOfTwo = P
    BY DEF PowersOfTwo
  <1>2. \A x, y \in P : x <= y => \E m \in P : y = m * x
    OBVIOUS
  <1>3. P \subseteq Nat \ {0}
    OBVIOUS
  <1> HIDE DEF P
  <1> QED BY <1>1, <1>2, <1>3

(* And so does one half of them. *)
LEMMA PowersHalve ==
    ASSUME NEW a \in PowersOfTwo
    PROVE  /\ a \in Nat /\ a # 0
           /\ a > 1 => Half(a) \in PowersOfTwo /\ a = 2 * Half(a)
  <1> DEFINE P == {1, 2, 4, 8, 16, 32, 64, 128, 256, 512, 1024, 2048, 4096,
                   8192, 16384, 32768}
  <1>1. PowersOfTwo = P
    BY DEF PowersOfTwo
  <1>2. \A x \in P : /\ x \in Nat /\ x # 0
                     /\ x > 1 => x \div 2 \in P /\ x = 2 * (x \div 2)
    OBVIOUS
  <1> HIDE DEF P
  <1> QED BY <1>1, <1>2 DEF Half

LEMMA SlicesArePowers == {64, 128, 256} \subseteq PowersOfTwo
  BY DEF PowersOfTwo

(* What divides without a remainder. *)
LEMMA ExactQuotient ==
    ASSUME NEW m \in Nat, NEW c \in Nat, c # 0
    PROVE  (m * c) \div c = m
  OBVIOUS

(* A value that fits a field is not changed by it. *)
LEMMA WordKeeps ==
    ASSUME NEW n \in Nat, n < UINT16
    PROVE  Word(n) = n
  BY WidthOfFields DEF Word

-----------------------------------------------------------------------------
LEMMA TxInit == Init => TxInv
  <1> SUFFICES ASSUME Init PROVE TxInv
    OBVIOUS
  <1>1. 0 \in 0 .. UINT16 - 1
    BY WidthOfFields
  <1>2. TypeOK
    BY <1>1 DEF Init, TypeOK
  <1>3. PacketsFit /\ SlicesFit /\ pc # "loop"
    BY DEF Init, PacketsFit, SlicesFit
  <1> QED BY <1>2, <1>3 DEF TxInv

(* A new period starts with one packet, whose length has lost its upper    *)
(* bits.                                                                   *)
LEMMA TuneKeeps ==
    ASSUME TxInv, NEW n \in Periods, Tune(n)
    PROVE  TxInv'
  <1>1. n * nbinputs * size \in Nat /\ n \in Nat /\ n # 0
    BY BytesOfPeriod DEF TxInv
  <1>2. /\ Word(n * nbinputs * size) \in 0 .. UINT16 - 1
        /\ Word(n * nbinputs * size) <= n * nbinputs * size
    BY <1>1, WordBounds
  <1>3. TypeOK'
    <2>1. nframes' \in Periods /\ txbuflen' \in Nat
      BY <1>1 DEF Tune
    <2>2. pacdatalen' \in 0 .. UINT16 - 1 /\ vban_nframes_pac' \in Nat
      BY <1>1, <1>2 DEF Tune
    <2>3. pacnum' \in 0 .. UINT16 - 1 /\ pc' = "loop"
      BY WidthOfFields DEF Tune
    <2>4. SliceFrames \in {64, 128, 256}
      BY DEF SliceFrames
    <2>5. /\ slicing' \in BOOLEAN
          /\ tx_nframes' \in {32, 64, 128, 256}
          /\ max_packet_frames' \in {64, 128, 256}
      <3>1. CASE slicing
        BY <2>4, <3>1 DEF Tune, TooFast
      <3>2. CASE ~slicing
        BY <3>2 DEF Tune, TxInv, TypeOK, VBAN_SAMPLES_MAX_NB
      <3> QED BY <3>1, <3>2
    <2> QED BY <2>1, <2>2, <2>3, <2>5 DEF Tune, TxInv, TypeOK, options, slices
  <1>4. PacketsFit' /\ SlicesFit'
    BY <1>1, <1>2 DEF Tune, PacketsFit, SlicesFit
  <1>5. (pc = "loop" => nframes # 0)'
    BY <1>1 DEF Tune
  <1> QED BY <1>3, <1>4, <1>5 DEF TxInv

LEMMA HalveKeeps ==
    ASSUME TxInv, Halve
    PROVE  TxInv'
  <1>1. pacnum \in Nat /\ pacdatalen \in Nat /\ txbuflen \in Nat
    BY DEF TxInv, TypeOK
  <1>2. TypeOK'
    <2>1. Word(pacnum * 2) \in 0 .. UINT16 - 1
      BY <1>1, WordBounds
    <2>2. Half(pacdatalen) \in 0 .. UINT16 - 1
      <3>1. Half(pacdatalen) \in Nat /\ Half(pacdatalen) <= pacdatalen
        BY <1>1, QuotientBounds DEF Half
      <3>2. pacdatalen \in 0 .. UINT16 - 1
        BY DEF TxInv, TypeOK
      <3> QED BY <3>1, <3>2, WidthOfFields
    <2>3. Half(vban_nframes_pac) \in Nat
      BY DEF TxInv, TypeOK, Half
    <2> QED BY <2>1, <2>2, <2>3 DEF Halve, TxInv, TypeOK, options, slices
  <1>3. PacketsFit'
    <2>1. Word(pacnum * 2) * Half(pacdatalen) <= pacnum * pacdatalen
      BY <1>1, HalvingLosesOnly
    <2>2. Word(pacnum * 2) \in Nat /\ Half(pacdatalen) \in Nat
      BY <1>1, WordBounds DEF Half
    <2>3. /\ Word(pacnum * 2) * Half(pacdatalen) \in Int
          /\ pacnum * pacdatalen \in Int
      BY <1>1, <2>2
    <2>4. Word(pacnum * 2) * Half(pacdatalen) <= txbuflen
      BY <1>1, <2>1, <2>3 DEF TxInv, PacketsFit
    <2> QED BY <2>4 DEF Halve, PacketsFit
  <1> QED BY <1>2, <1>3 DEF TxInv, SlicesFit, Halve

LEMMA FinishKeeps ==
    ASSUME TxInv, Finish
    PROVE  TxInv'
  <1>1. nframes \in Nat /\ nframes # 0 /\ nframes \in 1 .. UINT16 - 1
    BY PeriodsAssumption DEF TxInv, TypeOK, Finish
  <1>2. tx_nframes \in Nat /\ tx_nframes # 0 /\ pacnum \in Nat
    BY DEF TxInv, TypeOK
  <1>3. nframes \div tx_nframes \in 0 .. UINT16 - 1
    BY <1>1, <1>2, QuotientBounds, WidthOfFields
  <1>4. (pacnum * tx_nframes) \div nframes \in Nat
    BY <1>1, <1>2
  <1>5. PacketsPerSlice(pacnum) \in 0 .. UINT16 - 1
        /\ PacketsPerSlice(pacnum) <= (pacnum * tx_nframes) \div nframes
    BY <1>4, WordBounds DEF PacketsPerSlice
  <1>6. TypeOK'
    <2>1. Nanoseconds(tx_nframes) + 1 \in Nat
      BY <1>2, NanosecondsNat DEF TxInv
    <2>2. /\ tx_transactions' \in 0 .. UINT16 - 1
          /\ pacnum_t32' \in 0 .. UINT16 - 1
          /\ slice_period' \in Nat
      <3>1. CASE slicing
        BY <1>3, <1>5, <2>1, <3>1 DEF Finish
      <3>2. CASE ~slicing
        BY <3>2 DEF Finish, slices, TxInv, TypeOK
      <3> QED BY <3>1, <3>2
    <2> QED BY <2>2 DEF Finish, TxInv, TypeOK, options, packets
  <1>7. SlicesFit'
    <2> SUFFICES ASSUME slicing PROVE SlicesFit'
      BY DEF SlicesFit, Finish
    <2>1. (nframes \div tx_nframes) * PacketsPerSlice(pacnum)
            <= (nframes \div tx_nframes) * ((pacnum * tx_nframes) \div nframes)
      BY <1>3, <1>4, <1>5, ProductMonotone
    <2>2. (nframes \div tx_nframes) * ((pacnum * tx_nframes) \div nframes)
            <= pacnum
      BY <1>1, <1>2, SlicesAddNothing, Zenon
    <2>3. (nframes \div tx_nframes) * PacketsPerSlice(pacnum) <= pacnum
      <3> DEFINE x == (nframes \div tx_nframes) * PacketsPerSlice(pacnum)
                 y == (nframes \div tx_nframes)
                        * ((pacnum * tx_nframes) \div nframes)
      <3>1. x \in Int /\ y \in Int
        BY <1>3, <1>4, <1>5
      <3> HIDE DEF x, y
      <3>2. x <= y /\ y <= pacnum
        BY <2>1, <2>2 DEF x, y
      <3>3. x <= pacnum
        BY <1>2, <3>1, <3>2
      <3> QED BY <3>3 DEF x
    <2> QED BY <2>3 DEF SlicesFit, Finish, packets
  <1>8. PacketsFit'
    BY DEF PacketsFit, TxInv, Finish, packets
  <1> QED BY <1>6, <1>7, <1>8 DEF TxInv, Finish

LEMMA TxStep == TxInv /\ [Next]_vars => TxInv'
  <1> SUFFICES ASSUME TxInv, [Next]_vars PROVE TxInv'
    OBVIOUS
  <1>1. CASE \E n \in Periods : Tune(n)
    BY <1>1, TuneKeeps
  <1>2. CASE Halve
    BY <1>2, HalveKeeps
  <1>3. CASE Finish
    BY <1>3, FinishKeeps
  <1>4. CASE UNCHANGED vars
    BY <1>4 DEF vars, TxInv, TypeOK, PacketsFit, SlicesFit
  <1> QED BY <1>1, <1>2, <1>3, <1>4 DEF Next

LEMMA TxInvariant == Spec => []TxInv
  BY TxInit, TxStep, PTL DEF Spec

-----------------------------------------------------------------------------
(* The sizes of packets and slices always fit the fields they are kept in  *)
(* (vban_functions.h:112-122).                                             *)
THEOREM TxTypeCorrect == Spec => []TypeOK
  <1>1. TxInv => TypeOK
    BY DEF TxInv
  <1> QED BY <1>1, TxInvariant, PTL

(* What the invariant means for the reads of txbuf.                        *)
LEMMA TxInvReads == TxInv => ReadsInsideTxbuf
  <1> SUFFICES ASSUME TxInv, pc = "ready" PROVE ReadsInsideTxbuf
    BY DEF ReadsInsideTxbuf
  <1>1. /\ pacnum \in Nat /\ pacdatalen \in Nat /\ txbuflen \in Nat
        /\ tx_transactions \in Nat /\ pacnum_t32 \in Nat
    BY DEF TxInv, TypeOK
  <1>2. SentAtOnce <= txbuflen
    BY DEF TxInv, PacketsFit, SentAtOnce
  <1>3. ASSUME slicing PROVE SentInSlices <= txbuflen
    <2> DEFINE q == tx_transactions * pacnum_t32
    <2>1. q \in Nat
      BY <1>1
    <2>2. q <= pacnum
      BY <1>3 DEF TxInv, SlicesFit
    <2> HIDE DEF q
    <2>3. q * pacdatalen <= pacnum * pacdatalen
      BY <1>1, <2>1, <2>2, ProductMonotone
    <2>4. q * pacdatalen \in Int /\ pacnum * pacdatalen \in Int
      BY <1>1, <2>1
    <2>5. q * pacdatalen <= txbuflen
      BY <1>1, <1>2, <2>3, <2>4 DEF SentAtOnce
    <2> QED BY <2>5 DEF q, SentInSlices
  <1> QED BY <1>2, <1>3 DEF ReadsInsideTxbuf

(* Neither vban_send_txbuffer nor the slices read past the period in       *)
(* txbuf (vban_functions.h:678 and 712), for every period, number of       *)
(* channels, format and rate.                                              *)
THEOREM PacketsStayInTxbuf == Spec => []ReadsInsideTxbuf
  BY TxInvReads, TxInvariant, PTL

(* A plain period is halved without a remainder: after each halving its    *)
(* packets are still all of it, in whole frames.  A packet of one frame is *)
(* short enough, so that the loop stops before it would halve one.         *)
WholeFrames ==
    /\ vban_nframes_pac \in PowersOfTwo
    /\ pacnum * vban_nframes_pac = nframes
    /\ pacdatalen = vban_nframes_pac * nbinputs * size

PlainInv ==
    /\ pc # "call" =>
         /\ txbuflen = nframes * nbinputs * size
         /\ max_packet_frames \in {64, 128, 256}
         /\ slicing => max_packet_frames = tx_nframes
         /\ PlainPeriod => WholeFrames
    /\ pc = "ready" =>
         /\ ~TooLong
         /\ slicing => /\ tx_transactions = nframes \div tx_nframes
                       /\ pacnum_t32 = PacketsPerSlice(pacnum)

(* A frame has 2 to 1024 bytes. *)
LEMMA BytesOfFrame ==
    ASSUME TypeOK
    PROVE  /\ nbinputs \in Nat /\ size \in Nat
           /\ nbinputs * size \in 1 .. 1024
           /\ \A n \in Nat : n * nbinputs * size = n * (nbinputs * size)
  <1>1. nbinputs \in 1..256 /\ size \in {2, 3, 4}
    BY ChannelsAssumption, SampleSizesAssumption DEF TypeOK, VBAN_CHANNELS_MAX_NB
  <1>2. nbinputs * size \in 1 .. 1024
    BY <1>1
  <1> QED BY <1>1, <1>2

LEMMA TuneKeepsPlain ==
    ASSUME TxInv, PlainInv, NEW n \in Periods, Tune(n)
    PROVE  PlainInv'
  <1>1. n * nbinputs * size \in Nat /\ n \in Nat /\ n # 0
    BY BytesOfPeriod DEF TxInv
  <1>2. /\ pc' = "loop" /\ nframes' = n /\ txbuflen' = n * nbinputs * size
        /\ pacnum' = 1 /\ vban_nframes_pac' = n
        /\ pacdatalen' = Word(n * nbinputs * size)
        /\ nbinputs' = nbinputs /\ size' = size
    BY DEF Tune, options
  <1>3. /\ max_packet_frames' \in {64, 128, 256}
        /\ slicing' => max_packet_frames' = tx_nframes'
    BY DEF Tune, SliceFrames, VBAN_SAMPLES_MAX_NB
  <1>4. ASSUME PlainPeriod' PROVE WholeFrames'
    <2>1. n \in PowersOfTwo /\ n * nbinputs * size < UINT16
      BY <1>2, <1>4 DEF PlainPeriod, UINT16
    <2>2. Word(n * nbinputs * size) = n * nbinputs * size
      BY <1>1, <2>1, WordKeeps
    <2>3. 1 * n = n
      BY <1>1
    <2> QED BY <1>2, <2>1, <2>2, <2>3 DEF WholeFrames
  <1>5. pc' # "call" /\ pc' # "ready"
    BY <1>2
  <1> QED BY <1>2, <1>3, <1>4, <1>5 DEF PlainInv

LEMMA HalveKeepsPlain ==
    ASSUME TxInv, PlainInv, Halve
    PROVE  PlainInv'
  <1>1. /\ pc = "loop" /\ pc' = "loop" /\ TooLong
        /\ pacnum' = Word(pacnum * 2)
        /\ vban_nframes_pac' = Half(vban_nframes_pac)
        /\ pacdatalen' = Half(pacdatalen)
        /\ nbinputs' = nbinputs /\ size' = size /\ nframes' = nframes
        /\ txbuflen' = txbuflen /\ max_packet_frames' = max_packet_frames
        /\ tx_nframes' = tx_nframes /\ slicing' = slicing
    BY DEF Halve, options
  <1>2. /\ txbuflen = nframes * nbinputs * size
        /\ max_packet_frames \in {64, 128, 256}
        /\ slicing => max_packet_frames = tx_nframes
        /\ PlainPeriod => WholeFrames
    BY <1>1 DEF PlainInv
  <1>3. ASSUME PlainPeriod PROVE WholeFrames'
    <2> DEFINE v == vban_nframes_pac
               b == nbinputs * size
               h == Half(vban_nframes_pac)
    <2>1. /\ v \in PowersOfTwo /\ pacnum * v = nframes
          /\ pacdatalen = v * b /\ b \in 1 .. 1024
      BY <1>2, <1>3, BytesOfFrame DEF WholeFrames, TxInv, TypeOK
    <2>2. v \in Nat /\ v # 0 /\ pacnum \in Nat /\ nframes \in 1 .. UINT16 - 1
      <3>1. v \in Nat /\ v # 0
        BY <2>1, PowersHalve
      <3>2. pacnum \in Nat /\ nframes \in 1 .. UINT16 - 1
        BY <1>1, PeriodsAssumption DEF TxInv, TypeOK
      <3> QED BY <3>1, <3>2
    <2>3. v > 1
      <3> SUFFICES ASSUME v = 1 PROVE FALSE
        BY <2>2
      <3>1. pacdatalen = b
        BY <2>1
      <3> QED BY <1>1, <1>2, <2>1, <3>1 DEF TooLong, VBAN_DATA_MAX_SIZE
    <2>4. h \in PowersOfTwo /\ v = 2 * h
      BY <2>1, <2>3, PowersHalve
    <2>5. h \in Nat /\ h # 0
      BY <2>4, PowersHalve
    <2> HIDE DEF v, b, h
    <2>6. pacdatalen = 2 * (h * b)
      BY <2>1, <2>4, <2>5
    <2>7. Half(pacdatalen) = h * b
      <3>1. h * b \in Nat
        BY <2>1, <2>5
      <3> QED BY <2>6, <3>1 DEF Half
    <2>8. (pacnum * 2) * h = nframes
      BY <2>1, <2>2, <2>4, <2>5
    <2>9. Word(pacnum * 2) = pacnum * 2
      <3>1. (pacnum * 2) * 1 <= (pacnum * 2) * h
        BY <2>2, <2>5, ProductMonotone
      <3>2. pacnum * 2 < UINT16
        BY <2>2, <2>8, <3>1, WidthOfFields
      <3> QED BY <2>2, <3>2, WordKeeps
    <2>10. h * nbinputs * size = h * b
      BY <2>5, BytesOfFrame DEF b, TxInv
    <2> QED BY <1>1, <2>4, <2>7, <2>8, <2>9, <2>10 DEF WholeFrames, h
  <1>4. PlainPeriod' <=> PlainPeriod
    BY <1>1 DEF PlainPeriod
  <1>5. pc' # "call" /\ pc' # "ready"
    BY <1>1
  <1> QED BY <1>1, <1>2, <1>3, <1>4, <1>5 DEF PlainInv

LEMMA FinishKeepsPlain ==
    ASSUME PlainInv, Finish
    PROVE  PlainInv'
  <1>1. /\ pc = "loop" /\ pc' = "ready" /\ ~TooLong
        /\ nbinputs' = nbinputs /\ size' = size /\ nframes' = nframes
        /\ pacdatalen' = pacdatalen /\ vban_nframes_pac' = vban_nframes_pac
        /\ pacnum' = pacnum
        /\ txbuflen' = txbuflen /\ max_packet_frames' = max_packet_frames
        /\ tx_nframes' = tx_nframes /\ slicing' = slicing
        /\ slicing => /\ tx_transactions' = nframes \div tx_nframes
                      /\ pacnum_t32' = PacketsPerSlice(pacnum)
    BY DEF Finish, options, packets
  <1>2. /\ (TooLong' <=> TooLong) /\ (PlainPeriod' <=> PlainPeriod)
        /\ (WholeFrames' <=> WholeFrames)
        /\ PacketsPerSlice(pacnum)' = PacketsPerSlice(pacnum)
    BY <1>1 DEF TooLong, PlainPeriod, WholeFrames, PacketsPerSlice
  <1>3. /\ txbuflen = nframes * nbinputs * size
        /\ max_packet_frames \in {64, 128, 256}
        /\ slicing => max_packet_frames = tx_nframes
        /\ PlainPeriod => WholeFrames
    BY <1>1 DEF PlainInv
  <1> QED BY <1>1, <1>2, <1>3 DEF PlainInv

LEMMA PlainStep == TxInv /\ PlainInv /\ [Next]_vars => PlainInv'
  <1> SUFFICES ASSUME TxInv, PlainInv, [Next]_vars PROVE PlainInv'
    OBVIOUS
  <1>1. CASE UNCHANGED vars
    BY <1>1 DEF vars, PlainInv, TooLong, PlainPeriod, WholeFrames, PacketsPerSlice
  <1> QED BY <1>1, TuneKeepsPlain, HalveKeepsPlain, FinishKeepsPlain DEF Next

LEMMA PlainInvariant == Spec => [](TxInv /\ PlainInv)
  <1>1. Init => TxInv /\ PlainInv
    BY TxInit DEF Init, PlainInv
  <1>2. TxInv /\ PlainInv /\ [Next]_vars => (TxInv /\ PlainInv)'
    BY TxStep, PlainStep
  <1> QED BY <1>1, <1>2, PTL DEF Spec

LEMMA PlainInvSends == TxInv /\ PlainInv => PlainPeriodIsSent
  <1> SUFFICES ASSUME TxInv, PlainInv, pc = "ready", PlainPeriod
               PROVE  /\ SentAtOnce = txbuflen
                      /\ pacdatalen = vban_nframes_pac * nbinputs * size
                      /\ vban_nframes_pac \in 1..VBAN_SAMPLES_MAX_NB
    BY DEF PlainPeriodIsSent
  <1> DEFINE v == vban_nframes_pac
             b == nbinputs * size
  <1>1. /\ WholeFrames /\ ~TooLong /\ max_packet_frames \in {64, 128, 256}
        /\ txbuflen = nframes * nbinputs * size
    BY DEF PlainInv
  <1>2. v \in Nat /\ v # 0
    BY <1>1, PowersHalve DEF WholeFrames
  <1>3. b \in Nat /\ pacnum \in Nat /\ nframes \in Nat
    BY BytesOfFrame, PeriodsAssumption DEF TxInv, TypeOK
  <1>4. pacdatalen = v * b /\ txbuflen = nframes * b /\ pacnum * v = nframes
    BY <1>1, <1>2, <1>3, BytesOfFrame DEF WholeFrames, TxInv
  <1>5. v <= 256
    BY <1>1, <1>2 DEF TooLong
  <1> HIDE DEF v, b
  <1>6. SentAtOnce = txbuflen
    BY <1>2, <1>3, <1>4 DEF SentAtOnce
  <1> QED BY <1>1, <1>2, <1>5, <1>6 DEF WholeFrames, v, VBAN_SAMPLES_MAX_NB

(* The packets of a plain period, and of each of its slices, are whole:    *)
(* both divide by the same power of two.                                   *)
LEMMA PlainInvCovers == TxInv /\ PlainInv => SlicesCoverPeriod
  <1> SUFFICES ASSUME TxInv, PlainInv, pc = "ready", PlainPeriod, slicing,
                      nframes >= tx_nframes
               PROVE  SentInSlices = txbuflen
    BY DEF SlicesCoverPeriod
  <1> DEFINE v == vban_nframes_pac
             t == tx_nframes
  <1>1. /\ WholeFrames /\ ~TooLong /\ t \in {64, 128, 256}
        /\ max_packet_frames = t
        /\ tx_transactions = nframes \div t /\ pacnum_t32 = PacketsPerSlice(pacnum)
    BY DEF PlainInv
  <1>2. /\ v \in PowersOfTwo /\ t \in PowersOfTwo /\ nframes \in PowersOfTwo
        /\ pacnum * v = nframes
    BY <1>1, SlicesArePowers DEF WholeFrames, PlainPeriod
  <1>3. /\ v \in Nat /\ v # 0 /\ t \in Nat /\ t # 0 /\ nframes \in Nat
        /\ nframes # 0 /\ pacnum \in Nat
    BY <1>2, PowersHalve DEF TxInv, TypeOK
  <1>4. v <= t
    BY <1>1, <1>3 DEF TooLong
  <1>5. PICK j \in Nat : j # 0 /\ t = j * v
    BY <1>2, <1>4, PowersDivide
  <1>6. PICK m \in Nat : m # 0 /\ nframes = m * t
    BY <1>2, PowersDivide
  <1> HIDE DEF v, t
  <1>7. tx_transactions = m
    BY <1>1, <1>3, <1>6, ExactQuotient
  <1>8. pacnum = m * j
    <2>1. pacnum * v = (m * j) * v
      BY <1>2, <1>3, <1>5, <1>6
    <2> QED BY <1>3, <2>1
  <1>9. pacnum_t32 = j
    <2>1. pacnum * t = j * nframes
      BY <1>3, <1>6, <1>8
    <2>2. (pacnum * t) \div nframes = j
      BY <1>3, <2>1, ExactQuotient
    <2>3. j < UINT16
      <3>1. 1 * j <= m * j
        BY <1>6, ProductMonotone
      <3>2. m * j <= UINT16 - 1
        BY <1>8 DEF TxInv, TypeOK
      <3>3. j <= UINT16 - 1
        BY <1>3, <1>8, <3>1, <3>2, WidthOfFields
      <3> QED BY <3>3, WidthOfFields
    <2> QED BY <1>1, <2>2, <2>3, WordKeeps DEF PacketsPerSlice, t
  <1>10. SentInSlices = SentAtOnce
    BY <1>7, <1>8, <1>9 DEF SentInSlices, SentAtOnce
  <1> QED BY <1>10, PlainInvSends DEF PlainPeriodIsSent

(* A period that is a power of two leaves completely, in packets of whole  *)
(* frames and at most 256 of them, for every format, number of channels    *)
(* and rate, as long as it is shorter than 64 KiB                          *)
(* (vban_functions.cpp:145-150).                                           *)
THEOREM PlainPeriodLeavesWhole == Spec => []PlainPeriodIsSent
  BY PlainInvSends, PlainInvariant, PTL

(* And in slices as well: the packets of its slices are all its packets    *)
(* (vban_functions.cpp:152-156).                                           *)
THEOREM SlicesLeaveNothing == Spec => []SlicesCoverPeriod
  BY PlainInvCovers, PlainInvariant, PTL

-----------------------------------------------------------------------------
(* SlicedTx. *)

(* As long as the thread waits whenever the callback comes, it starts each *)
(* period at slice 0 and never counts beyond the last slice; while the     *)
(* callback computes new sizes, nothing can wake it.                       *)
SliceRound ==
    /\ txdata_ind \in Nat /\ loaded \in Nat
    /\ slicing /\ pc = "ready" => tx_transactions = nframes \div tx_nframes
    /\ slicing /\ calm /\ pc # "ready" => tpc = "wait" /\ ~pending /\ txdata_ind = 0
    /\ slicing /\ calm /\ pc = "ready" /\ nframes >= tx_nframes =>
         /\ txdata_ind < tx_transactions
         /\ tpc = "store" => loaded = txdata_ind

LEMMA OneSliceAtLeast ==
    ASSUME NEW n \in Nat, NEW t \in Nat, t # 0, n >= t
    PROVE  n \div t > 0
  OBVIOUS

LEMMA SliceStepIsTxStep == [SliceNext]_svars => [Next]_vars
  BY DEF SliceNext, svars, Retune, Callback, TuneStep, Tick, Wake, Send, Load, Store, Next

(* The callback, and the sizes it computes.                                *)
LEMMA CallbackKeeps ==
    ASSUME TxInv, SliceRound,
           \/ \E n \in Periods : Retune(n)
           \/ \E n \in Periods, l \in -jitter .. jitter : Callback(n, l)
           \/ TuneStep
    PROVE  SliceRound'
  <1> USE DEF SliceRound
  <1>1. ASSUME NEW n \in Periods, Retune(n) PROVE SliceRound'
    <2>1. /\ pc' = "loop"
          /\ txdata_ind' = txdata_ind /\ loaded' = loaded
          /\ tpc' = tpc /\ pending' = pending /\ calm' = calm
      BY <1>1 DEF Retune, Tune, slicer
    <2>2. ~slicing \/ pc = "call"
      BY <1>1 DEF Retune
    <2>3. slicing' => slicing /\ pc = "call"
      BY <1>1, <2>1, <2>2 DEF Retune, Tune
    <2>4. "call" # "ready" /\ "loop" # "ready"
      OBVIOUS
    <2> QED BY <2>1, <2>3, <2>4, Zenon
  <1>2. ASSUME NEW n \in Periods, NEW l, Callback(n, l) PROVE SliceRound'
    <2>1. /\ slicing /\ pc = "ready" /\ txdata_ind' = 0 /\ pending' = FALSE
          /\ calm' = (tpc = "wait") /\ UNCHANGED <<tpc, loaded>>
      BY <1>2 DEF Callback
    <2>2. CASE n # nframes
      <3>1. pc' = "loop" /\ "loop" # "ready" /\ 0 \in Nat
        BY <1>2, <2>2 DEF Callback, Tune
      <3> QED BY <2>1, <3>1, Zenon
    <2>3. CASE n = nframes
      <3>1. UNCHANGED vars
        BY <1>2, <2>3 DEF Callback
      <3>2. /\ nframes \in Nat /\ tx_nframes \in Nat /\ tx_nframes # 0
        BY PeriodsAssumption DEF TxInv, TypeOK
      <3>3. nframes >= tx_nframes => tx_transactions > 0
        BY <2>1, <3>2, OneSliceAtLeast
      <3> QED BY <2>1, <3>1, <3>3 DEF vars
    <2> QED BY <2>2, <2>3
  <1>3. CASE TuneStep
    <2>1. UNCHANGED <<txdata_ind, loaded, tpc, pending, calm, slicing, nframes, tx_nframes>>
          /\ pc = "loop"
      BY <1>3 DEF TuneStep, Halve, Finish, slicer
    <2>2. CASE Halve
      BY <2>1, <2>2 DEF Halve
    <2>3. CASE Finish
      <3>1. /\ nframes \in Nat /\ tx_nframes \in Nat /\ tx_nframes # 0
        BY PeriodsAssumption DEF TxInv, TypeOK
      <3>2. slicing => tx_transactions' = nframes \div tx_nframes
        BY <2>3 DEF Finish
      <3>3. slicing /\ nframes >= tx_nframes => tx_transactions' > 0
        BY <3>1, <3>2, OneSliceAtLeast
      <3> QED BY <2>1, <3>2, <3>3
    <2> QED BY <1>3, <2>2, <2>3 DEF TuneStep
  <1> QED BY <1>1, <1>2, <1>3

(* The timer and its thread.                                               *)
LEMMA ThreadKeeps ==
    ASSUME TxInv, SliceRound, Tick \/ Wake \/ Send \/ Load \/ Store
    PROVE  SliceRound'
  <1> USE DEF SliceRound, vars, history
  <1>1. CASE Tick
    BY <1>1 DEF Tick
  <1>2. CASE Wake \/ Send
    BY <1>2 DEF Wake, Send
  <1>3. CASE Load
    BY <1>3 DEF Load
  <1>4. CASE Store
    <2>1. tx_transactions \in Nat
      BY DEF TxInv, TypeOK
    <2> QED BY <1>4, <2>1 DEF Store
  <1> QED BY <1>1, <1>2, <1>3, <1>4

LEMMA SliceRoundStep == TxInv /\ SliceRound /\ [SliceNext]_svars => SliceRound'
  <1> SUFFICES ASSUME TxInv, SliceRound, [SliceNext]_svars PROVE SliceRound'
    OBVIOUS
  <1>1. CASE UNCHANGED svars
    <2>1. /\ txdata_ind' = txdata_ind /\ loaded' = loaded /\ slicing' = slicing
          /\ pc' = pc /\ tx_transactions' = tx_transactions
          /\ nframes' = nframes /\ tx_nframes' = tx_nframes
          /\ calm' = calm /\ tpc' = tpc /\ pending' = pending
      BY <1>1 DEF svars, vars, slicer
    <2> QED BY <2>1, Zenon DEF SliceRound
  <1> QED BY <1>1, CallbackKeeps, ThreadKeeps DEF SliceNext

-----------------------------------------------------------------------------
(* What the timer thread relies on. *)

(* The index is read and sent while it is in its bound, the lag is within  *)
(* the latency, the offset within the jitter.                              *)
SliceBounds ==
    /\ jitter \in 0..MaxJitter /\ latency \in 0..MaxLatency
    /\ clock \in Int /\ clock >= -1 /\ offset \in -jitter .. jitter
    /\ pending \in BOOLEAN /\ lag \in 0 .. latency
    /\ tpc \in {"wait", "send", "load", "store"}
    /\ txdata_ind \in 0 .. MaxIndex + 1 /\ loaded \in 0 .. MaxIndex
    /\ tpc \in {"send", "load"} => txdata_ind <= MaxIndex
    /\ covered \in Nat /\ disorder \in BOOLEAN /\ calm \in BOOLEAN

LEMMA SliceBoundsStep == TxInv /\ SliceBounds /\ [SliceNext]_svars => SliceBounds'
  <1> SUFFICES ASSUME TxInv, SliceBounds, [SliceNext]_svars PROVE SliceBounds'
    OBVIOUS
  <1> USE BoundsAssumption
  <1>1. CASE UNCHANGED slicer
    BY <1>1 DEF slicer, SliceBounds
  <1>2. ASSUME NEW n \in Periods, NEW l \in -jitter .. jitter, Callback(n, l)
        PROVE  SliceBounds'
    <2>1. /\ jitter' = jitter /\ latency' = latency /\ clock' = 0 /\ offset' = l
          /\ pending' = FALSE /\ lag' = lag /\ tpc' = tpc /\ txdata_ind' = 0
          /\ loaded' = loaded /\ covered' = 0 /\ disorder' = FALSE
          /\ calm' \in BOOLEAN
      BY <1>2 DEF Callback, timing
    <2>2. /\ 0 \in Nat /\ 0 \in 0 .. MaxIndex + 1 /\ 0 <= MaxIndex
          /\ 0 \in Int /\ 0 >= -1
      OBVIOUS
    <2> QED BY <2>1, <2>2, Zenon DEF SliceBounds
  <1>3. CASE Tick
    <2>1. /\ jitter' = jitter /\ latency' = latency /\ offset' = offset
          /\ tpc' = tpc /\ txdata_ind' = txdata_ind /\ loaded' = loaded
          /\ covered' = covered /\ disorder' = disorder /\ calm' = calm
          /\ pending' \in BOOLEAN /\ clock' = clock + 1
          /\ (Busy => lag < latency) /\ lag' = IF Busy THEN lag + 1 ELSE 0
      BY <1>3 DEF Tick, timing, history
    <2>2. lag' \in 0 .. latency
      <3>1. CASE Busy
        BY <2>1, <3>1 DEF SliceBounds
      <3>2. CASE ~Busy
        BY <2>1, <3>2 DEF SliceBounds
      <3> QED BY <3>1, <3>2
    <2>3. clock' \in Int /\ clock' >= -1
      BY <2>1 DEF SliceBounds
    <2> QED BY <2>1, <2>2, <2>3, Zenon DEF SliceBounds
  <1>4. CASE Wake
    <2>1. UNCHANGED <<jitter, latency, clock, offset, lag, txdata_ind, loaded,
                      covered, disorder, calm>>
          /\ pending' = FALSE /\ tpc' = "send" /\ txdata_ind <= MaxIndex
      BY <1>4 DEF Wake, timing, timer, history
    <2> QED BY <2>1, Zenon DEF SliceBounds
  <1>5. CASE Send
    <2>1. UNCHANGED <<jitter, latency, clock, offset, pending, lag, txdata_ind,
                      loaded, calm>>
          /\ tpc = "send" /\ tpc' = "load"
      BY <1>5 DEF Send, timing, timer
    <2>2. covered' \in Nat /\ disorder' \in BOOLEAN
      <3>1. SliceBytes \in Nat
        BY DEF SliceBytes, TxInv, TypeOK
      <3>2. CASE txdata_ind * SliceBytes = covered
        BY <1>5, <3>1, <3>2 DEF Send, SliceBounds
      <3>3. CASE txdata_ind * SliceBytes # covered
        BY <1>5, <3>3, Zenon DEF Send, SliceBounds
      <3> QED BY <3>2, <3>3
    <2> QED BY <2>1, <2>2, Zenon DEF SliceBounds
  <1>6. CASE Load
    <2>1. UNCHANGED <<jitter, latency, clock, offset, pending, lag, txdata_ind,
                      covered, disorder, calm>>
          /\ tpc = "load" /\ tpc' = "store" /\ loaded' = txdata_ind
      BY <1>6 DEF Load, timing, timer, history
    <2>2. txdata_ind \in 0 .. MaxIndex
      BY <2>1 DEF SliceBounds
    <2>3. "store" \notin {"send", "load"}
      OBVIOUS
    <2> QED BY <2>1, <2>2, <2>3, Zenon DEF SliceBounds
  <1>7. CASE Store
    <2>1. UNCHANGED <<jitter, latency, clock, offset, pending, covered,
                      disorder, calm>>
          /\ tpc' = "wait" /\ lag' = 0 /\ loaded' = 0
          /\ txdata_ind' = IF loaded = tx_transactions - 1 THEN 0 ELSE loaded + 1
      BY <1>7 DEF Store, timing, timer, history
    <2>2. txdata_ind' \in 0 .. MaxIndex + 1 /\ lag' \in 0 .. latency
          /\ loaded' \in 0 .. MaxIndex
      BY <2>1 DEF SliceBounds
    <2>3. "wait" \notin {"send", "load"}
      OBVIOUS
    <2> QED BY <2>1, <2>2, <2>3, Zenon DEF SliceBounds
  <1> QED BY <1>1, <1>2, <1>3, <1>4, <1>5, <1>6, <1>7
          DEF SliceNext, Retune, TuneStep, svars

-----------------------------------------------------------------------------
(* Slices in time. *)

(* Half a slice of time, and the expirations of the timer since the last   *)
(* callback.                                                               *)
HalfSlice == Units \div 2
SlotOf(c) == (c + HalfSlice) \div Units
Slot == SlotOf(clock)

(* The slices the thread has sent: all that were due but the one that is   *)
(* waiting for it.                                                         *)
Sent == Slot - (IF pending \/ tpc = "send" THEN 1 ELSE 0)

(* The thread is done with each slice before the next one is due, so that  *)
(* txdata_ind counts the expirations.                                      *)
SlicesOnTime ==
    /\ clock <= PeriodUnits - offset + jitter
    /\ Busy => clock = (Slot - 1) * Units + HalfSlice + lag
    /\ pending => tpc = "wait"
    /\ covered = Sent * SliceBytes /\ ~disorder
    /\ tpc \in {"wait", "send"} =>
         txdata_ind = IF Sent = tx_transactions THEN 0 ELSE Sent
    /\ tpc \in {"load", "store"} => txdata_ind = Sent - 1
    /\ tpc = "store" => loaded = txdata_ind

TimesInv ==
    /\ slicing /\ calm /\ pc # "ready" =>
         clock \in {-1, 0} /\ covered = 0 /\ ~disorder
    /\ Regular /\ calm /\ pc = "ready" => SlicesOnTime

LEMMA HalvesOfSlice ==
    HalfSlice \in Nat /\ HalfSlice # 0 /\ Units = 2 * HalfSlice /\ Units \in Nat
  BY UnitsAssumption DEF HalfSlice

LEMMA SlotBounds ==
    ASSUME NEW c \in Int, c >= -1
    PROVE  /\ SlotOf(c) \in Nat
           /\ SlotOf(c) * Units - HalfSlice <= c
           /\ c < SlotOf(c) * Units + HalfSlice
           /\ SlotOf(c) * Units \in Nat
  <1>1. c + HalfSlice \in Nat /\ Units \in Nat /\ Units # 0
    BY HalvesOfSlice
  <1>2. \A n, d \in Nat : d # 0 =>
          /\ n \div d \in Nat /\ d * (n \div d) <= n /\ n < d * (n \div d) + d
    OBVIOUS
  <1>3. /\ SlotOf(c) \in Nat /\ Units * SlotOf(c) <= c + HalfSlice
        /\ c + HalfSlice < Units * SlotOf(c) + Units
    BY <1>1, <1>2, Zenon DEF SlotOf
  <1>4. Units * SlotOf(c) = SlotOf(c) * Units /\ SlotOf(c) * Units \in Nat
    BY <1>1, <1>3
  <1> DEFINE p == SlotOf(c) * Units
  <1> HIDE DEF p
  <1>5. p \in Nat /\ p <= c + HalfSlice /\ c + HalfSlice < p + Units
    BY <1>3, <1>4 DEF p
  <1>6. p - HalfSlice <= c /\ c < p + HalfSlice
    BY <1>5, HalvesOfSlice
  <1> QED BY <1>3, <1>5, <1>6 DEF p

(* What lies between two multiples of the unit tells the slot. *)
LEMMA SlotUnique ==
    ASSUME NEW c \in Int, NEW k \in Nat,
           k * Units - HalfSlice <= c, c < k * Units + HalfSlice
    PROVE  SlotOf(c) = k
  <1>1. HalfSlice \in Nat /\ Units = 2 * HalfSlice /\ Units \in Nat /\ Units # 0
    BY HalvesOfSlice
  <1>2. \A n, d, q \in Nat : d # 0 /\ d * q <= n /\ n < d * q + d => n \div d = q
    OBVIOUS
  <1> DEFINE p == k * Units
  <1>3. p \in Nat /\ p = Units * k
    BY <1>1
  <1>4. c + HalfSlice \in Nat
    BY <1>1, <1>3
  <1>5. Units * k <= c + HalfSlice /\ c + HalfSlice < Units * k + Units
    BY <1>1, <1>3
  <1> QED BY <1>1, <1>2, <1>4, <1>5, Zenon DEF SlotOf

LEMMA SlotZero == SlotOf(0) = 0 /\ SlotOf(-1) = 0
  <1>1. 0 * Units = 0
    BY HalvesOfSlice
  <1> QED BY <1>1, HalvesOfSlice, SlotUnique

LEMMA RemainderIs ==
    ASSUME NEW n \in Nat, NEW d \in Nat, NEW q \in Nat, NEW r \in Nat,
           r < d, n = q * d + r
    PROVE  n % d = r
  OBVIOUS

(* The timer expires where one slot ends and the next begins.              *)
LEMMA NextSlot ==
    ASSUME NEW c \in Int, c >= -1
    PROVE  /\ Expires(c + 1) => /\ SlotOf(c + 1) = SlotOf(c) + 1
                                /\ c + 1 = SlotOf(c) * Units + HalfSlice
           /\ c + 1 = SlotOf(c) * Units + HalfSlice => Expires(c + 1)
           /\ ~Expires(c + 1) => SlotOf(c + 1) = SlotOf(c)
  <1> DEFINE k == SlotOf(c)
             p == k * Units
  <1>1. k \in Nat /\ p \in Nat /\ p - HalfSlice <= c /\ c < p + HalfSlice
    BY SlotBounds
  <1>2. HalfSlice \in Nat /\ HalfSlice # 0 /\ Units = 2 * HalfSlice /\ Units \in Nat
    BY HalvesOfSlice
  <1>3. (k + 1) * Units = p + Units
    BY <1>1, <1>2
  <1>4. ASSUME c + 1 = p + HalfSlice
        PROVE  Expires(c + 1) /\ SlotOf(c + 1) = k + 1
    <2>1. HalfSlice < Units /\ c + 1 \in Nat /\ c + 1 = k * Units + HalfSlice
      BY <1>1, <1>2, <1>4
    <2>2. (c + 1) % Units = HalfSlice
      BY <1>1, <1>2, <2>1, RemainderIs, Zenon
    <2>3. Expires(c + 1)
      BY <2>2 DEF Expires, HalfSlice
    <2>4. SlotOf(c + 1) = k + 1
      <3>1. /\ (k + 1) * Units - HalfSlice <= c + 1
            /\ c + 1 < (k + 1) * Units + HalfSlice
        BY <1>1, <1>2, <1>3, <1>4
      <3> QED BY <1>1, <3>1, SlotUnique
    <2> QED BY <2>3, <2>4
  <1>5. ASSUME c + 1 # p + HalfSlice
        PROVE  ~Expires(c + 1) /\ SlotOf(c + 1) = k
    <2>1. p - HalfSlice < c + 1 /\ c + 1 < p + HalfSlice
      BY <1>1, <1>2, <1>5
    <2>2. SlotOf(c + 1) = k
      <3>1. c + 1 \in Int /\ k * Units - HalfSlice <= c + 1
            /\ c + 1 < k * Units + HalfSlice
        BY <1>1, <1>2, <2>1
      <3> QED BY <1>1, <3>1, SlotUnique
    <2>3. (c + 1) % Units # HalfSlice
      <3>1. CASE c + 1 >= p
        <4> DEFINE r == c + 1 - p
        <4>1. r \in Nat /\ r < HalfSlice /\ r < Units /\ c + 1 = k * Units + r
          BY <1>1, <1>2, <2>1, <3>1
        <4>2. (c + 1) % Units = r
          <5>1. c + 1 \in Nat
            BY <1>1, <3>1
          <5> HIDE DEF r
          <5> QED BY <1>1, <1>2, <4>1, <5>1, RemainderIs, Zenon
        <4> QED BY <1>2, <4>1, <4>2
      <3>2. CASE c + 1 < p
        <4> DEFINE r == c + 1 - (p - Units)
        <4>1. k # 0
          BY <1>1, <1>2, <3>2
        <4>2. k - 1 \in Nat /\ (k - 1) * Units = p - Units
          BY <1>1, <1>2, <4>1
        <4>3. r \in Nat /\ r > HalfSlice /\ r < Units /\ c + 1 = (k - 1) * Units + r
          BY <1>1, <1>2, <2>1, <3>2, <4>2
        <4>4. (c + 1) % Units = r
          <5>1. c + 1 \in Nat
            BY <1>1, <1>2, <4>2, <4>3
          <5> HIDE DEF r
          <5> QED BY <1>2, <4>2, <4>3, <5>1, RemainderIs, Zenon
        <4> QED BY <1>2, <4>3, <4>4
      <3> QED BY <1>1, <3>1, <3>2
    <2> QED BY <2>2, <2>3 DEF Expires, HalfSlice
  <1> HIDE DEF k
  <1> QED BY <1>4, <1>5 DEF k

(* A regular period takes as many slices of time as it has slices.         *)
LEMMA RegularPeriod ==
    ASSUME TxInv, PlainInv, Regular, pc = "ready"
    PROVE  /\ tx_transactions \in Nat /\ tx_transactions # 0
           /\ PeriodUnits = tx_transactions * Units
           /\ SliceBytes \in Nat /\ tx_transactions * SliceBytes = txbuflen
  <1> DEFINE t == tx_nframes
  <1>1. /\ t \in {64, 128, 256} /\ nframes \in PowersOfTwo /\ nframes >= t
        /\ tx_transactions = nframes \div t /\ slicing
    BY DEF Regular, PlainPeriod, PlainInv
  <1>2. t \in PowersOfTwo /\ t \in Nat /\ t # 0 /\ nframes \in Nat
    BY <1>1, SlicesArePowers, PowersHalve
  <1>3. PICK m \in Nat : m # 0 /\ nframes = m * t
    BY <1>1, <1>2, PowersDivide
  <1> HIDE DEF t
  <1>4. tx_transactions = m
    BY <1>1, <1>2, <1>3, ExactQuotient
  <1>5. PeriodUnits = m * Units
    <2>1. nframes * Units = (m * Units) * t /\ m * Units \in Nat
      BY <1>2, <1>3, HalvesOfSlice
    <2> QED BY <1>2, <2>1, ExactQuotient DEF PeriodUnits, t
  <1>6. pacnum_t32 \in Nat /\ pacdatalen \in Nat
    BY DEF TxInv, TypeOK
  <1>7. SentInSlices = txbuflen
    BY PlainInvCovers DEF Regular, SlicesCoverPeriod
  <1>8. m * SliceBytes = m * pacnum_t32 * pacdatalen /\ SliceBytes \in Nat
    BY <1>6 DEF SliceBytes
  <1> QED BY <1>3, <1>4, <1>5, <1>7, <1>8 DEF SentInSlices

(* Until the next callback the timer expires at most once for each slice.  *)
LEMMA SlotsOfPeriod ==
    ASSUME TxInv, PlainInv, SliceBounds, Regular, pc = "ready",
           clock <= PeriodUnits - offset + jitter
    PROVE  Slot \in Nat /\ Slot <= tx_transactions
  <1> DEFINE N == tx_transactions
             u == N * Units
             p == Slot * Units
  <1>1. N \in Nat /\ u \in Nat /\ PeriodUnits = u
    BY RegularPeriod, HalvesOfSlice
  <1>2. Slot \in Nat /\ p \in Nat /\ p - HalfSlice <= clock
    BY SlotBounds DEF SliceBounds, Slot
  <1>3. /\ jitter \in Nat /\ latency \in Nat /\ offset \in -jitter .. jitter
        /\ clock \in Int /\ 2 * jitter + latency < HalfSlice
    BY DEF SliceBounds, Regular, KeepsUp, HalfSlice
  <1> HIDE DEF N, u, p
  <1>4. p < u + Units
    BY <1>1, <1>2, <1>3, HalvesOfSlice
  <1>5. Slot < N + 1
    <2> SUFFICES ASSUME N + 1 <= Slot PROVE FALSE
      BY <1>1, <1>2
    <2>1. (N + 1) * Units <= Slot * Units
      BY <1>1, <1>2, HalvesOfSlice, ProductMonotone
    <2>2. (N + 1) * Units = u + Units
      BY <1>1, HalvesOfSlice DEF u
    <2> QED BY <1>1, <1>2, <1>4, <2>1, <2>2, HalvesOfSlice DEF p
  <1> QED BY <1>1, <1>2, <1>5 DEF N

(* A late thread is done before the timer expires again.                   *)
LEMMA TickKeepsTime ==
    ASSUME TxInv, PlainInv, SliceBounds, Regular, SlicesOnTime, Tick
    PROVE  SlicesOnTime'
  <1>1. /\ jitter' = jitter /\ offset' = offset /\ tpc' = tpc
        /\ txdata_ind' = txdata_ind /\ loaded' = loaded
        /\ covered' = covered /\ disorder' = disorder
        /\ clock' = clock + 1 /\ clock \in 0 .. PeriodUnits - offset + jitter - 1
        /\ (Busy => lag < latency) /\ lag' = IF Busy THEN lag + 1 ELSE 0
        /\ pending' = (pending \/ Expires(clock + 1))
        /\ tx_transactions' = tx_transactions
    BY DEF Tick, timing, history, vars
  <1>2. PeriodUnits' = PeriodUnits /\ SliceBytes' = SliceBytes
    BY DEF Tick, vars, PeriodUnits, SliceBytes
  <1>3. /\ clock \in Int /\ clock >= -1 /\ jitter \in Nat /\ offset \in Int
        /\ latency \in Nat /\ lag \in 0 .. latency
    BY DEF SliceBounds
  <1>4. Slot' = SlotOf(clock + 1)
    BY <1>1 DEF Slot, SlotOf
  <1>5. clock' <= PeriodUnits' - offset' + jitter'
    <2>1. PeriodUnits \in Int
      <3>1. tx_transactions \in Nat /\ PeriodUnits = tx_transactions * Units
        BY RegularPeriod DEF Tick
      <3> QED BY <3>1, HalvesOfSlice
    <2>2. clock \in 0 .. PeriodUnits - offset + jitter - 1
      BY <1>1
    <2> HIDE DEF PeriodUnits
    <2>3. clock + 1 <= PeriodUnits - offset + jitter
      BY <1>3, <2>1, <2>2
    <2> QED BY <1>1, <1>2, <2>3
  <1>6. CASE Busy
    <2> DEFINE p == Slot * Units
    <2>1. /\ Slot \in Nat /\ p \in Nat /\ HalfSlice \in Nat
          /\ Units = 2 * HalfSlice /\ (Slot - 1) * Units = p - Units
      <3>1. Slot \in Nat /\ p \in Nat
        BY <1>3, SlotBounds DEF Slot
      <3>2. \A k, d \in Nat : (k - 1) * d = k * d - d
        OBVIOUS
      <3> QED BY <3>1, <3>2, HalvesOfSlice
    <2>2. clock = p - Units + HalfSlice + lag /\ lag < latency /\ latency < HalfSlice
      BY <1>1, <1>3, <1>6, <2>1, HalvesOfSlice
         DEF SlicesOnTime, Regular, KeepsUp, HalfSlice, SliceBounds
    <2>3. clock + 1 # p + HalfSlice
      BY <1>3, <2>1, <2>2
    <2>4. ~Expires(clock + 1) /\ Slot' = Slot
      BY <1>3, <1>4, <2>3, NextSlot DEF Slot
    <2>5. pending' = pending
      BY <1>1, <2>4, Zenon DEF SliceBounds
    <2>6. Sent' = Sent /\ Busy'
      BY <1>1, <1>6, <2>4, <2>5, Zenon DEF Sent, Busy
    <2>7. clock' = (Slot' - 1) * Units + HalfSlice' + lag'
      BY <1>1, <1>3, <1>6, <2>1, <2>2, <2>4 DEF HalfSlice
    <2>8. pending' => tpc' = "wait"
      BY <1>1, <2>4 DEF SlicesOnTime
    <2> QED BY <1>1, <1>2, <1>5, <2>6, <2>7, <2>8, Zenon DEF SlicesOnTime
  <1>7. CASE ~Busy /\ Expires(clock + 1)
    <2>1. ~pending /\ tpc = "wait" /\ pending' /\ lag' = 0
      BY <1>1, <1>7 DEF Busy
    <2>2. Slot' = Slot + 1 /\ clock + 1 = Slot * Units + HalfSlice /\ Slot \in Nat
      BY <1>3, <1>4, <1>7, NextSlot, SlotBounds DEF Slot
    <2>3. Sent = Slot /\ Sent' = Slot
      BY <1>1, <2>1, <2>2 DEF Sent
    <2>4. clock' = (Slot' - 1) * Units + HalfSlice' + lag'
      <3>1. Slot' - 1 = Slot /\ Slot * Units + HalfSlice \in Int
        BY <2>2, HalvesOfSlice
      <3> QED BY <1>1, <2>1, <2>2, <3>1 DEF HalfSlice
    <2> QED BY <1>1, <1>2, <1>5, <2>1, <2>3, <2>4, Zenon DEF SlicesOnTime
  <1>8. CASE ~Busy /\ ~Expires(clock + 1)
    <2>1. ~pending /\ tpc = "wait" /\ ~pending'
      BY <1>1, <1>8 DEF Busy
    <2>2. Slot' = Slot
      BY <1>3, <1>4, <1>8, NextSlot DEF Slot
    <2>3. Sent' = Sent /\ ~Busy'
      BY <1>1, <2>1, <2>2 DEF Sent, Busy
    <2> QED BY <1>1, <1>2, <1>5, <2>1, <2>3, Zenon DEF SlicesOnTime
  <1> QED BY <1>6, <1>7, <1>8

(* A wake-up, a slice and the counting of it are one round.                *)
LEMMA WakeKeepsTime ==
    ASSUME SlicesOnTime, Wake
    PROVE  SlicesOnTime'
  <1>1. /\ tpc = "wait" /\ pending /\ ~pending' /\ tpc' = "send"
        /\ jitter' = jitter /\ offset' = offset /\ clock' = clock /\ lag' = lag
        /\ txdata_ind' = txdata_ind /\ loaded' = loaded
        /\ covered' = covered /\ disorder' = disorder
        /\ tx_transactions' = tx_transactions
    BY DEF Wake, timing, timer, history, vars
  <1>2. /\ PeriodUnits' = PeriodUnits /\ SliceBytes' = SliceBytes
        /\ Slot' = Slot /\ HalfSlice' = HalfSlice
    BY <1>1 DEF Wake, vars, PeriodUnits, SliceBytes, Slot, SlotOf, HalfSlice
  <1>3. Sent' = Sent /\ Busy /\ Busy'
    BY <1>1, <1>2 DEF Sent, Busy
  <1>4. /\ tpc' \in {"wait", "send"} /\ tpc' \notin {"load", "store"}
        /\ tpc' # "store" /\ tpc \in {"wait", "send"}
    BY <1>1
  <1> QED BY <1>1, <1>2, <1>3, <1>4, Zenon DEF SlicesOnTime

LEMMA SendKeepsTime ==
    ASSUME TxInv, PlainInv, SliceBounds, Regular, pc = "ready", SlicesOnTime, Send
    PROVE  SlicesOnTime'
  <1>1. /\ tpc = "send" /\ tpc' = "load" /\ pending' = pending
        /\ jitter' = jitter /\ offset' = offset /\ clock' = clock /\ lag' = lag
        /\ txdata_ind' = txdata_ind /\ loaded' = loaded
        /\ tx_transactions' = tx_transactions
    BY DEF Send, timing, timer, vars
  <1>2. /\ PeriodUnits' = PeriodUnits /\ SliceBytes' = SliceBytes
        /\ Slot' = Slot /\ HalfSlice' = HalfSlice
    BY <1>1 DEF Send, vars, PeriodUnits, SliceBytes, Slot, SlotOf, HalfSlice
  <1>3. /\ Slot \in Nat /\ Slot <= tx_transactions /\ tx_transactions \in Nat
        /\ SliceBytes \in Nat
    BY SlotsOfPeriod, RegularPeriod DEF SlicesOnTime
  <1>4. Sent = Slot - 1
    BY <1>1 DEF Sent
  <1>5. ~pending
    BY <1>1 DEF SlicesOnTime
  <1>6. ~pending' /\ Sent' = Slot
    <2>1. ~pending'
      BY <1>1, <1>5, Zenon
    <2> QED BY <1>1, <1>2, <1>3, <2>1 DEF Sent
  <1>7. txdata_ind = Sent
    BY <1>1, <1>3, <1>4 DEF SlicesOnTime
  <1>8. covered = Sent * SliceBytes
    BY DEF SlicesOnTime
  <1>9. covered' = covered + SliceBytes /\ disorder' = disorder
    BY <1>7, <1>8, Zenon DEF Send
  <1>10. covered' = Sent' * SliceBytes'
    BY <1>2, <1>3, <1>4, <1>6, <1>8, <1>9
  <1>11. Busy' /\ Busy
    BY <1>1 DEF Busy
  <1>12. txdata_ind' = Sent' - 1
    BY <1>1, <1>4, <1>6, <1>7
  <1>13. tpc' \notin {"wait", "send"} /\ tpc' # "store"
    BY <1>1
  <1> QED BY <1>1, <1>2, <1>6, <1>9, <1>10, <1>11, <1>12, <1>13, Zenon
          DEF SlicesOnTime

LEMMA LoadKeepsTime ==
    ASSUME SlicesOnTime, Load
    PROVE  SlicesOnTime'
  <1>1. /\ tpc = "load" /\ tpc' = "store" /\ pending' = pending
        /\ jitter' = jitter /\ offset' = offset /\ clock' = clock /\ lag' = lag
        /\ txdata_ind' = txdata_ind /\ loaded' = txdata_ind
        /\ covered' = covered /\ disorder' = disorder
        /\ tx_transactions' = tx_transactions
    BY DEF Load, timing, timer, history, vars
  <1>2. /\ PeriodUnits' = PeriodUnits /\ SliceBytes' = SliceBytes
        /\ Slot' = Slot /\ HalfSlice' = HalfSlice
    BY <1>1 DEF Load, vars, PeriodUnits, SliceBytes, Slot, SlotOf, HalfSlice
  <1>3. ~pending
    BY <1>1 DEF SlicesOnTime
  <1>4. ~pending'
    BY <1>1, <1>3, Zenon
  <1>5. Sent' = Sent /\ Busy' /\ Busy
    BY <1>1, <1>2, <1>3, <1>4 DEF Sent, Busy
  <1>6. tpc \in {"load", "store"} /\ tpc' \notin {"wait", "send"}
    BY <1>1
  <1> QED BY <1>1, <1>2, <1>4, <1>5, <1>6, Zenon DEF SlicesOnTime

LEMMA StoreKeepsTime ==
    ASSUME TxInv, PlainInv, SliceBounds, Regular, pc = "ready", SlicesOnTime, Store
    PROVE  SlicesOnTime'
  <1>1. /\ tpc = "store" /\ tpc' = "wait" /\ pending' = pending
        /\ jitter' = jitter /\ offset' = offset /\ clock' = clock
        /\ covered' = covered /\ disorder' = disorder
        /\ txdata_ind' = IF loaded = tx_transactions - 1 THEN 0 ELSE loaded + 1
        /\ tx_transactions' = tx_transactions
    BY DEF Store, timing, timer, history, vars
  <1>2. /\ PeriodUnits' = PeriodUnits /\ SliceBytes' = SliceBytes /\ Slot' = Slot
    BY <1>1 DEF Store, vars, PeriodUnits, SliceBytes, Slot, SlotOf, HalfSlice
  <1>3. Slot \in Nat /\ tx_transactions \in Nat
    BY SlotsOfPeriod, RegularPeriod DEF SlicesOnTime
  <1>4. ~pending /\ Sent = Slot
    BY <1>1, <1>3 DEF SlicesOnTime, Sent
  <1>5. ~pending'
    BY <1>1, <1>4, Zenon
  <1>6. Sent' = Sent /\ ~Busy'
    BY <1>1, <1>2, <1>3, <1>4, <1>5 DEF Sent, Busy
  <1>7. loaded = Sent - 1
    BY <1>1 DEF SlicesOnTime
  <1>8. txdata_ind' = IF Sent' = tx_transactions' THEN 0 ELSE Sent'
    BY <1>1, <1>3, <1>4, <1>6, <1>7
  <1>9. tpc' \notin {"load", "store"} /\ tpc' # "store"
    BY <1>1
  <1> QED BY <1>1, <1>2, <1>5, <1>6, <1>8, <1>9, Zenon DEF SlicesOnTime

(* A callback that finds the thread waiting starts a new round.            *)
Fresh ==
    /\ clock \in {-1, 0} /\ tpc = "wait" /\ ~pending /\ txdata_ind = 0
    /\ covered = 0 /\ ~disorder

LEMMA FreshIsOnTime ==
    TxInv /\ PlainInv /\ SliceBounds /\ Regular /\ pc = "ready" /\ Fresh
      => SlicesOnTime
  <1> SUFFICES ASSUME TxInv, PlainInv, SliceBounds, Regular, pc = "ready",
                      clock \in {-1, 0}, tpc = "wait", ~pending,
                      txdata_ind = 0, covered = 0, ~disorder
               PROVE  SlicesOnTime
    BY DEF Fresh
  <1>1. Slot = 0
    BY SlotZero DEF Slot
  <1>2. Sent = 0
    <2>1. ~(pending \/ tpc = "send")
      OBVIOUS
    <2>2. Sent = Slot - 0
      BY <2>1, Zenon DEF Sent
    <2> QED BY <1>1, <2>2
  <1>3. clock <= PeriodUnits - offset + jitter
    <2>1. tx_transactions \in Nat /\ PeriodUnits = tx_transactions * Units
      BY RegularPeriod
    <2>2. PeriodUnits \in Nat
      BY <2>1, HalvesOfSlice
    <2>3. jitter \in Nat /\ offset \in -jitter .. jitter
      BY DEF SliceBounds
    <2> HIDE DEF PeriodUnits
    <2> QED BY <2>2, <2>3
  <1>4. covered = Sent * SliceBytes
    BY <1>2, RegularPeriod
  <1>5. ~Busy /\ tpc \notin {"load", "store"} /\ tpc # "store"
    BY DEF Busy
  <1> QED BY <1>2, <1>3, <1>4, <1>5 DEF SlicesOnTime

LEMMA NextIsFresh ==
    (TxInv /\ PlainInv /\ SliceBounds /\ Regular /\ pc = "ready" /\ Fresh)'
      => SlicesOnTime'
  BY FreshIsOnTime, PTL

LEMMA TimesStep ==
    TxInv /\ PlainInv /\ SliceRound /\ SliceBounds /\ TimesInv /\ [SliceNext]_svars
      /\ TxInv' /\ PlainInv' /\ SliceRound' /\ SliceBounds'
    => TimesInv'
  <1> SUFFICES ASSUME TxInv, PlainInv, SliceRound, SliceBounds, TimesInv,
                      [SliceNext]_svars, TxInv', PlainInv', SliceRound', SliceBounds'
               PROVE  TimesInv'
    OBVIOUS
  <1>1. CASE UNCHANGED svars
    <2>1. /\ clock' = clock /\ offset' = offset /\ jitter' = jitter /\ latency' = latency
          /\ pending' = pending /\ lag' = lag /\ tpc' = tpc
          /\ txdata_ind' = txdata_ind /\ loaded' = loaded /\ covered' = covered
          /\ disorder' = disorder /\ calm' = calm /\ vars' = vars
      BY <1>1 DEF svars, slicer
    <2>2. Regular' = Regular /\ SlicesOnTime' = SlicesOnTime
      BY <2>1 DEF vars, Regular, KeepsUp, PlainPeriod, SlicesOnTime, Sent, Slot,
                  SlotOf, HalfSlice, Busy, PeriodUnits, SliceBytes
    <2> QED BY <2>1, <2>2 DEF vars, TimesInv
  <1>2. ASSUME NEW n \in Periods, Retune(n) PROVE TimesInv'
    <2>1. /\ pc' = "loop" /\ (slicing' => slicing /\ pc = "call")
          /\ clock' = clock /\ calm' = calm /\ covered' = covered
          /\ disorder' = disorder
      BY <1>2 DEF Retune, Tune, slicer
    <2>2. "loop" # "ready" /\ "call" # "ready"
      OBVIOUS
    <2> QED BY <2>1, <2>2, Zenon DEF TimesInv
  <1>3. ASSUME NEW n \in Periods, NEW l \in -jitter .. jitter, Callback(n, l)
        PROVE  TimesInv'
    <2>1. /\ clock' = 0 /\ pending' = FALSE /\ txdata_ind' = 0 /\ covered' = 0
          /\ disorder' = FALSE /\ calm' = (tpc = "wait") /\ tpc' = tpc
      BY <1>3 DEF Callback
    <2>2. ASSUME Regular', calm', pc' = "ready" PROVE SlicesOnTime'
      <3>1. Fresh'
        BY <2>1, <2>2 DEF Fresh
      <3> QED BY <2>2, <3>1, NextIsFresh
    <2>3. clock' \in {-1, 0} /\ covered' = 0 /\ ~disorder'
      BY <2>1
    <2> QED BY <2>2, <2>3, Zenon DEF TimesInv
  <1>4. CASE TuneStep
    <2>1. /\ pc = "loop" /\ slicing' = slicing /\ calm' = calm /\ clock' = clock
          /\ pending' = pending /\ tpc' = tpc /\ txdata_ind' = txdata_ind
          /\ covered' = covered /\ disorder' = disorder
      BY <1>4 DEF TuneStep, Halve, Finish, slicer
    <2>2. ASSUME slicing, calm
          PROVE  /\ clock \in {-1, 0} /\ covered = 0 /\ ~disorder
                 /\ tpc = "wait" /\ ~pending /\ txdata_ind = 0
      BY <2>1, <2>2 DEF TimesInv, SliceRound
    <2>3. ASSUME Regular', calm', pc' = "ready" PROVE SlicesOnTime'
      <3>1. slicing /\ calm
        BY <2>1, <2>3 DEF Regular
      <3>2. Fresh'
        BY <2>1, <2>2, <3>1 DEF Fresh
      <3> QED BY <2>3, <3>2, NextIsFresh
    <2> QED BY <2>1, <2>2, <2>3, Zenon DEF TimesInv
  <1>5. CASE Tick \/ Wake \/ Send \/ Load \/ Store
    <2>1. vars' = vars /\ jitter' = jitter /\ latency' = latency /\ calm' = calm
      BY <1>5 DEF Tick, Wake, Send, Load, Store, timing, history
    <2>2. Regular' = Regular /\ pc' = pc /\ slicing' = slicing
      BY <2>1 DEF vars, Regular, KeepsUp, PlainPeriod
    <2>3. ASSUME Regular', calm', pc' = "ready" PROVE SlicesOnTime'
      <3>1. Regular /\ SlicesOnTime /\ pc = "ready"
        BY <2>1, <2>2, <2>3 DEF TimesInv
      <3> QED BY <1>5, <3>1, TickKeepsTime, WakeKeepsTime, SendKeepsTime,
                 LoadKeepsTime, StoreKeepsTime
    <2>4. ASSUME slicing', calm', pc' # "ready"
          PROVE  clock' \in {-1, 0} /\ covered' = 0 /\ ~disorder'
      <3>1. slicing /\ calm /\ pc # "ready"
        BY <2>1, <2>2, <2>4
      <3>2. tpc = "wait" /\ ~pending
        BY <3>1 DEF SliceRound
      <3> QED BY <1>5, <3>1, <3>2 DEF Tick, Wake, Send, Load, Store
    <2> QED BY <2>3, <2>4, Zenon DEF TimesInv
  <1> QED BY <1>1, <1>2, <1>3, <1>4, <1>5 DEF SliceNext

TimerInv == TxInv /\ PlainInv /\ SliceRound /\ SliceBounds /\ TimesInv

LEMMA TimerInvariant == SliceSpec => []TimerInv
  <1>1. SliceInit => TimerInv
    <2> SUFFICES ASSUME SliceInit PROVE TimerInv
      OBVIOUS
    <2>1. TxInv /\ PlainInv
      BY TxInit DEF SliceInit, Init, PlainInv
    <2>2. SliceRound
      BY DEF SliceInit, Init, SliceRound
    <2>3. SliceBounds
      <3>1. /\ jitter \in 0..MaxJitter /\ latency \in 0..MaxLatency
            /\ clock = -1 /\ offset = 0 /\ pending = FALSE /\ lag = 0
            /\ tpc = "wait" /\ txdata_ind = 0 /\ loaded = 0
            /\ covered = 0 /\ disorder = FALSE /\ calm = TRUE
        BY DEF SliceInit
      <3>2. /\ clock \in Int /\ clock >= -1 /\ offset \in -jitter .. jitter
            /\ lag \in 0 .. latency /\ txdata_ind \in 0 .. MaxIndex + 1
            /\ loaded \in 0 .. MaxIndex /\ covered \in Nat
        BY <3>1, BoundsAssumption
      <3>3. tpc \notin {"send", "load"}
        BY <3>1
      <3> QED BY <3>1, <3>2, <3>3, Zenon DEF SliceBounds
    <2>4. TimesInv
      BY DEF SliceInit, Init, TimesInv
    <2> QED BY <2>1, <2>2, <2>3, <2>4 DEF TimerInv
  <1>2. TimerInv /\ [SliceNext]_svars => TimerInv'
    <2> SUFFICES ASSUME TimerInv, [SliceNext]_svars PROVE TimerInv'
      OBVIOUS
    <2>1. TxInv' /\ PlainInv'
      BY SliceStepIsTxStep, TxStep, PlainStep DEF TimerInv
    <2>2. SliceRound'
      BY SliceRoundStep DEF TimerInv
    <2>3. SliceBounds'
      BY SliceBoundsStep DEF TimerInv
    <2> QED BY <2>1, <2>2, <2>3, TimesStep DEF TimerInv
  <1> QED BY <1>1, <1>2, PTL DEF SliceSpec

LEMMA SliceIsInside == TimerInv => SliceInsideTxbuf
  <1> SUFFICES ASSUME TxInv, SliceRound, slicing, pc = "ready", calm,
                      nframes >= tx_nframes
               PROVE  (txdata_ind + 1) * SliceBytes <= txbuflen
    BY DEF SliceInsideTxbuf, TimerInv
  <1>1. /\ txdata_ind \in Nat /\ tx_transactions \in Nat /\ pacnum_t32 \in Nat
        /\ pacdatalen \in Nat /\ txbuflen \in Nat
        /\ txdata_ind + 1 <= tx_transactions
    BY DEF TxInv, TypeOK, SliceRound
  <1>2. SliceBytes \in Nat
    BY <1>1 DEF SliceBytes
  <1>3. (txdata_ind + 1) * SliceBytes <= tx_transactions * SliceBytes
    BY <1>1, <1>2, ProductMonotone
  <1>4. tx_transactions * SliceBytes = SentInSlices
    BY <1>1 DEF SliceBytes, SentInSlices
  <1>5. SentInSlices <= txbuflen
    BY TxInvReads DEF ReadsInsideTxbuf
  <1>6. (txdata_ind + 1) * SliceBytes \in Int /\ tx_transactions * SliceBytes \in Int
    BY <1>1, <1>2
  <1> QED BY <1>1, <1>3, <1>4, <1>5, <1>6

(* When the next callback comes, the timer has expired once for each       *)
(* slice and the thread has sent them all.                                 *)
LEMMA CallbackFindsAllSent ==
    ASSUME TimerInv, Regular, calm, clock > 0,
           NEW n \in Periods, NEW l \in -jitter .. jitter, Callback(n, l)
    PROVE  covered = txbuflen /\ ~disorder /\ tpc = "wait"
  <1> DEFINE N == tx_transactions
             u == N * Units
             p == Slot * Units
  <1>1. pc = "ready" /\ SlicesOnTime /\ clock = PeriodUnits - offset + l
    BY DEF Callback, TimerInv, TimesInv, Due
  <1>2. /\ N \in Nat /\ PeriodUnits = u /\ u \in Nat
        /\ SliceBytes \in Nat /\ N * SliceBytes = txbuflen
    BY <1>1, RegularPeriod, HalvesOfSlice DEF TimerInv
  <1>3. /\ Slot \in Nat /\ p \in Nat /\ p - HalfSlice <= clock
        /\ clock < p + HalfSlice
    BY SlotBounds DEF TimerInv, SliceBounds, Slot
  <1>4. Slot <= N
    BY <1>1, SlotsOfPeriod DEF TimerInv, SlicesOnTime
  <1>5. /\ jitter \in Nat /\ latency \in Nat /\ offset \in -jitter .. jitter
        /\ lag \in 0 .. latency /\ clock \in Int
        /\ 2 * jitter + latency < HalfSlice
    BY DEF TimerInv, SliceBounds, Regular, KeepsUp, HalfSlice
  <1> HIDE DEF N, u, p
  <1>6. clock >= u - 2 * jitter
    BY <1>1, <1>2, <1>5
  <1>7. Slot = N
    <2> SUFFICES ASSUME Slot + 1 <= N PROVE FALSE
      BY <1>2, <1>3, <1>4
    <2>1. (Slot + 1) * Units <= N * Units
      BY <1>2, <1>3, HalvesOfSlice, ProductMonotone
    <2>2. (Slot + 1) * Units = p + Units
      BY <1>3, HalvesOfSlice DEF p
    <2> QED BY <1>2, <1>3, <1>5, <1>6, <2>1, <2>2, HalvesOfSlice DEF u
  <1>8. ~Busy
    <2> SUFFICES ASSUME Busy PROVE FALSE
      OBVIOUS
    <2>1. clock = (Slot - 1) * Units + HalfSlice + lag
      BY <1>1 DEF SlicesOnTime
    <2>2. \A k, d \in Nat : (k - 1) * d = k * d - d
      OBVIOUS
    <2>3. (Slot - 1) * Units = u - Units
      BY <1>2, <1>7, <2>2, HalvesOfSlice DEF u
    <2> QED BY <1>2, <1>5, <1>6, <2>1, <2>3, HalvesOfSlice
  <1>9. Sent = N /\ tpc = "wait"
    <2>1. tpc = "wait" /\ ~(pending \/ tpc = "send")
      BY <1>8 DEF Busy
    <2>2. Sent = Slot - 0
      BY <2>1, Zenon DEF Sent
    <2> QED BY <1>2, <1>7, <2>1, <2>2
  <1> QED BY <1>1, <1>2, <1>9 DEF SlicesOnTime, N

-----------------------------------------------------------------------------
(* With the timer thread, too, the sizes it sends by never add up to more  *)
(* than the period in txbuf (vban_functions.h:678 and 712).                *)
THEOREM SlicesStayInTxbuf == SliceSpec => []ReadsInsideTxbuf
  <1>1. TimerInv => ReadsInsideTxbuf
    BY TxInvReads DEF TimerInv
  <1> QED BY <1>1, TimerInvariant, PTL

(* Every slice is copied from inside txbuf, for every period of at least   *)
(* one slice and any delays, if only the thread waited when the callback   *)
(* came; the callback may change the period and its slices at any time     *)
(* (jack_backend.cpp:520-521, emitter main.cpp:50-66).                     *)
THEOREM EachSliceIsInside == SliceSpec => []SliceInsideTxbuf
  BY SliceIsInside, TimerInvariant, PTL

(* Everything the timer thread relies on, and the completeness of a plain  *)
(* period, for any units of time, jitter and latency                       *)
(* (vban_functions.cpp:145-156, vban_functions.h:711-713).                 *)
THEOREM TimerThreadIsSafe == SliceSpec => [](SliceInv /\ PlainPeriodIsSent)
  <1>1. TimerInv => SliceInv /\ PlainPeriodIsSent
    <2>1. TimerInv => SliceTypeOK
      BY BoundsAssumption DEF TimerInv, TxInv, SliceBounds, SliceTypeOK
    <2> QED BY <2>1, SliceIsInside, PlainInvCovers, PlainInvSends
            DEF TimerInv, SliceInv
  <1> QED BY <1>1, TimerInvariant, PTL

(* While callback and thread together are less than half a slice late,     *)
(* each byte of a regular period leaves once and in order before the next  *)
(* callback, which finds the thread waiting: for every number of slices,   *)
(* unit of time, jitter and latency (jack_backend.cpp:520-521).            *)
THEOREM RegularPeriodIsSentOnce == SliceSpec => PeriodIsSentOnce
  <1> DEFINE A == Restarted /\ Regular /\ calm =>
                    covered = txbuflen /\ ~disorder /\ calm'
  <1>1. TimerInv /\ [SliceNext]_svars => [A]_svars
    <2> SUFFICES ASSUME TimerInv, [SliceNext]_svars, Restarted, Regular, calm
                 PROVE  (covered = txbuflen /\ ~disorder /\ calm') \/ UNCHANGED svars
      OBVIOUS
    <2>1. clock > 0 /\ clock' = 0 /\ clock \in Int
      BY DEF Restarted, TimerInv, SliceBounds
    <2>2. clock' # clock /\ clock' # clock + 1
      BY <2>1
    <2>3. CASE UNCHANGED svars
      BY <2>3
    <2>4. ASSUME NEW n \in Periods, NEW l \in -jitter .. jitter, Callback(n, l)
          PROVE  covered = txbuflen /\ ~disorder /\ calm'
      <3>1. covered = txbuflen /\ ~disorder /\ tpc = "wait"
        BY <2>1, <2>4, CallbackFindsAllSent
      <3> QED BY <2>4, <3>1 DEF Callback
    <2> QED BY <2>2, <2>3, <2>4
            DEF SliceNext, Retune, TuneStep, slicer, Tick, Wake, Send, Load, Store,
                timer
  <1> QED BY <1>1, TimerInvariant, PTL DEF SliceSpec, PeriodIsSentOnce

=============================================================================
