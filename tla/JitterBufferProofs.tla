------------------------- MODULE JitterBufferProofs -------------------------
(***************************************************************************)
(* The prefill and the size that vban_compute_rx_ringbuffer computes are   *)
(* enough for every period length and every redundancy from 1 to 10, and   *)
(* the readers of the ring treat their buffers well for every period       *)
(* length, number of channels and Lagrange, and play what they receive     *)
(* once and in order.                                                      *)
(***************************************************************************)
EXTENDS AudioReader, TLAPS

(* What the arithmetic of vban_compute_rx_ringbuffer provides: two periods *)
(* fit into the ring above the prefill.                                    *)
LEMMA SizesFit ==
    /\ NFrames \in Nat /\ NFrames >= 1
    /\ Prefill \in Nat /\ RingFrames \in Nat
    /\ Prefill + 2 * NFrames <= RingFrames
    /\ Prefill = IF Redundancy = 1 THEN NFrames ELSE NFrames * (Redundancy + 1)
<1>1. NFrames \in Nat /\ NFrames >= 1 /\ Redundancy \in 1..10
  BY NFramesAssumption, RedundancyAssumption
<1>2. CASE Redundancy = 1
  BY <1>1, <1>2 DEF Prefill, RingFrames
<1>3. CASE Redundancy # 1
  <2> DEFINE half == NFrames * (Redundancy + 1)
  <2>1. Redundancy >= 2
    BY <1>1, <1>3
  <2>2. Prefill = half
    BY <1>1, <1>3, <2>1 DEF Prefill
  <2>3. half \in Nat /\ half >= 3 * NFrames
    BY <1>1, <2>1
  <2>4. RingFrames = 2 * half - 1
    BY <1>1 DEF RingFrames
  <2> HIDE DEF half
  <2>5. Prefill + 2 * NFrames <= RingFrames /\ RingFrames \in Nat
    BY <1>1, <2>2, <2>3, <2>4
  <2>6. QED
    BY <1>1, <1>3, <2>2, <2>3, <2>5 DEF half
<1>4. QED
  BY <1>2, <1>3

LEMMA JitterInit == Init => JitterInv
<1>1. SUFFICES ASSUME Init PROVE JitterInv
  OBVIOUS
<1>2. TypeOK
  BY <1>1, SizesFit DEF Init, TypeOK
<1>3. NoStarvation /\ NoOverflow
  BY <1>1 DEF Init, NoStarvation, NoOverflow
<1>4. Balance /\ Clocks /\ Lateness
  BY <1>1, SizesFit DEF Init, Balance, Clocks, Lateness
<1>5. QED
  BY <1>2, <1>3, <1>4 DEF JitterInv

(* The types do not depend on the network. *)
LEMMA JitterTypeNext == TypeOK /\ [Next]_vars => TypeOK'
<1> SUFFICES ASSUME TypeOK, [Next]_vars PROVE TypeOK'
  OBVIOUS
<1>1. /\ late \in 0..MaxLate /\ mayVanish \in 0..MaxVanished /\ MaxVanished \in Nat
      /\ sent \in Nat /\ arrived \in Nat /\ vanished \in 0..mayVanish
      /\ fill \in 0..RingFrames /\ left \in 0..NFrames /\ asked \in Nat
      /\ starved \in Nat /\ dropped \in Nat
  BY MaxVanishedAssumption DEF TypeOK
<1>2. NFrames \in Nat /\ RingFrames \in Nat
  BY SizesFit
<1>3. SUFFICES
        /\ late' \in 0..MaxLate /\ mayVanish' \in 0..MaxVanished
        /\ sent' \in Nat /\ arrived' \in Nat /\ vanished' \in 0..mayVanish'
        /\ fill' \in 0..RingFrames /\ left' \in 0..NFrames /\ asked' \in Nat
        /\ starved' \in Nat /\ dropped' \in Nat
  BY DEF TypeOK, RingFrames
<1>4. CASE Emit
  BY <1>1, <1>2, <1>4 DEF Emit, network
<1>5. CASE Vanish
  BY <1>1, <1>2, <1>5 DEF Vanish, network
<1>6. CASE Deliver
  BY <1>1, <1>2, <1>6 DEF Deliver, network
<1>7. CASE CallbackBegin
  BY <1>1, <1>2, <1>7 DEF CallbackBegin, network
<1>8. CASE ReadFrame
  BY <1>1, <1>2, <1>8 DEF ReadFrame, network
<1>9. CASE UNCHANGED vars
  BY <1>1, <1>9 DEF vars
<1>10. QED
  BY <1>4, <1>5, <1>6, <1>7, <1>8, <1>9 DEF Next

(* One step per action; the two that matter are Deliver, which needs room  *)
(* in the ring, and ReadFrame, which needs a frame in it.                  *)
LEMMA JitterNext == JitterInv /\ [Next]_vars => JitterInv'
<1> SUFFICES ASSUME JitterInv, [Next]_vars PROVE JitterInv'
  OBVIOUS
<1>1. TypeOK'
  BY JitterTypeNext DEF JitterInv
<1>2. late' = late /\ mayVanish' = mayVanish
  BY DEF Next, vars, network, Emit, Vanish, Deliver, CallbackBegin, ReadFrame
<1>3. WithinPrefill' <=> WithinPrefill
  BY <1>2 DEF WithinPrefill
<1>4. CASE ~WithinPrefill
  BY <1>1, <1>3, <1>4 DEF JitterInv, NoStarvation, NoOverflow
<1>5. CASE WithinPrefill
  <2> DEFINE behind == late * NFrames
  <2>1. /\ NFrames \in Nat /\ NFrames >= 1 /\ Prefill \in Nat /\ RingFrames \in Nat
        /\ Prefill + 2 * NFrames <= RingFrames
    BY SizesFit
  <2>2. behind \in Nat /\ mayVanish \in Nat
    BY <2>1, MaxLateAssumption, MaxVanishedAssumption DEF JitterInv, TypeOK
  <2>3. behind + mayVanish <= Prefill
    BY <1>5, SizesFit DEF WithinPrefill
  <2>4. /\ sent \in Nat /\ arrived \in Nat /\ vanished \in 0..mayVanish
        /\ fill \in 0..RingFrames /\ left \in 0..NFrames /\ asked \in Nat
        /\ starved = 0 /\ dropped = 0
        /\ fill = Prefill + arrived - asked
        /\ arrived + vanished <= sent
        /\ asked + left <= sent /\ sent <= asked + left + NFrames
        /\ left > 0 => asked + left <= arrived + vanished + behind
    BY <1>5 DEF JitterInv, TypeOK, NoStarvation, NoOverflow, Balance, Clocks, Lateness
  <2>5. behind' = behind /\ Prefill' = Prefill
    BY <1>2 DEF Prefill
  <2> HIDE DEF behind
  <2>6. SUFFICES
          /\ starved' = 0 /\ dropped' = 0
          /\ fill' = Prefill + arrived' - asked'
          /\ arrived' + vanished' <= sent'
          /\ asked' + left' <= sent' /\ sent' <= asked' + left' + NFrames
          /\ left' > 0 => asked' + left' <= arrived' + vanished' + behind
    BY <1>1, <2>5 DEF JitterInv, NoStarvation, NoOverflow, Balance, Clocks, Lateness,
                      behind
  <2>7. CASE Emit
    BY <2>1, <2>2, <2>3, <2>4, <2>7 DEF Emit
  <2>8. CASE Vanish
    BY <2>1, <2>2, <2>3, <2>4, <2>8 DEF Vanish
  <2>9. CASE Deliver
    <3>1. fill < RingFrames
      BY <2>1, <2>2, <2>3, <2>4, <2>9 DEF Deliver
    <3>2. QED
      BY <2>1, <2>2, <2>3, <2>4, <2>9, <3>1 DEF Deliver
  <2>10. CASE CallbackBegin
    <3>1. asked + NFrames <= arrived + vanished + behind
      BY <2>10 DEF CallbackBegin, behind
    <3>2. QED
      BY <2>1, <2>2, <2>3, <2>4, <2>10, <3>1 DEF CallbackBegin
  <2>11. CASE ReadFrame
    <3>1. fill > 0
      BY <2>1, <2>2, <2>3, <2>4, <2>11 DEF ReadFrame
    <3>2. QED
      BY <2>1, <2>2, <2>3, <2>4, <2>11, <3>1 DEF ReadFrame
  <2>12. CASE UNCHANGED vars
    BY <2>4, <2>12 DEF vars
  <2>13. QED
    BY <2>7, <2>8, <2>9, <2>10, <2>11, <2>12 DEF Next
<1>6. QED
  BY <1>4, <1>5

LEMMA JitterInvHolds == Spec => []JitterInv
BY JitterInit, JitterNext, PTL DEF Spec

(* Types, and the fill of the ring never beyond its capacity. *)
THEOREM JitterTypeCorrect == Spec => []TypeOK
<1>1. JitterInv => TypeOK
  BY DEF JitterInv
<1>2. QED
  BY <1>1, JitterInvHolds, PTL

(* The audio callback of a receptor with -n R never conceals a frame as    *)
(* long as lateness and loss together stay within the prefill of           *)
(* vban_compute_rx_ringbuffer.                                             *)
THEOREM PrefillCoversLateness == Spec => []NoStarvation
<1>1. JitterInv => NoStarvation
  BY DEF JitterInv
<1>2. QED
  BY <1>1, JitterInvHolds, PTL

(* vban_rx_handle_packet never finds the ring full under the same          *)
(* condition.                                                              *)
THEOREM RingHoldsTheBurst == Spec => []NoOverflow
<1>1. JitterInv => NoOverflow
  BY DEF JitterInv
<1>2. QED
  BY <1>1, JitterInvHolds, PTL

-----------------------------------------------------------------------------
(* AudioReader. *)

(* Buffers of samples on their channels; nothing in rxbuf comes from the   *)
(* port buffers of the sound server.                                       *)
LineOK(buf) ==
    /\ buf \in [Line -> Sample]
    /\ \A p \in Line : buf[p][2] = p % Channels /\ buf[p][1] # Unwritten
PortOK(port) ==
    /\ port \in [Line -> Sample]
    /\ \A p \in Line : port[p][2] = p % Channels
WrittenUpTo(port, frames) ==
    \A p \in Period : p \div Channels < frames => port[p][1] # Unwritten

(* The frames in the ring are those that came and were not read. *)
Positioned ==
    /\ fill = Prefill + arrived - dropped - asked + starved
    /\ starved <= asked

(* A round of the loop writes a frame unless three in a row are missing.   *)
Rounds ==
    /\ lframe <= NFrames - left /\ lost <= NFrames - left /\ llost <= lost
    /\ (left > 0 \/ asked > 0) /\ ~gap => lframe = NFrames - left
    /\ backend = "jack" /\ left > 0 => WrittenUpTo(out, lframe)

(* The counter of the code is at least the dead periods in a row.          *)
Silence == dead <= lost_pac_cnt /\ DeadIsSilent

ReaderInv ==
    /\ ReaderTypeOK /\ Positioned /\ Rounds /\ Silence
    /\ LineOK(rxbuf) /\ PortOK(out) /\ EverySlotWritten

LEMMA ReaderSizes ==
    /\ NFrames \in Nat /\ NFrames >= 1
    /\ Channels \in Nat /\ Channels >= 1 /\ Lagrange \in Nat
    /\ DeadPeriods \in Nat /\ DeadPeriods >= 1
  BY NFramesAssumption, ChannelsAssumption, LagrangeAssumption, DeadPeriodsAssumption

(* A shift by whole frames keeps the channel.                              *)
LEMMA SameChannel ==
    ASSUME NEW p \in Nat, NEW k \in Int, p + Channels * k \in Nat
    PROVE  (p + Channels * k) % Channels = p % Channels
  <1> DEFINE m == p + Channels * k
             q == p \div Channels
             s == m \div Channels
             d == s - q - k
  <1>1. /\ m \in Nat /\ q \in Int /\ s \in Int /\ d \in Int
        /\ p % Channels \in 0 .. Channels - 1 /\ m % Channels \in 0 .. Channels - 1
        /\ p % Channels = p - Channels * q /\ m % Channels = m - Channels * s
    <2>1. m \in Nat
      OBVIOUS
    <2> HIDE DEF m
    <2>2. \A n \in Nat : n \div Channels \in Int /\ n % Channels \in 0 .. Channels - 1
      BY ReaderSizes
    <2>3. \A n \in Nat : n % Channels = n - Channels * (n \div Channels)
      BY ReaderSizes
    <2>4. QED
      BY <2>1, <2>2, <2>3
  <1>2. s = q + k + d
    BY <1>1
  <1>3. Channels * s = Channels * q + Channels * k + Channels * d
    BY <1>1, <1>2, ReaderSizes
  <1>4. /\ Channels * s \in Int /\ Channels * q \in Int /\ Channels * k \in Int
        /\ Channels * d \in Int
        /\ d >= 1 => Channels * d >= Channels
        /\ d <= -1 => Channels * d <= -Channels
        /\ d = 0 => Channels * d = 0
    BY <1>1, ReaderSizes
  <1>5. m = p + Channels * k
    OBVIOUS
  <1> HIDE DEF m, q, s, d
  <1>6. m % Channels = p % Channels
    BY <1>1, <1>3, <1>4, <1>5, ReaderSizes
  <1>7. QED
    BY <1>6 DEF m

LEMMA ChannelInRange ==
    ASSUME NEW p \in Nat
    PROVE  p % Channels \in 0 .. Channels - 1
  BY ReaderSizes

LEMMA FrameOfSample ==
    ASSUME NEW p \in Period
    PROVE  p \in Line /\ p \in Nat /\ p \div Channels \in 0 .. NFrames - 1
  <1>1. p \in Nat /\ p < Channels * NFrames
    BY ReaderSizes DEF Period
  <1>2. Channels * (NFrames + Lagrange) = Channels * NFrames + Channels * Lagrange
        /\ Channels * Lagrange \in Nat /\ Channels * NFrames \in Nat
    BY ReaderSizes
  <1>3. p \in Line
    BY <1>1, <1>2 DEF Line
  <1>4. p \div Channels \in 0 .. NFrames - 1
    <2> DEFINE q == p \div Channels
    <2>1. q \in Nat /\ Channels * q <= p
      BY <1>1, ReaderSizes
    <2> HIDE DEF q
    <2>2. CASE q >= NFrames
      <3>1. Channels * q = Channels * NFrames + Channels * (q - NFrames)
            /\ Channels * (q - NFrames) \in Nat /\ Channels * q \in Nat
        BY <2>1, <2>2, ReaderSizes
      <3>2. QED
        BY <1>1, <1>2, <2>1, <3>1 DEF q
    <2>3. QED
      BY <2>1, <2>2, ReaderSizes DEF q
  <1>5. QED
    BY <1>1, <1>3, <1>4

LEMMA LineSamples == \A p \in Line : p \in Nat /\ p % Channels \in 0 .. Channels - 1
  BY ReaderSizes, ChannelInRange DEF Line

(* Fresh memory, and the zeros of a dead source.                           *)
LEMMA FillIsPlaced ==
    /\ LineOK(Fill(Line, Fresh)) /\ LineOK(Fill(Line, Zero))
    /\ PortOK(Fill(Line, Unwritten))
  BY LineSamples
       DEF Fill, LineOK, PortOK, Sample, Fresh, Zero, Guess, Unwritten

(* The samples memmove and memcpy take from behind, whole frames away.     *)
LEMMA MoveSource ==
    ASSUME NEW n \in Nat, n < NFrames \div 2, NEW p \in Line,
           NEW dst, dst = Channels * (NFrames - 1 - n) + Lagrange,
           NEW src, src = Channels * n + Lagrange,
           p \in dst .. dst + Channels * n - 1
    PROVE  p - dst + src \in Line /\ (p - dst + src) % Channels = p % Channels
  <1> DEFINE k == 2 * n - NFrames + 1
  <1>1. k \in Int /\ k <= 0 /\ 2 * n + 1 <= NFrames
    BY ReaderSizes
  <1>2. p \in Nat
    BY LineSamples
  <1>3. src - dst = Channels * k
    BY ReaderSizes
  <1>4. dst \in Int /\ src \in Nat /\ Channels * n \in Nat
    BY ReaderSizes
  <1>5. Channels * k \in Int /\ Channels * k <= 0
    BY <1>1, ReaderSizes
  <1> HIDE DEF k
  <1>6. p - dst + src = p + Channels * k
    BY <1>2, <1>3, <1>4, <1>5
  <1>7. p - dst + src >= src /\ p - dst + src <= p
    BY <1>2, <1>4, <1>5, <1>6
  <1>8. p - dst + src \in Line
    BY <1>2, <1>4, <1>7, ReaderSizes DEF Line
  <1>9. p + Channels * k \in Nat
    BY <1>6, <1>8, LineSamples
  <1>10. (p + Channels * k) % Channels = p % Channels
    BY <1>1, <1>2, <1>9, SameChannel, Zenon
  <1> QED BY <1>6, <1>8, <1>10

LEMMA TailSource ==
    ASSUME NEW p \in Line, p < Lagrange * Channels
    PROVE  /\ NFrames * Channels + p \in Line
           /\ (NFrames * Channels + p) % Channels = p % Channels
  <1>1. p \in Nat
    BY LineSamples
  <1>2. /\ NFrames * Channels \in Nat /\ Lagrange * Channels \in Nat
        /\ NFrames * Channels = Channels * NFrames
        /\ Channels * (NFrames + Lagrange) = NFrames * Channels + Lagrange * Channels
    BY ReaderSizes
  <1>3. NFrames \in Int /\ p + Channels * NFrames \in Nat
        /\ NFrames * Channels + p = p + Channels * NFrames
    BY <1>1, <1>2, ReaderSizes
  <1>4. (p + Channels * NFrames) % Channels = p % Channels
    BY <1>1, <1>3, SameChannel, Zenon
  <1> QED BY <1>1, <1>2, <1>3, <1>4 DEF Line

LEMMA TailIsPlaced ==
    ASSUME NEW buf, LineOK(buf)
    PROVE  LineOK(TailToHead(buf))
  BY TailSource DEF LineOK, TailToHead

LEMMA PutIsPlaced ==
    ASSUME NEW buf, LineOK(buf), NEW frame, NEW value \in Nat \cup {Guess}
    PROVE  LineOK(PutFrame(buf, frame, value))
  <1>1. value # Unwritten
    BY DEF Guess, Unwritten
  <1>2. \A p \in Line : <<value, p % Channels>> \in Sample
    BY LineSamples DEF Sample
  <1>3. QED
    BY <1>1, <1>2 DEF LineOK, PutFrame

LEMMA CopyIsPlaced ==
    ASSUME NEW buf, LineOK(buf), NEW port, PortOK(port), NEW frames
    PROVE  /\ PortOK(CopyFrames(port, buf, frames))
           /\ \A p \in Period : p \div Channels \in frames =>
                CopyFrames(port, buf, frames)[p][1] # Unwritten
           /\ \A p \in Period : p \div Channels \notin frames =>
                CopyFrames(port, buf, frames)[p] = port[p]
  BY FrameOfSample DEF LineOK, PortOK, CopyFrames

LEMMA MoveIsPlaced ==
    ASSUME NEW buf, LineOK(buf), NEW n \in Nat, n < NFrames \div 2
    PROVE  LineOK(MoveUp(buf, n))
  <1> DEFINE dst == Channels * (NFrames - 1 - n) + Lagrange
             src == Channels * n + Lagrange
  <1>1. MoveUp(buf, n) = [p \in Line |-> IF p \in dst .. dst + Channels * n - 1
                                           THEN buf[p - dst + src] ELSE buf[p]]
    BY DEF MoveUp
  <1>2. ASSUME NEW p \in Line, p \in dst .. dst + Channels * n - 1
        PROVE  p - dst + src \in Line /\ (p - dst + src) % Channels = p % Channels
    BY <1>2, MoveSource
  <1> HIDE DEF dst, src
  <1>3. QED
    BY <1>1, <1>2 DEF LineOK

-----------------------------------------------------------------------------
(* What the end of a callback, in both programs, hands over and keeps.     *)
LEMMA FinishKeeps ==
    ASSUME ReaderTypeOK, Silence,
           NEW buf, NEW port, LineOK(buf), PortOK(port), PortOK(out),
           NEW done \in 0..NFrames, NEW missed \in 0..NFrames,
           IF backend = "jack" THEN FinishJack(buf, port, done, missed)
                               ELSE FinishPipewire(buf, done, missed),
           dead' = IF missed < NFrames THEN 0
                   ELSE IF dead < DeadPeriods THEN dead + 1 ELSE dead,
           backend = "jack" => WrittenUpTo(port, done)
    PROVE  /\ LineOK(rxbuf') /\ PortOK(out')
           /\ muted' \in BOOLEAN /\ lost_pac_cnt' \in 0 .. DeadPeriods + 1
           /\ dead' \in 0..DeadPeriods /\ dead' <= lost_pac_cnt'
           /\ dead' = DeadPeriods => muted'
           /\ missed = 0 => ~muted'
           /\ done = NFrames => \A p \in Period : out'[p][1] # Unwritten
  <1>1. /\ lost_pac_cnt \in 0 .. DeadPeriods + 1 /\ dead \in 0..DeadPeriods
        /\ dead <= lost_pac_cnt
    BY DEF ReaderTypeOK, Silence
  <1>2. /\ CountDead(missed) \in 0 .. DeadPeriods + 1
        /\ missed < NFrames => CountDead(missed) = lost_pac_cnt
        /\ missed = NFrames => CountDead(missed) >= dead'
        /\ dead' \in 0..DeadPeriods /\ (missed < NFrames => dead' = 0)
    BY <1>1, ReaderSizes DEF CountDead
  <1>3. CASE backend = "jack"
    <2> DEFINE moved == IF done < NFrames \div 2 THEN MoveUp(buf, done) ELSE buf
    <2>1. LineOK(moved)
      BY MoveIsPlaced
    <2> HIDE DEF moved
    <2>2. /\ rxbuf' = moved
          /\ out' = IF done < NFrames \div 2
                      THEN CopyFrames(port, moved, NFrames - 1 - done .. NFrames - 1)
                      ELSE port
          /\ lost_pac_cnt' = CountDead(missed)
          /\ muted' = (missed = NFrames /\ lost_pac_cnt' >= DeadPeriods)
      BY <1>3 DEF FinishJack, moved
    <2>3. PortOK(out')
      BY <2>1, <2>2, CopyIsPlaced
    <2>4. ASSUME done = NFrames, NEW p \in Period PROVE out'[p][1] # Unwritten
      <3>1. out' = port
        BY <2>2, <2>4, ReaderSizes
      <3>2. QED
        BY <1>3, <2>4, <3>1, FrameOfSample, ReaderSizes DEF WrittenUpTo
    <2>5. /\ muted' \in BOOLEAN /\ dead' <= lost_pac_cnt'
          /\ dead' = DeadPeriods => muted'
          /\ missed = 0 => ~muted'
      <3>1. dead' <= lost_pac_cnt'
        BY <1>1, <1>2, <2>2, ReaderSizes
      <3>2. dead' = DeadPeriods => missed = NFrames /\ lost_pac_cnt' >= DeadPeriods
        BY <1>1, <1>2, <2>2, ReaderSizes
      <3>3. missed = 0 => missed # NFrames
        BY ReaderSizes
      <3>4. QED
        BY <2>2, <3>1, <3>2, <3>3, Zenon
    <2>6. QED
      BY <1>2, <2>1, <2>2, <2>3, <2>4, <2>5
  <1>4. CASE backend # "jack"
    <2> DEFINE moved == IF done < NFrames \div 2 THEN MoveUp(buf, done) ELSE buf
    <2>1. LineOK(moved)
      BY MoveIsPlaced
    <2> HIDE DEF moved
    <2>2. /\ lost_pac_cnt' = IF missed = 0 THEN 0 ELSE CountDead(missed)
          /\ rxbuf' = IF missed = NFrames /\ lost_pac_cnt' = DeadPeriods
                        THEN Fill(Line, Zero) ELSE moved
          /\ out' = rxbuf'
          /\ muted' = (lost_pac_cnt' >= DeadPeriods)
      BY <1>4 DEF FinishPipewire, moved
    <2>3. LineOK(rxbuf')
      BY <2>1, <2>2, FillIsPlaced
    <2>4. PortOK(out') /\ \A p \in Period : out'[p][1] # Unwritten
      BY <2>2, <2>3, FrameOfSample DEF LineOK, PortOK
    <2>5. /\ muted' \in BOOLEAN /\ lost_pac_cnt' \in 0 .. DeadPeriods + 1
          /\ dead' <= lost_pac_cnt'
          /\ dead' = DeadPeriods => muted'
          /\ missed = 0 => ~muted'
      <3>1. lost_pac_cnt' \in 0 .. DeadPeriods + 1 /\ dead' <= lost_pac_cnt'
        BY <1>1, <1>2, <2>2, ReaderSizes
      <3>2. dead' = DeadPeriods => lost_pac_cnt' >= DeadPeriods
        BY <1>2, <3>1, ReaderSizes
      <3>3. missed = 0 => ~(lost_pac_cnt' >= DeadPeriods)
        BY <2>2, ReaderSizes
      <3>4. muted' = (lost_pac_cnt' >= DeadPeriods)
        BY <2>2
      <3>5. muted' \in BOOLEAN
        BY <3>1, <3>4, ReaderSizes
      <3>6. QED
        BY <3>1, <3>2, <3>3, <3>4, <3>5, Zenon
    <2>6. QED
      BY <1>2, <2>3, <2>4, <2>5
  <1>5. QED
    BY <1>3, <1>4

LEMMA PositionedNext == TypeOK /\ Positioned /\ [Next]_vars => Positioned'
  <1> SUFFICES ASSUME TypeOK, Positioned, [Next]_vars PROVE Positioned'
    OBVIOUS
  <1>1. Prefill' = Prefill /\ Prefill \in Nat
    BY SizesFit DEF Prefill
  <1>2. QED
    BY <1>1 DEF Next, vars, network, Emit, Vanish, Deliver, CallbackBegin, ReadFrame,
                TypeOK, Positioned

(* The position of the next frame is one of the stream.                    *)
LEMMA PositionIsNat ==
    ASSUME TypeOK, Positioned
    PROVE  NextPosition \in Nat
  BY SizesFit DEF TypeOK, Positioned, NextPosition

-----------------------------------------------------------------------------
LEMMA ReaderInitHolds == ReaderInit => ReaderInv
  <1> SUFFICES ASSUME ReaderInit PROVE ReaderInv
    OBVIOUS
  <1>1. TypeOK
    BY JitterInit DEF ReaderInit, JitterInv
  <1>2. LineOK(rxbuf) /\ PortOK(out)
    BY FillIsPlaced DEF ReaderInit
  <1>3. ReaderTypeOK
    <2>1. /\ 0 \in 0..NFrames /\ 0 \in 0 .. DeadPeriods + 1 /\ 0 \in 0..DeadPeriods
          /\ 0 \in Nat
      BY ReaderSizes
    <2>2. QED
      BY <1>1, <1>2, <2>1, Zenon DEF ReaderInit, ReaderTypeOK, LineOK, PortOK
  <1>4. Positioned
    BY SizesFit DEF ReaderInit, Init, Positioned
  <1>5. left = 0 /\ asked = 0
    BY DEF ReaderInit, Init
  <1>6. Rounds /\ Silence /\ EverySlotWritten
    BY <1>5, ReaderSizes
       DEF ReaderInit, Rounds, Silence, DeadIsSilent, EverySlotWritten, Ended
  <1>7. QED
    BY <1>2, <1>3, <1>4, <1>6 DEF ReaderInv

(* The network and the emitter leave the reader alone.                     *)
LEMMA OutsideKeeps ==
    ASSUME ReaderInv, TypeOK', Positioned', UNCHANGED <<left, asked>>, UNCHANGED reader
    PROVE  ReaderInv'
  BY DEF reader, ReaderInv, ReaderTypeOK, Rounds, Silence, DeadIsSilent, Ended,
         EverySlotWritten, LineOK, PortOK, WrittenUpTo

LEMMA LastPlayedIsNat ==
    ASSUME PortOK(out), owed \in Nat
    PROVE  LastPlayed \in Nat
  <1> DEFINE played == {out[p][1] : p \in Period}
             Newest(n) == n > owed /\ \A m \in played : m <= n
  <1>1. LastPlayed = IF \E n \in played : Newest(n) THEN CHOOSE n \in played : Newest(n)
                                                     ELSE owed
    BY DEF LastPlayed
  <1>2. ASSUME NEW n \in played, Newest(n) PROVE n \in Nat
    <2>1. PICK p \in Period : n = out[p][1]
      BY <1>2
    <2>2. n \in Nat \cup {Zero, Guess, Fresh, Unwritten}
      BY <2>1, FrameOfSample DEF PortOK, Sample
    <2>3. n > owed
      BY <1>2
    <2>4. QED
      BY <2>2, <2>3 DEF Zero, Guess, Fresh, Unwritten
  <1> HIDE DEF played, Newest
  <1>3. CASE \E n \in played : Newest(n)
    BY <1>1, <1>2, <1>3
  <1>4. CASE ~ \E n \in played : Newest(n)
    BY <1>1, <1>4
  <1>5. QED
    BY <1>3, <1>4

LEMMA BeginKeeps ==
    ASSUME ReaderInv, BeginJack \/ BeginPipewire
    PROVE  ReaderInv'
  <1>1. /\ CallbackBegin /\ rxbuf' = TailToHead(rxbuf)
        /\ lframe' = 0 /\ llost' = 0 /\ lost' = 0
        /\ owed' = LastPlayed /\ gap' = FALSE /\ gapBefore' = gap
        /\ UNCHANGED <<backend, muted, lost_pac_cnt, dead>>
        /\ out' = out \/ out' = Fill(Line, Unwritten)
    BY DEF BeginJack, BeginPipewire, Begin
  <1>2. left' = NFrames /\ asked' = asked
    BY <1>1 DEF CallbackBegin
  <1>3. ReaderTypeOK /\ Positioned /\ TypeOK /\ Silence /\ LineOK(rxbuf) /\ PortOK(out)
    BY DEF ReaderInv, ReaderTypeOK
  <1>4. TypeOK' /\ Positioned'
    BY <1>1, <1>3, JitterTypeNext, PositionedNext DEF Next
  <1>5. LineOK(rxbuf') /\ PortOK(out')
    BY <1>1, <1>3, TailIsPlaced, FillIsPlaced
  <1>6. LastPlayed \in Nat
    BY <1>3, LastPlayedIsNat DEF ReaderTypeOK
  <1>7. ReaderTypeOK'
    <2>1. 0 \in 0..NFrames
      BY ReaderSizes
    <2>2. FALSE \in BOOLEAN
      OBVIOUS
    <2>3. /\ backend' = backend /\ muted' = muted /\ lost_pac_cnt' = lost_pac_cnt
          /\ dead' = dead
      BY <1>1
    <2>4. QED
      BY <1>1, <1>3, <1>4, <1>5, <1>6, <2>1, <2>2, <2>3, Zenon
         DEF ReaderTypeOK, LineOK, PortOK
  <1>8. WrittenUpTo(out', 0)
    BY FrameOfSample, ReaderSizes DEF WrittenUpTo
  <1>9. Rounds'
    BY <1>1, <1>2, <1>8, ReaderSizes DEF Rounds
  <1>10. Silence' /\ EverySlotWritten'
    BY <1>1, <1>2, <1>3, ReaderSizes DEF Silence, DeadIsSilent, EverySlotWritten, Ended
  <1>11. QED
    BY <1>4, <1>5, <1>7, <1>9, <1>10 DEF ReaderInv

(* A round of the loop: done frames are written after it, missed are lost. *)
LEMMA RoundKeeps ==
    ASSUME ReaderInv, ReadFrame,
           NEW buf, NEW port, LineOK(buf), PortOK(port), NEW done, NEW missed,
           done \in 0 .. NFrames - left + 1, missed \in 0 .. NFrames - left + 1,
           After(buf, port, done, missed),
           UNCHANGED <<backend, owed, gapBefore>>,
           llost' \in 0..missed, gap' \in BOOLEAN,
           ~gap' => done = NFrames - left + 1,
           backend = "jack" => WrittenUpTo(port, done)
    PROVE  ReaderInv'
  <1>1. ReaderTypeOK /\ Positioned /\ TypeOK /\ Silence /\ PortOK(out)
    BY DEF ReaderInv, ReaderTypeOK
  <1>2. TypeOK' /\ Positioned'
    BY <1>1, JitterTypeNext, PositionedNext DEF Next
  <1>3. /\ left \in 1..NFrames /\ left' = left - 1 /\ asked' = asked + 1
        /\ asked \in Nat
    BY <1>1 DEF ReadFrame, TypeOK
  <1>4. lframe' = done /\ lost' = missed
    BY DEF After
  <1>5. done \in 0..NFrames /\ missed \in 0..NFrames
    BY <1>3, ReaderSizes
  <1>6. CASE left > 1
    <2>1. rxbuf' = buf /\ out' = port /\ UNCHANGED <<lost_pac_cnt, muted, dead>>
      BY <1>6 DEF After
    <2>2. ReaderTypeOK'
      BY <1>1, <1>2, <1>4, <1>5, <2>1, ReaderSizes DEF ReaderTypeOK, LineOK, PortOK
    <2>3. Rounds'
      BY <1>3, <1>4, <1>5, <2>1, ReaderSizes DEF Rounds
    <2>4. Silence' /\ EverySlotWritten'
      BY <1>1, <1>3, <1>6, <2>1 DEF Silence, DeadIsSilent, EverySlotWritten, Ended
    <2>5. QED
      BY <1>2, <2>1, <2>2, <2>3, <2>4 DEF ReaderInv
  <1>7. CASE ~(left > 1)
    <2>1. left = 1 /\ left' = 0
      BY <1>3, <1>7
    <2>2. /\ IF backend = "jack" THEN FinishJack(buf, port, done, missed)
                                 ELSE FinishPipewire(buf, done, missed)
          /\ dead' = IF missed < NFrames THEN 0
                     ELSE IF dead < DeadPeriods THEN dead + 1 ELSE dead
      BY <1>7 DEF After
    <2>3. /\ LineOK(rxbuf') /\ PortOK(out')
          /\ muted' \in BOOLEAN /\ lost_pac_cnt' \in 0 .. DeadPeriods + 1
          /\ dead' \in 0..DeadPeriods /\ dead' <= lost_pac_cnt'
          /\ dead' = DeadPeriods => muted'
          /\ missed = 0 => ~muted'
          /\ done = NFrames => \A p \in Period : out'[p][1] # Unwritten
      BY <1>1, <1>5, <2>2, FinishKeeps
    <2>4. ReaderTypeOK'
      BY <1>1, <1>2, <1>4, <1>5, <2>3, ReaderSizes DEF ReaderTypeOK, LineOK, PortOK
    <2>5. Rounds'
      BY <1>3, <1>4, <1>5, <2>1, ReaderSizes DEF Rounds
    <2>6. Silence'
      BY <1>4, <2>3 DEF Silence, DeadIsSilent
    <2>7. EverySlotWritten'
      BY <1>3, <2>1, <2>3, ReaderSizes DEF EverySlotWritten
    <2>8. QED
      BY <1>2, <2>3, <2>4, <2>5, <2>6, <2>7 DEF ReaderInv
  <1>8. QED
    BY <1>6, <1>7

(* A frame written: behind the others in rxbuf, and for JACK in the ports. *)
LEMMA WriteKeeps ==
    ASSUME ReaderInv, ReadFrame, NEW value \in Nat \cup {Guess},
           NEW missed, missed \in 0 .. NFrames - left + 1,
           Write(value, missed),
           UNCHANGED <<backend, owed, gapBefore>>,
           llost' \in 0..missed, gap' \in BOOLEAN, ~gap' => ~gap
    PROVE  ReaderInv'
  <1> DEFINE buf == PutFrame(rxbuf, lframe + Lagrange, value)
             port == IF backend = "jack" THEN CopyFrames(out, buf, {lframe}) ELSE out
  <1>1. After(buf, port, lframe + 1, missed)
    BY DEF Write
  <1>2. LineOK(buf)
    BY PutIsPlaced DEF ReaderInv
  <1> HIDE DEF buf
  <1>3. PortOK(port)
    BY <1>2, CopyIsPlaced DEF ReaderInv
  <1>4. left \in 1..NFrames /\ lframe \in 0 .. NFrames - left
    BY ReaderSizes DEF ReaderInv, ReaderTypeOK, TypeOK, Rounds, ReadFrame
  <1>5. lframe + 1 \in 0 .. NFrames - left + 1
    BY <1>4, ReaderSizes
  <1>6. ~gap' => lframe + 1 = NFrames - left + 1
    BY <1>4, ReaderSizes DEF ReaderInv, Rounds
  <1>7. ASSUME backend = "jack" PROVE WrittenUpTo(port, lframe + 1)
    <2>1. WrittenUpTo(out, lframe)
      BY <1>4, <1>7 DEF ReaderInv, Rounds
    <2>2. port = CopyFrames(out, buf, {lframe})
      BY <1>7
    <2>3. SUFFICES ASSUME NEW p \in Period, p \div Channels < lframe + 1
                   PROVE  port[p][1] # Unwritten
      BY DEF WrittenUpTo
    <2>4. p \div Channels \in Nat
      BY FrameOfSample, ReaderSizes
    <2>5. CASE p \div Channels = lframe
      BY <1>2, <2>2, <2>5, CopyIsPlaced DEF ReaderInv
    <2>6. CASE p \div Channels # lframe
      <3>1. p \div Channels < lframe
        BY <1>4, <2>3, <2>4, <2>6
      <3>2. port[p] = out[p]
        BY <1>2, <2>2, <2>6, CopyIsPlaced DEF ReaderInv
      <3>3. QED
        BY <2>1, <3>1, <3>2 DEF WrittenUpTo
    <2>7. QED
      BY <2>5, <2>6
  <1> HIDE DEF port
  <1>8. QED
    BY <1>1, <1>2, <1>3, <1>5, <1>6, <1>7, RoundKeeps

LEMMA PresentKeeps ==
    ASSUME ReaderInv, Present
    PROVE  ReaderInv'
  <1>1. /\ ReadFrame /\ llost' = 0 /\ Write(NextPosition, lost)
        /\ UNCHANGED <<backend, owed, gapBefore>> /\ gap' = gap
    BY DEF Present
  <1>2. NextPosition \in Nat
    BY PositionIsNat DEF ReaderInv, ReaderTypeOK
  <1>3. lost \in 0 .. NFrames - left + 1 /\ gap \in BOOLEAN /\ 0 \in 0..lost
    BY ReaderSizes DEF ReaderInv, ReaderTypeOK, TypeOK, Rounds
  <1>4. QED
    BY <1>1, <1>2, <1>3, WriteKeeps

LEMMA MissingKeeps ==
    ASSUME ReaderInv, Missing
    PROVE  ReaderInv'
  <1>1. /\ ReadFrame /\ llost' = llost + 1 /\ gap' = (gap \/ llost' >= 3)
        /\ UNCHANGED <<backend, owed, gapBefore>>
    BY DEF Missing
  <1>2. /\ left \in 1..NFrames /\ lframe \in 0 .. NFrames - left
        /\ lost \in 0 .. NFrames - left /\ llost \in 0..lost /\ gap \in BOOLEAN
    BY <1>1, ReaderSizes DEF ReaderInv, ReaderTypeOK, TypeOK, Rounds, ReadFrame
  <1>3. /\ lost + 1 \in 0 .. NFrames - left + 1 /\ llost' \in 0 .. lost + 1
        /\ gap' \in BOOLEAN /\ (~gap' => ~gap)
    BY <1>1, <1>2, ReaderSizes
  <1>4. CASE llost' < 3
    <2>1. Write(Guess, lost + 1)
      BY <1>4 DEF Missing
    <2>2. QED
      BY <1>1, <1>3, <2>1, WriteKeeps
  <1>5. CASE ~(llost' < 3)
    <2>1. After(rxbuf, out, lframe, lost + 1)
      BY <1>5 DEF Missing
    <2>2. gap'
      <3>1. llost' >= 3
        BY <1>1, <1>2, <1>5
      <3>2. QED
        BY <1>1, <3>1, Zenon
    <2>3. LineOK(rxbuf) /\ PortOK(out) /\ (backend = "jack" => WrittenUpTo(out, lframe))
      BY <1>2 DEF ReaderInv, Rounds
    <2>4. lframe \in 0 .. NFrames - left + 1
      BY <1>2, ReaderSizes
    <2>5. QED
      BY <1>1, <1>3, <2>1, <2>2, <2>3, <2>4, RoundKeeps
  <1>6. QED
    BY <1>4, <1>5

LEMMA ReaderStepIsJitterStep == [ReaderNext]_rvars => [Next]_vars
  BY DEF ReaderNext, rvars, BeginJack, BeginPipewire, Begin, Present, Missing, Next

LEMMA ReaderStepHolds == ReaderInv /\ [ReaderNext]_rvars => ReaderInv'
  <1> SUFFICES ASSUME ReaderInv, [ReaderNext]_rvars PROVE ReaderInv'
    OBVIOUS
  <1>1. TypeOK' /\ Positioned'
    BY ReaderStepIsJitterStep, JitterTypeNext, PositionedNext DEF ReaderInv, ReaderTypeOK
  <1>2. CASE (Emit \/ Vanish \/ Deliver) /\ UNCHANGED reader
    BY <1>1, <1>2, OutsideKeeps DEF Emit, Vanish, Deliver
  <1>3. CASE UNCHANGED rvars
    BY <1>1, <1>3, OutsideKeeps DEF rvars, vars
  <1>4. QED
    BY <1>2, <1>3, BeginKeeps, PresentKeeps, MissingKeeps DEF ReaderNext

LEMMA ReaderInvHolds == ReaderSpec => []ReaderInv
  BY ReaderInitHolds, ReaderStepHolds, PTL DEF ReaderSpec

-----------------------------------------------------------------------------
(* However many frames are missing, the memcpy and the memmove of the      *)
(* readers leave every sample on its channel, and the server plays nothing *)
(* it finds in its buffers unless three frames in a row are missing        *)
(* (vban_functions.h:749, 776-779, 833-857).                               *)
THEOREM BuffersArePlaced == ReaderSpec => []BufferInv
<1>1. ReaderInv => BufferInv
  BY DEF ReaderInv, BufferInv, PortOK, ChannelsKept
<1>2. QED
  BY <1>1, ReaderInvHolds, PTL

(* Both readers silence a source after DeadPeriods dead periods in a row   *)
(* and are heard at once after a complete one, although that of JACK never *)
(* clears its counter (vban_functions.h:794-807, 860-872).                 *)
THEOREM DeadSourceIsSilenced == ReaderSpec => []DeadIsSilent
<1>1. ReaderInv => DeadIsSilent
  BY DEF ReaderInv, Silence
<1>2. QED
  BY <1>1, ReaderInvHolds, PTL

(* What holds of the ring holds under the readers of both programs.        *)
THEOREM ReadersNeverStarve == ReaderSpec => [](NoStarvation /\ NoOverflow)
<1>1. ReaderInit => JitterInv
  BY JitterInit DEF ReaderInit
<1>2. JitterInv /\ [ReaderNext]_rvars => JitterInv'
  BY JitterNext, ReaderStepIsJitterStep
<1>3. JitterInv => NoStarvation /\ NoOverflow
  BY DEF JitterInv
<1>4. QED
  BY <1>1, <1>2, <1>3, PTL DEF ReaderSpec

-----------------------------------------------------------------------------
(* The order of what is played.  V is the position a frame of rxbuf holds. *)
V(buf, i) == buf[Channels * i][1]

(* The frames from a to before b hold the positions from first to before   *)
(* next, in order and once, besides what is no position.                   *)
Run(buf, a, b, first, next) ==
    /\ \A i, j \in a .. b - 1 :
         i < j /\ V(buf, i) > 0 /\ V(buf, j) > 0 => V(buf, i) < V(buf, j)
    /\ \A i \in a .. b - 1 : V(buf, i) > 0 => first <= V(buf, i) /\ V(buf, i) < next
    /\ \A v \in first .. next - 1 : \E i \in a .. b - 1 : V(buf, i) = v

Uniform(buf, a, b) ==
    \A p \in Line : a <= p \div Channels /\ p \div Channels < b =>
                      buf[p][1] = V(buf, p \div Channels)

LineFrames == 0 .. NFrames + Lagrange - 1

LEMMA SampleOf ==
    ASSUME NEW i \in LineFrames, NEW c \in 0 .. Channels - 1
    PROVE  /\ Channels * i + c \in Line
           /\ (Channels * i + c) \div Channels = i
           /\ i < NFrames => Channels * i + c \in Period
  <1> DEFINE p == Channels * i + c
             q == p \div Channels
  <1>1. i \in Nat /\ c \in Nat /\ c < Channels /\ Channels \in Nat /\ Channels >= 1
    BY ReaderSizes DEF LineFrames
  <1>2. Channels * i \in Nat /\ p \in Nat
    BY <1>1
  <1>3. \A n \in Nat : i + 1 <= n => Channels * i + Channels <= Channels * n
    <2> SUFFICES ASSUME NEW n \in Nat, i + 1 <= n
                 PROVE  Channels * i + Channels <= Channels * n
      OBVIOUS
    <2>1. Channels * n = Channels * i + Channels + Channels * (n - i - 1)
      BY <1>1
    <2>2. Channels * (n - i - 1) \in Nat
      BY <1>1
    <2> QED BY <1>1, <1>2, <2>1, <2>2
  <1>4. p < Channels * i + Channels
    BY <1>1, <1>2
  <1>5. p \in Line
    <2>1. NFrames + Lagrange \in Nat /\ i + 1 <= NFrames + Lagrange
      BY <1>1, ReaderSizes DEF LineFrames
    <2>2. Channels * i + Channels <= Channels * (NFrames + Lagrange)
      BY <1>3, <2>1
    <2>3. Channels * (NFrames + Lagrange) \in Nat
      BY ReaderSizes
    <2> HIDE DEF p
    <2> QED BY <1>1, <1>2, <1>4, <2>2, <2>3 DEF Line
  <1>6. i < NFrames => p \in Period
    <2> SUFFICES ASSUME i < NFrames PROVE p \in Period
      OBVIOUS
    <2>1. Channels * i + Channels <= Channels * NFrames /\ Channels * NFrames \in Nat
      BY <1>1, <1>3, ReaderSizes
    <2> HIDE DEF p
    <2> QED BY <1>1, <1>2, <1>4, <2>1 DEF Period
  <1>7. q = i
    <2>1. q \in Nat /\ Channels * q <= p /\ p < Channels * q + Channels
      <3> HIDE DEF p
      <3>1. \A x \in Nat : /\ x \div Channels \in Nat
                           /\ x = Channels * (x \div Channels) + (x % Channels)
                           /\ x % Channels \in 0 .. Channels - 1
        BY <1>1
      <3>2. Channels * (p \div Channels) \in Nat
        BY <1>1, <1>2, <3>1
      <3> QED BY <1>1, <1>2, <3>1, <3>2
    <2> HIDE DEF q
    <2>2. Channels * q \in Nat
      BY <1>1, <2>1
    <2>3. ~(i + 1 <= q)
      BY <1>1, <1>2, <1>3, <1>4, <2>1, <2>2
    <2>4. ~(q + 1 <= i)
      <3> SUFFICES ASSUME q + 1 <= i PROVE FALSE
        OBVIOUS
      <3>1. Channels * i = Channels * q + Channels + Channels * (i - q - 1)
        BY <1>1, <2>1
      <3>2. Channels * (i - q - 1) \in Nat
        BY <1>1, <2>1
      <3> QED BY <1>1, <1>2, <2>1, <2>2, <3>1, <3>2
    <2> QED BY <1>1, <2>1, <2>3, <2>4
  <1> QED BY <1>5, <1>6, <1>7

LEMMA StartOf ==
    ASSUME NEW i \in LineFrames
    PROVE  /\ Channels * i \in Line /\ (Channels * i) \div Channels = i
           /\ i < NFrames => Channels * i \in Period
  <1>1. 0 \in 0 .. Channels - 1 /\ Channels * i + 0 = Channels * i
    BY ReaderSizes DEF LineFrames
  <1> QED BY <1>1, SampleOf

LEMMA FrameOfLine ==
    ASSUME NEW p \in Line
    PROVE  p \div Channels \in LineFrames
  <1> DEFINE q == p \div Channels
  <1>1. p \in Nat /\ p < Channels * (NFrames + Lagrange) /\ NFrames + Lagrange \in Nat
    BY ReaderSizes DEF Line
  <1>2. q \in Nat /\ Channels * q <= p
    BY <1>1, ReaderSizes
  <1> HIDE DEF q
  <1>3. ~(q >= NFrames + Lagrange)
    <2> SUFFICES ASSUME q >= NFrames + Lagrange PROVE FALSE
      OBVIOUS
    <2>1. Channels * q = Channels * (NFrames + Lagrange) + Channels * (q - (NFrames + Lagrange))
      BY <1>1, <1>2, ReaderSizes
    <2>2. Channels * (q - (NFrames + Lagrange)) \in Nat
      BY <1>1, <1>2, ReaderSizes
    <2>3. Channels * q \in Nat /\ Channels * (NFrames + Lagrange) \in Nat
      BY <1>1, <1>2, ReaderSizes
    <2> QED BY <1>1, <1>2, <2>1, <2>2, <2>3
  <1> QED BY <1>1, <1>2, <1>3, ReaderSizes DEF LineFrames, q

LEMMA ValueIsInt ==
    ASSUME NEW buf, LineOK(buf)
    PROVE  /\ \A p \in Line : buf[p][1] \in Int
           /\ \A i \in LineFrames : V(buf, i) \in Int
  <1>1. \A s \in Sample : s[1] \in Int
    BY DEF Sample, Zero, Guess, Fresh, Unwritten
  <1>2. \A p \in Line : buf[p][1] \in Int
    BY <1>1 DEF LineOK
  <1> QED BY <1>2, StartOf DEF V

LEMMA PutIs ==
    ASSUME NEW buf, LineOK(buf), NEW frame \in LineFrames, NEW value
    PROVE  LET put == PutFrame(buf, frame, value)
           IN /\ \A p \in Line : put[p][1] = IF p \div Channels = frame THEN value
                                             ELSE buf[p][1]
              /\ V(put, frame) = value
              /\ \A i \in LineFrames : i # frame => V(put, i) = V(buf, i)
  <1> DEFINE put == PutFrame(buf, frame, value)
  <1>1. \A p \in Line : put[p][1] = IF p \div Channels = frame THEN value ELSE buf[p][1]
    BY DEF PutFrame
  <1> HIDE DEF put
  <1>2. V(put, frame) = value
    BY <1>1, StartOf DEF V
  <1>3. \A i \in LineFrames : i # frame => V(put, i) = V(buf, i)
    BY <1>1, StartOf DEF V
  <1> QED BY <1>1, <1>2, <1>3 DEF put

(* A run with one more frame, a position or a predicted one.               *)
LEMMA RunGrows ==
    ASSUME NEW buf, NEW more, NEW a \in Nat, NEW b \in Nat, a <= b,
           NEW first \in Nat, NEW next \in Nat, 0 < first, first <= next,
           \A i \in a .. b : V(buf, i) \in Int,
           \A i \in a .. b - 1 : V(more, i) = V(buf, i),
           Run(buf, a, b, first, next)
    PROVE  /\ V(more, b) = next => Run(more, a, b + 1, first, next + 1)
           /\ V(more, b) = Guess => Run(more, a, b + 1, first, next)
  <1>1. b \in a .. b /\ \A i \in a .. (b + 1) - 1 : i \in a .. b - 1 \/ i = b
    OBVIOUS
  <1>2. ASSUME V(more, b) = next PROVE Run(more, a, b + 1, first, next + 1)
    <2>1. ASSUME NEW i \in a .. (b + 1) - 1, NEW j \in a .. (b + 1) - 1,
                 i < j, V(more, i) > 0, V(more, j) > 0
          PROVE  V(more, i) < V(more, j)
      <3>1. i \in a .. b - 1
        BY <2>1
      <3>2. V(more, i) = V(buf, i) /\ V(buf, i) > 0 /\ V(buf, i) < next
        BY <2>1, <3>1 DEF Run
      <3>3. CASE j = b
        BY <1>2, <3>2, <3>3
      <3>4. CASE j \in a .. b - 1
        BY <2>1, <3>1, <3>2, <3>4 DEF Run
      <3> QED BY <1>1, <2>1, <3>3, <3>4
    <2>2. ASSUME NEW i \in a .. (b + 1) - 1, V(more, i) > 0
          PROVE  first <= V(more, i) /\ V(more, i) < next + 1
      <3>1. CASE i = b
        BY <1>2, <3>1
      <3>2. CASE i \in a .. b - 1
        <4>1. V(more, i) = V(buf, i) /\ V(buf, i) \in Int
          BY <3>2
        <4>2. first <= V(buf, i) /\ V(buf, i) < next
          BY <2>2, <3>2, <4>1 DEF Run
        <4> QED BY <4>1, <4>2
      <3> QED BY <1>1, <3>1, <3>2
    <2>3. ASSUME NEW v \in first .. (next + 1) - 1
          PROVE  \E i \in a .. (b + 1) - 1 : V(more, i) = v
      <3>1. CASE v = next
        <4>1. b \in a .. (b + 1) - 1
          OBVIOUS
        <4> QED BY <1>2, <3>1, <4>1
      <3>2. CASE v # next
        <4>1. v \in first .. next - 1
          BY <3>2
        <4>2. PICK i \in a .. b - 1 : V(buf, i) = v
          BY <4>1 DEF Run
        <4>3. i \in a .. (b + 1) - 1
          OBVIOUS
        <4> QED BY <4>2, <4>3
      <3> QED BY <3>1, <3>2
    <2> QED BY <2>1, <2>2, <2>3, Zenon DEF Run
  <1>3. ASSUME V(more, b) = Guess PROVE Run(more, a, b + 1, first, next)
    <2>1. ~(V(more, b) > 0)
      BY <1>3 DEF Guess
    <2>2. ASSUME NEW i \in a .. (b + 1) - 1, NEW j \in a .. (b + 1) - 1,
                 i < j, V(more, i) > 0, V(more, j) > 0
          PROVE  V(more, i) < V(more, j)
      <3>1. i \in a .. b - 1 /\ j \in a .. b - 1
        BY <1>1, <2>1, <2>2
      <3> QED BY <2>2, <3>1 DEF Run
    <2>3. ASSUME NEW i \in a .. (b + 1) - 1, V(more, i) > 0
          PROVE  first <= V(more, i) /\ V(more, i) < next
      <3>1. i \in a .. b - 1
        BY <1>1, <2>1, <2>3
      <3> QED BY <2>3, <3>1 DEF Run
    <2>4. ASSUME NEW v \in first .. next - 1
          PROVE  \E i \in a .. (b + 1) - 1 : V(more, i) = v
      <3>1. PICK i \in a .. b - 1 : V(buf, i) = v
        BY DEF Run
      <3>2. i \in a .. (b + 1) - 1
        OBVIOUS
      <3> QED BY <3>1, <3>2
    <2> QED BY <2>2, <2>3, <2>4, Zenon DEF Run
  <1> QED BY <1>2, <1>3

(* What a period with no gap has made of its buffers after done frames:    *)
(* behind a head of older frames the ones read, from c on, and behind an   *)
(* orderly period the whole line in order.                                 *)
Flows(buf, port, done, next) ==
    \E c \in owed + 1 .. next :
      /\ \A p \in Line : p \div Channels < Lagrange => buf[p][1] < c
      /\ Uniform(buf, Lagrange, Lagrange + done)
      /\ Run(buf, Lagrange, Lagrange + done, c, next)
      /\ ~gapBefore => /\ Uniform(buf, 0, Lagrange + done)
                       /\ Run(buf, 0, Lagrange + done, owed + 1, next)
      /\ backend = "jack" => \A p \in Period : p \div Channels < done => port[p] = buf[p]

(* The last frame read of those that are played in this period, if any.    *)
LastRead(buf, done, j) ==
    /\ j \in Lagrange .. NFrames - 1 /\ j < Lagrange + done
    /\ V(buf, j) > 0
    /\ \A i \in j + 1 .. NFrames - 1 : i < Lagrange + done => ~(V(buf, i) > 0)
Reads(buf, done, missing) ==
    missing < 3 /\ (missing = done \/ \E j : LastRead(buf, done, j))

LEMMA UniformGrows ==
    ASSUME NEW buf, LineOK(buf), NEW a \in Nat, NEW b \in LineFrames, NEW value,
           Uniform(buf, a, b)
    PROVE  Uniform(PutFrame(buf, b, value), a, b + 1)
  <1> DEFINE put == PutFrame(buf, b, value)
  <1>1. /\ \A p \in Line : put[p][1] = IF p \div Channels = b THEN value ELSE buf[p][1]
        /\ V(put, b) = value
        /\ \A i \in LineFrames : i # b => V(put, i) = V(buf, i)
    BY PutIs
  <1> HIDE DEF put
  <1> SUFFICES ASSUME NEW p \in Line, a <= p \div Channels, p \div Channels < b + 1
               PROVE  put[p][1] = V(put, p \div Channels)
    BY DEF Uniform, put
  <1>2. p \div Channels \in LineFrames /\ p \div Channels \in Int /\ b \in Int
    BY FrameOfLine, ReaderSizes DEF LineFrames
  <1>3. CASE p \div Channels = b
    BY <1>1, <1>3
  <1>4. CASE p \div Channels # b
    <2>1. p \div Channels < b
      BY <1>2, <1>4
    <2>2. buf[p][1] = V(buf, p \div Channels)
      BY <2>1 DEF Uniform
    <2> QED BY <1>1, <1>2, <1>4, <2>2
  <1> QED BY <1>3, <1>4

LEMMA WriteFlows ==
    ASSUME LineOK(rxbuf), NEW done \in Nat, done < NFrames, owed \in Nat,
           NEW next \in Nat, NEW missing \in Nat,
           Flows(rxbuf, out, done, next), Reads(rxbuf, done, missing),
           NEW value, NEW then, NEW lasts \in Nat, lasts < 3,
           \/ value = next /\ then = next + 1
           \/ value = Guess /\ then = next /\ lasts = missing + 1,
           NFrames >= Lagrange + 3,
           NEW buf, buf = PutFrame(rxbuf, done + Lagrange, value),
           NEW port, backend = "jack" => port = CopyFrames(out, buf, {done})
    PROVE  Flows(buf, port, done + 1, then) /\ Reads(buf, done + 1, lasts)
  <1> DEFINE b == Lagrange + done
  <1>1. /\ Lagrange \in Nat /\ NFrames \in Nat /\ b \in Nat /\ Lagrange <= b
        /\ done + Lagrange = b /\ Lagrange + (done + 1) = b + 1 /\ b \in LineFrames
        /\ done \in 0 .. NFrames - 1
    BY ReaderSizes DEF LineFrames
  <1>2. buf = PutFrame(rxbuf, b, value)
    BY <1>1
  <1> HIDE DEF b
  <1>3. /\ \A p \in Line : buf[p][1] = IF p \div Channels = b THEN value ELSE rxbuf[p][1]
        /\ V(buf, b) = value
        /\ \A i \in LineFrames : i # b => V(buf, i) = V(rxbuf, i)
    BY <1>1, <1>2, PutIs
  <1>4. \A i \in LineFrames : V(rxbuf, i) \in Int
    BY ValueIsInt
  <1>5. \A i \in 0 .. b : i \in LineFrames
    BY <1>1 DEF LineFrames
  <1>6. ASSUME NEW a \in Nat, a <= b, NEW first \in Nat, 0 < first, first <= next,
               Run(rxbuf, a, b, first, next)
        PROVE  Run(buf, a, b + 1, first, then)
    <2>1. \A i \in a .. b : V(rxbuf, i) \in Int
      BY <1>1, <1>4, <1>5
    <2>2. \A i \in a .. b - 1 : V(buf, i) = V(rxbuf, i)
      <3>1. \A i \in a .. b - 1 : i \in 0 .. b /\ i # b
        BY <1>1
      <3> QED BY <1>3, <1>5, <3>1
    <2>3. /\ V(buf, b) = next => Run(buf, a, b + 1, first, next + 1)
          /\ V(buf, b) = Guess => Run(buf, a, b + 1, first, next)
      BY <1>1, <1>6, <2>1, <2>2, RunGrows
    <2> QED BY <1>3, <2>3
  <1>7. Flows(buf, port, done + 1, then)
    <2>1. PICK c \in owed + 1 .. next :
            /\ \A p \in Line : p \div Channels < Lagrange => rxbuf[p][1] < c
            /\ Uniform(rxbuf, Lagrange, b)
            /\ Run(rxbuf, Lagrange, b, c, next)
            /\ ~gapBefore => Uniform(rxbuf, 0, b) /\ Run(rxbuf, 0, b, owed + 1, next)
            /\ backend = "jack" => \A p \in Period : p \div Channels < done => out[p] = rxbuf[p]
      BY Zenon DEF Flows, b
    <2>2. /\ c \in owed + 1 .. then /\ c \in Nat /\ 0 < c /\ c <= next
          /\ owed + 1 \in Nat /\ 0 < owed + 1 /\ owed + 1 <= next
      BY <2>1
    <2>3. ASSUME NEW p \in Line, p \div Channels < Lagrange PROVE buf[p][1] < c
      <3>1. p \div Channels # b
        BY <1>1, <2>3
      <3>2. buf[p][1] = rxbuf[p][1]
        BY <1>3, <3>1
      <3> QED BY <2>1, <2>3, <3>2, Zenon
    <2>4. Uniform(buf, Lagrange, b + 1) /\ (~gapBefore => Uniform(buf, 0, b + 1))
      <3>1. 0 \in Nat
        OBVIOUS
      <3>2. \A a \in Nat : Uniform(rxbuf, a, b) => Uniform(buf, a, b + 1)
        BY <1>1, <1>2, UniformGrows, Zenon
      <3> QED BY <1>1, <2>1, <3>1, <3>2, Zenon
    <2>5. Run(buf, Lagrange, b + 1, c, then)
      BY <1>1, <1>6, <2>1, <2>2, Zenon
    <2>6. ~gapBefore => Run(buf, 0, b + 1, owed + 1, then)
      <3>1. 0 \in Nat /\ 0 <= b
        BY <1>1
      <3> QED BY <1>6, <2>1, <2>2, <3>1, Zenon
    <2>7. ASSUME backend = "jack", NEW p \in Period, p \div Channels < done + 1
          PROVE  port[p] = buf[p]
      <3>1. port[p] = IF p \div Channels = done THEN buf[p] ELSE out[p]
        BY <2>7, FrameOfSample DEF CopyFrames
      <3>2. CASE p \div Channels = done
        BY <3>1, <3>2
      <3>3. CASE p \div Channels # done
        <4>1. p \in Line /\ p \div Channels \in Nat
          BY FrameOfSample, ReaderSizes
        <4>2. p \div Channels < done /\ p \div Channels # b
          BY <1>1, <2>7, <3>3, <4>1
        <4>3. out[p] = rxbuf[p]
          BY <2>1, <2>7, <4>2, Zenon
        <4>4. buf[p] = rxbuf[p]
          BY <1>2, <4>1, <4>2 DEF PutFrame
        <4> QED BY <3>1, <3>3, <4>3, <4>4
      <3> QED BY <3>2, <3>3
    <2> QED BY <1>1, <2>2, <2>3, <2>4, <2>5, <2>6, <2>7, Zenon DEF Flows
  <1>8. Reads(buf, done + 1, lasts)
    <2>1. ASSUME NEW j, LastRead(rxbuf, done, j), NFrames <= b \/ value = Guess
          PROVE  LastRead(buf, done + 1, j)
      <3>1. j \in Lagrange .. NFrames - 1 /\ j < b /\ j \in 0..b /\ j # b
        BY <1>1, <2>1 DEF LastRead, b
      <3>2. V(buf, j) > 0
        BY <1>3, <1>5, <2>1, <3>1 DEF LastRead
      <3>3. ASSUME NEW i \in j + 1 .. NFrames - 1, i < b + 1
            PROVE  ~(V(buf, i) > 0)
        <4>1. CASE i = b
          <5>1. value = Guess
            BY <1>1, <2>1, <4>1
          <5> QED BY <1>3, <4>1, <5>1 DEF Guess
        <4>2. CASE i # b
          <5>1. i < b /\ i \in 0 .. b
            BY <1>1, <3>1, <3>3, <4>2
          <5>2. ~(V(rxbuf, i) > 0)
            BY <2>1, <5>1 DEF LastRead, b
          <5> QED BY <1>3, <1>5, <4>2, <5>1, <5>2
        <4> QED BY <4>1, <4>2
      <3> QED BY <1>1, <3>1, <3>2, <3>3 DEF LastRead
    <2>2. CASE value = Guess
      <3>1. CASE missing = done
        <4>1. lasts = done + 1
          BY <2>2, <3>1 DEF Guess
        <4> QED BY <4>1 DEF Reads
      <3>2. CASE \E j : LastRead(rxbuf, done, j)
        BY <2>1, <2>2, <3>2 DEF Reads
      <3> QED BY <3>1, <3>2 DEF Reads
    <2>3. CASE value = next /\ b < NFrames
      <3>1. LastRead(buf, done + 1, b)
        <4>1. b \in Lagrange .. NFrames - 1 /\ b < b + 1
          BY <1>1, <2>3
        <4>2. V(buf, b) > 0
          <5>1. next > 0
            BY DEF Flows
          <5> QED BY <1>3, <2>3, <5>1
        <4>3. \A i \in b + 1 .. NFrames - 1 : ~(i < b + 1)
          BY <1>1
        <4> QED BY <1>1, <4>1, <4>2, <4>3 DEF LastRead
      <3> QED BY <3>1 DEF Reads
    <2>4. CASE ~(b < NFrames)
      <3>1. missing # done
        BY <1>1, <2>4 DEF Reads, b
      <3>2. PICK j : LastRead(rxbuf, done, j)
        BY <3>1 DEF Reads
      <3>3. LastRead(buf, done + 1, j)
        BY <1>1, <2>1, <2>4, <3>2
      <3> QED BY <3>3 DEF Reads
    <2> QED BY <2>2, <2>3, <2>4
  <1> QED BY <1>7, <1>8

(* LastPlayed of any period and any position before it.                    *)
Latest(port, before) ==
    LET played == {port[p][1] : p \in Period}
        Newest(n) == n > before /\ \A m \in played : m <= n
    IN IF \E n \in played : Newest(n) THEN CHOOSE n \in played : Newest(n)
                                      ELSE before

LEMMA LastPlayedIsLatest ==
    LastPlayed = Latest(out, owed) /\ LastPlayed' = Latest(out', owed')
  BY DEF LastPlayed, Latest

LEMMA LatestIs ==
    ASSUME NEW port, \A p \in Period : port[p][1] \in Int, NEW before,
           NEW last \in Int, last > before,
           NEW q \in Period, port[q][1] = last,
           \A p \in Period : port[p][1] <= last
    PROVE  Latest(port, before) = last
  <1> DEFINE played == {port[p][1] : p \in Period}
             Newest(n) == n > before /\ \A m \in played : m <= n
  <1>1. last \in played /\ played \subseteq Int /\ \A m \in played : m <= last
    OBVIOUS
  <1>2. Newest(last)
    BY <1>1
  <1>3. \A n \in played : Newest(n) => n = last
    <2>1. ASSUME NEW n \in played, Newest(n) PROVE n = last
      <3>1. n <= last /\ last <= n /\ n \in Int
        BY <1>1, <2>1
      <3> QED BY <3>1
    <2> QED BY <2>1
  <1>4. Latest(port, before)
          = IF \E n \in played : Newest(n) THEN CHOOSE n \in played : Newest(n) ELSE before
    BY DEF Latest
  <1> HIDE DEF played, Newest
  <1> QED BY <1>1, <1>2, <1>3, <1>4

(* What is played is behind what comes next.                               *)
LEMMA LatestIsPast ==
    ASSUME NEW port, NEW before, NEW next, before < next,
           \A p \in Period : port[p][1] < next
    PROVE  Latest(port, before) < next
  <1> DEFINE played == {port[p][1] : p \in Period}
             Newest(n) == n > before /\ \A m \in played : m <= n
  <1>1. \A n \in played : n < next
    OBVIOUS
  <1>2. Latest(port, before)
          = IF \E n \in played : Newest(n) THEN CHOOSE n \in played : Newest(n) ELSE before
    BY DEF Latest
  <1> HIDE DEF played, Newest
  <1> QED BY <1>1, <1>2

(* The end of a period with no gap: the frames kept are those after the    *)
(* last one played.  Three frames of the period are not in its head, and   *)
(* one of them at least was read, or the order would be lost here.         *)
LEMMA EndFlows ==
    ASSUME NEW buf, LineOK(buf), NEW port, owed \in Nat, NEW next \in Nat,
           NEW missing, NFrames >= Lagrange + 3,
           Flows(buf, port, NFrames, next), Reads(buf, NFrames, missing),
           NEW played, \A p \in Period : played[p] = buf[p]
    PROVE  /\ Uniform(buf, NFrames, NFrames + Lagrange)
           /\ Run(buf, NFrames, NFrames + Lagrange, Latest(played, owed) + 1, next)
  <1> DEFINE end == Lagrange + NFrames
  <1>1. /\ Lagrange \in Nat /\ NFrames \in Nat /\ end \in Nat
        /\ NFrames + Lagrange = end /\ NFrames <= end /\ Lagrange <= NFrames
        /\ LineFrames = 0 .. end - 1
    BY ReaderSizes DEF LineFrames
  <1> HIDE DEF end
  <1>2. PICK c \in owed + 1 .. next :
          /\ \A p \in Line : p \div Channels < Lagrange => buf[p][1] < c
          /\ Uniform(buf, Lagrange, end)
          /\ Run(buf, Lagrange, end, c, next)
    BY Zenon DEF Flows, end
  <1>3. c \in Nat /\ owed < c /\ 0 < c
    BY <1>2
  <1>4. PICK j : LastRead(buf, NFrames, j)
    <2>1. missing # NFrames
      BY <1>1 DEF Reads
    <2> QED BY <2>1 DEF Reads
  <1> DEFINE last == V(buf, j)
  <1>5. /\ j \in Lagrange .. NFrames - 1 /\ j \in Lagrange .. end - 1 /\ j \in LineFrames
        /\ last > 0
        /\ \A i \in j + 1 .. NFrames - 1 : ~(V(buf, i) > 0)
    BY <1>1, <1>4 DEF LastRead
  <1>6. \A i \in LineFrames : V(buf, i) \in Int
    BY ValueIsInt
  <1>7. last \in Int /\ c <= last /\ last > owed
    BY <1>2, <1>3, <1>5, <1>6 DEF Run
  <1>8. ASSUME NEW i \in Lagrange .. NFrames - 1 PROVE V(buf, i) <= last
    <2>1. i \in LineFrames /\ i \in Lagrange .. end - 1
      BY <1>1
    <2>2. CASE i < j
      <3>1. V(buf, i) > 0 => V(buf, i) < V(buf, j)
        BY <1>2, <1>5, <2>1, <2>2 DEF Run
      <3> QED BY <1>5, <1>6, <1>7, <2>1, <3>1
    <2>3. CASE i = j
      BY <1>7, <2>3
    <2>4. CASE i > j
      <3>1. ~(V(buf, i) > 0)
        BY <1>5, <2>4
      <3> QED BY <1>5, <1>6, <1>7, <2>1, <3>1
    <2> QED BY <1>5, <2>2, <2>3, <2>4
  <1>9. ASSUME NEW p \in Period PROVE played[p][1] \in Int /\ played[p][1] <= last
    <2>1. p \in Line /\ p \div Channels \in 0 .. NFrames - 1
      BY FrameOfSample
    <2>2. played[p][1] = buf[p][1] /\ buf[p][1] \in Int
      BY <2>1, ValueIsInt
    <2>3. CASE p \div Channels < Lagrange
      <3>1. buf[p][1] < c
        BY <1>2, <2>1, <2>3
      <3> QED BY <1>3, <1>7, <2>2, <3>1
    <2>4. CASE ~(p \div Channels < Lagrange)
      <3>1. Lagrange <= p \div Channels /\ p \div Channels < end
            /\ p \div Channels \in Lagrange .. NFrames - 1
        BY <1>1, <2>1, <2>4
      <3>2. buf[p][1] = V(buf, p \div Channels)
        BY <1>2, <2>1, <3>1 DEF Uniform
      <3> QED BY <1>8, <2>2, <3>1, <3>2
    <2> QED BY <2>3, <2>4
  <1>10. Channels * j \in Period /\ played[Channels * j][1] = last
    <2>1. Channels * j \in Period
      BY <1>1, <1>5, StartOf
    <2> QED BY <2>1 DEF V
  <1>11. Latest(played, owed) = last
    BY <1>7, <1>9, <1>10, LatestIs
  <1>12. Uniform(buf, NFrames, end)
    <2> SUFFICES ASSUME NEW p \in Line, NFrames <= p \div Channels, p \div Channels < end
                 PROVE  buf[p][1] = V(buf, p \div Channels)
      BY DEF Uniform
    <2>1. p \div Channels \in Int
      BY FrameOfLine DEF LineFrames
    <2>2. Lagrange <= p \div Channels
      BY <1>1, <2>1
    <2> QED BY <1>2, <2>2 DEF Uniform
  <1> HIDE DEF last
  <1>13. Run(buf, NFrames, end, last + 1, next)
    <2>1. \A i \in NFrames .. end - 1 : i \in Lagrange .. end - 1 /\ i \in LineFrames /\ j < i
      BY <1>1, <1>5
    <2>2. ASSUME NEW i \in NFrames .. end - 1, NEW k \in NFrames .. end - 1,
                 i < k, V(buf, i) > 0, V(buf, k) > 0
          PROVE  V(buf, i) < V(buf, k)
      BY <1>2, <2>1, <2>2 DEF Run
    <2>3. ASSUME NEW i \in NFrames .. end - 1, V(buf, i) > 0
          PROVE  last + 1 <= V(buf, i) /\ V(buf, i) < next
      <3>1. V(buf, j) < V(buf, i) /\ V(buf, i) < next
        BY <1>2, <1>5, <2>1, <2>3 DEF Run, last
      <3> QED BY <1>6, <1>7, <2>1, <3>1 DEF last
    <2>4. ASSUME NEW v \in last + 1 .. next - 1
          PROVE  \E i \in NFrames .. end - 1 : V(buf, i) = v
      <3>1. v \in c .. next - 1 /\ v > 0 /\ v > last /\ v \in Int
        BY <1>3, <1>7
      <3>2. PICK i \in Lagrange .. end - 1 : V(buf, i) = v
        BY <1>2, <3>1 DEF Run
      <3>3. ~(i <= NFrames - 1)
        <4>1. ASSUME i <= NFrames - 1 PROVE V(buf, i) <= last
          BY <1>1, <1>8, <4>1
        <4> QED BY <1>7, <3>1, <3>2, <4>1
      <3>4. i \in NFrames .. end - 1
        BY <1>1, <3>3
      <3> QED BY <3>2, <3>4
    <2> QED BY <2>2, <2>3, <2>4, Zenon DEF Run
  <1> QED BY <1>1, <1>11, <1>12, <1>13

(* The frames kept become the head, in the same order. *)
LEMMA TailBecomesHead ==
    ASSUME NEW buf, NEW first, NEW next,
           Uniform(buf, NFrames, NFrames + Lagrange),
           Run(buf, NFrames, NFrames + Lagrange, first, next)
    PROVE  /\ Uniform(TailToHead(buf), 0, Lagrange)
           /\ Run(TailToHead(buf), 0, Lagrange, first, next)
  <1> DEFINE head == TailToHead(buf)
  <1>1. Lagrange \in Nat /\ NFrames \in Nat
    BY ReaderSizes
  <1>2. ASSUME NEW p \in Line, p \div Channels < Lagrange
        PROVE  /\ head[p] = buf[NFrames * Channels + p]
               /\ NFrames * Channels + p \in Line
               /\ (NFrames * Channels + p) \div Channels = NFrames + (p \div Channels)
    <2> DEFINE i == p \div Channels
               c == p % Channels
    <2>1. /\ p \in Nat /\ i \in Nat /\ c \in 0 .. Channels - 1 /\ p = Channels * i + c
          /\ Channels \in Nat
      <3>1. p \in Nat /\ Channels \in Nat /\ Channels >= 1
        BY LineSamples, ReaderSizes
      <3>2. \A x \in Nat : /\ x \div Channels \in Nat
                           /\ x = Channels * (x \div Channels) + (x % Channels)
                           /\ x % Channels \in 0 .. Channels - 1
        BY <3>1
      <3> QED BY <3>1, <3>2
    <2>2. i < Lagrange
      BY <1>2
    <2> HIDE DEF i, c
    <2>3. Lagrange * Channels = Channels * i + Channels + Channels * (Lagrange - i - 1)
          /\ Channels * (Lagrange - i - 1) \in Nat /\ Channels * i \in Nat
      BY <1>1, <2>1, <2>2
    <2>4. p < Lagrange * Channels
      BY <2>1, <2>3
    <2>5. head[p] = buf[NFrames * Channels + p]
      BY <2>4 DEF TailToHead
    <2>6. NFrames + i \in LineFrames
      BY <1>1, <2>1, <2>2 DEF LineFrames
    <2>7. (Channels * (NFrames + i) + c) \div Channels = NFrames + i
      BY <2>1, <2>6, SampleOf
    <2>8. Channels * (NFrames + i) + c = NFrames * Channels + p
      BY <1>1, <2>1
    <2> QED BY <2>4, <2>5, <2>7, <2>8, TailSource DEF i
  <1>3. ASSUME NEW i \in 0 .. Lagrange - 1
        PROVE  V(head, i) = V(buf, NFrames + i)
    <2>1. i \in LineFrames
      BY <1>1 DEF LineFrames
    <2>2. Channels * i \in Line /\ (Channels * i) \div Channels = i
      BY <2>1, StartOf
    <2>3. i < Lagrange
      BY <1>1
    <2>4. head[Channels * i] = buf[NFrames * Channels + Channels * i]
      BY <1>2, <2>2, <2>3
    <2>5. NFrames * Channels + Channels * i = Channels * (NFrames + i)
      BY <1>1, ReaderSizes
    <2> QED BY <2>4, <2>5 DEF V
  <1> HIDE DEF head
  <1>4. Uniform(head, 0, Lagrange)
    <2> SUFFICES ASSUME NEW p \in Line, p \div Channels < Lagrange
                 PROVE  head[p][1] = V(head, p \div Channels)
      BY DEF Uniform
    <2> DEFINE i == p \div Channels
    <2>1. i \in 0 .. Lagrange - 1
      BY <1>1, FrameOfLine DEF LineFrames
    <2>2. NFrames <= NFrames + i /\ NFrames + i < NFrames + Lagrange
      BY <1>1, <2>1
    <2>3. buf[NFrames * Channels + p][1] = V(buf, NFrames + i)
      BY <1>2, <2>2 DEF Uniform
    <2> QED BY <1>2, <1>3, <2>1, <2>3
  <1>5. Run(head, 0, Lagrange, first, next)
    <2>1. \A i \in 0 .. Lagrange - 1 :
             i \in Int /\ NFrames + i \in NFrames .. (NFrames + Lagrange) - 1
      BY <1>1
    <2>2. ASSUME NEW i \in 0 .. Lagrange - 1, NEW j \in 0 .. Lagrange - 1,
                 i < j, V(head, i) > 0, V(head, j) > 0
          PROVE  V(head, i) < V(head, j)
      <3>1. NFrames + i < NFrames + j
        BY <1>1, <2>2
      <3> QED BY <1>3, <2>1, <2>2, <3>1 DEF Run
    <2>3. ASSUME NEW i \in 0 .. Lagrange - 1, V(head, i) > 0
          PROVE  first <= V(head, i) /\ V(head, i) < next
      BY <1>3, <2>1, <2>3 DEF Run
    <2>4. ASSUME NEW v \in first .. next - 1
          PROVE  \E i \in 0 .. Lagrange - 1 : V(head, i) = v
      <3>1. PICK k \in NFrames .. (NFrames + Lagrange) - 1 : V(buf, k) = v
        BY DEF Run
      <3>2. k - NFrames \in 0 .. Lagrange - 1 /\ NFrames + (k - NFrames) = k
        BY <1>1
      <3> QED BY <1>3, <3>1, <3>2
    <2> QED BY <2>2, <2>3, <2>4, Zenon DEF Run
  <1> QED BY <1>4, <1>5 DEF head

(* The inductive invariant.  Nothing in the buffers is ahead of the ring;  *)
(* a period with no gap flows; behind it the frames kept are those after   *)
(* the last one played.                                                    *)
Upcoming == asked - starved + 1

Below(buf, port, next) ==
    /\ \A p \in Line : buf[p][1] < next
    /\ \A p \in Period : port[p][1] < next

Flowing ==
    left > 0 /\ ~gap => /\ Flows(rxbuf, out, lframe, Upcoming)
                        /\ Reads(rxbuf, lframe, llost)
                        /\ lost = lframe => llost = lost
KeptInTurn ==
    left = 0 /\ ~gap =>
      /\ Uniform(rxbuf, NFrames, NFrames + Lagrange)
      /\ Run(rxbuf, NFrames, NFrames + Lagrange, LastPlayed + 1, Upcoming)
PlayedInTurn ==
    left = 0 /\ asked > 0 /\ ~gap /\ ~gapBefore =>
      /\ \A p \in Period : out[p] = rxbuf[p]
      /\ Uniform(rxbuf, 0, NFrames + Lagrange)
      /\ Run(rxbuf, 0, NFrames + Lagrange, owed + 1, Upcoming)

OrderInv ==
    /\ Below(rxbuf, out, Upcoming) /\ owed < Upcoming
    /\ Flowing /\ KeptInTurn /\ PlayedInTurn

LEMMA UpcomingIs ==
    ASSUME TypeOK, Positioned
    PROVE  NextPosition = Upcoming /\ Upcoming \in Nat /\ Upcoming >= 1
  BY SizesFit DEF TypeOK, Positioned, NextPosition, Upcoming

LEMMA FillIs ==
    /\ \A p \in Line : Fill(Line, Fresh)[p][1] = Fresh /\ Fill(Line, Zero)[p][1] = Zero
    /\ \A p \in Period : Fill(Line, Unwritten)[p][1] = Unwritten
  BY FrameOfSample DEF Fill

LEMMA NoPosition == Fresh < 1 /\ Zero < 1 /\ Unwritten < 1 /\ Guess < 1 /\ ~(Fresh > 0)
  BY DEF Fresh, Zero, Unwritten, Guess

LEMMA OrderInitHolds == ReaderInit => OrderInv
  <1> SUFFICES ASSUME ReaderInit PROVE OrderInv
    OBVIOUS
  <1>1. /\ rxbuf = Fill(Line, Fresh) /\ out = Fill(Line, Unwritten) /\ owed = 0
        /\ left = 0 /\ asked = 0 /\ starved = 0
    BY DEF ReaderInit, Init
  <1>2. Upcoming = 1
    BY <1>1 DEF Upcoming
  <1>3. /\ \A p \in Line : rxbuf[p][1] = Fresh
        /\ \A p \in Period : out[p][1] = Unwritten
    BY <1>1, FillIs
  <1>4. Below(rxbuf, out, Upcoming) /\ owed < Upcoming
    BY <1>1, <1>2, <1>3, NoPosition DEF Below
  <1>5. LastPlayed = 0
    <2>1. \A n \in {out[p][1] : p \in Period} : ~(n > owed)
      BY <1>1, <1>3 DEF Unwritten
    <2> QED BY <1>1, <2>1 DEF LastPlayed
  <1>6. Uniform(rxbuf, NFrames, NFrames + Lagrange)
    BY <1>3, FrameOfLine, StartOf DEF Uniform, V
  <1>7. Run(rxbuf, NFrames, NFrames + Lagrange, 1, 1)
    <2>1. \A i \in NFrames .. (NFrames + Lagrange) - 1 : i \in LineFrames
      BY ReaderSizes DEF LineFrames
    <2>2. \A i \in NFrames .. (NFrames + Lagrange) - 1 : ~(V(rxbuf, i) > 0)
      BY <1>3, <2>1, StartOf, NoPosition DEF V
    <2>3. \A v \in 1 .. 1 - 1 : FALSE
      OBVIOUS
    <2> QED BY <2>2, <2>3, Zenon DEF Run
  <1>8. LastPlayed + 1 = 1 /\ ~(left > 0) /\ ~(asked > 0)
    BY <1>1, <1>5
  <1>9. KeptInTurn
    BY <1>2, <1>6, <1>7, <1>8, Zenon DEF KeptInTurn
  <1> QED BY <1>4, <1>8, <1>9 DEF OrderInv, Flowing, PlayedInTurn

LEMMA OrderOutside ==
    ASSUME OrderInv, UNCHANGED <<left, asked, starved>>, UNCHANGED reader
    PROVE  OrderInv'
  <1>1. /\ rxbuf' = rxbuf /\ out' = out /\ lframe' = lframe /\ llost' = llost
        /\ lost' = lost /\ owed' = owed /\ gap' = gap /\ gapBefore' = gapBefore
        /\ backend' = backend /\ left' = left /\ asked' = asked /\ starved' = starved
    BY DEF reader
  <1>2. Upcoming' = Upcoming /\ LastPlayed' = LastPlayed
    BY <1>1 DEF Upcoming, LastPlayed
  <1>3. Flows(rxbuf, out, lframe, Upcoming)' <=> Flows(rxbuf, out, lframe, Upcoming)
    BY <1>1, <1>2 DEF Flows
  <1>4. Reads(rxbuf, lframe, llost)' <=> Reads(rxbuf, lframe, llost)
    BY <1>1 DEF Reads
  <1>5. Flowing'
    BY <1>1, <1>3, <1>4, Zenon DEF Flowing, OrderInv
  <1> QED BY <1>1, <1>2, <1>5 DEF OrderInv, KeptInTurn, PlayedInTurn

LEMMA OrderBegins ==
    ASSUME ReaderInv, OrderInv, BeginJack \/ BeginPipewire
    PROVE  OrderInv'
  <1>1. /\ CallbackBegin /\ rxbuf' = TailToHead(rxbuf)
        /\ lframe' = 0 /\ llost' = 0 /\ lost' = 0
        /\ owed' = LastPlayed /\ gap' = FALSE /\ gapBefore' = gap
        /\ backend' = backend
        /\ out' = out \/ out' = Fill(Line, Unwritten)
    BY DEF BeginJack, BeginPipewire, Begin
  <1>2. left = 0 /\ left' = NFrames /\ asked' = asked /\ starved' = starved
    BY <1>1 DEF CallbackBegin
  <1>3. /\ TypeOK /\ Positioned /\ owed \in Nat /\ gap \in BOOLEAN
        /\ LineOK(rxbuf) /\ PortOK(out)
    BY DEF ReaderInv, ReaderTypeOK
  <1>4. /\ Upcoming' = Upcoming /\ Upcoming \in Nat /\ Upcoming >= 1
        /\ owed < Upcoming /\ Below(rxbuf, out, Upcoming)
    BY <1>2, <1>3, UpcomingIs DEF Upcoming, OrderInv
  <1>5. LastPlayed \in Nat /\ LastPlayed < Upcoming
    <2>1. LastPlayed \in Nat
      BY <1>3, LastPlayedIsNat
    <2>2. Latest(out, owed) < Upcoming
      BY <1>4, LatestIsPast DEF Below
    <2> QED BY <2>1, <2>2, LastPlayedIsLatest
  <1>6. Below(rxbuf', out', Upcoming)
    <2>1. \A p \in Line : rxbuf'[p][1] < Upcoming
      <3> SUFFICES ASSUME NEW p \in Line PROVE rxbuf'[p][1] < Upcoming
        OBVIOUS
      <3>1. rxbuf'[p] = IF p < Lagrange * Channels THEN rxbuf[NFrames * Channels + p]
                                                   ELSE rxbuf[p]
        BY <1>1 DEF TailToHead
      <3> QED BY <1>4, <3>1, TailSource DEF Below
    <2>2. \A p \in Period : out'[p][1] < Upcoming
      <3>1. CASE out' = out
        BY <1>4, <3>1 DEF Below
      <3>2. CASE out' = Fill(Line, Unwritten)
        <4>1. \A p \in Period : out'[p][1] = Unwritten
          BY <3>2, FillIs
        <4>2. Unwritten < Upcoming
          BY <1>4 DEF Unwritten
        <4> QED BY <4>1, <4>2
      <3> QED BY <1>1, <3>1, <3>2
    <2> QED BY <2>1, <2>2 DEF Below
  <1>7. Flows(rxbuf, out, lframe, Upcoming)'
    <2>1. Upcoming \in LastPlayed + 1 .. Upcoming
      BY <1>4, <1>5
    <2>2. \A p \in Line : p \div Channels < Lagrange => rxbuf'[p][1] < Upcoming
      BY <1>6 DEF Below
    <2>3. Lagrange + 0 = Lagrange /\ Lagrange \in Nat
      BY ReaderSizes
    <2>4. Uniform(rxbuf', Lagrange, Lagrange)
      <3>1. \A p \in Line : ~(Lagrange <= p \div Channels /\ p \div Channels < Lagrange)
        BY <2>3, FrameOfLine DEF LineFrames
      <3> QED BY <3>1, Zenon DEF Uniform
    <2>5. Run(rxbuf', Lagrange, Lagrange, Upcoming, Upcoming)
      <3>1. \A i \in Lagrange .. Lagrange - 1 : FALSE
        BY <2>3
      <3>2. \A v \in Upcoming .. Upcoming - 1 : FALSE
        BY <1>4
      <3> QED BY <3>1, <3>2, Zenon DEF Run
    <2>6. ~gap => /\ Uniform(rxbuf', 0, Lagrange)
                  /\ Run(rxbuf', 0, Lagrange, LastPlayed + 1, Upcoming)
      BY <1>1, <1>2, TailBecomesHead DEF OrderInv, KeptInTurn
    <2>7. \A p \in Period : ~(p \div Channels < 0)
      BY FrameOfSample, ReaderSizes
    <2> QED BY <1>1, <1>4, <2>1, <2>2, <2>3, <2>4, <2>5, <2>6, <2>7, Zenon DEF Flows
  <1>8. Reads(rxbuf, lframe, llost)'
    <2>1. 0 < 3
      OBVIOUS
    <2> QED BY <1>1, <2>1, Zenon DEF Reads
  <1>9. ~(left' = 0) /\ left' > 0
    BY <1>2, ReaderSizes
  <1> QED BY <1>1, <1>4, <1>5, <1>6, <1>7, <1>8, <1>9, Zenon
          DEF OrderInv, Flowing, KeptInTurn, PlayedInTurn

(* What the end of a callback keeps and hands over is behind the ring. *)
LEMMA FinishIsPast ==
    ASSUME NEW buf, NEW port, NEW done \in 0..NFrames, NEW missed,
           NEW next \in Nat, next >= 1, Below(buf, port, next), Below(buf, out, next),
           backend = "jack" => FinishJack(buf, port, done, missed),
           backend # "jack" => FinishPipewire(buf, done, missed)
    PROVE  Below(rxbuf', out', next)
  <1> DEFINE moved == IF done < NFrames \div 2 THEN MoveUp(buf, done) ELSE buf
  <1>1. ASSUME NEW p \in Line PROVE moved[p][1] < next
    <2>1. CASE done < NFrames \div 2
      <3> DEFINE dst == Channels * (NFrames - 1 - done) + Lagrange
                 src == Channels * done + Lagrange
      <3>1. MoveUp(buf, done)[p] = IF p \in dst .. dst + Channels * done - 1
                                     THEN buf[p - dst + src] ELSE buf[p]
        BY DEF MoveUp
      <3>2. done \in Nat
        BY ReaderSizes
      <3> HIDE DEF dst, src
      <3>3. p \in dst .. dst + Channels * done - 1 => p - dst + src \in Line
        BY <2>1, <3>2, MoveSource, Zenon DEF dst, src
      <3> QED BY <2>1, <3>1, <3>3 DEF Below
    <2>2. CASE ~(done < NFrames \div 2)
      BY <2>2 DEF Below
    <2> QED BY <2>1, <2>2
  <1> HIDE DEF moved
  <1>2. \A p \in Period : p \in Line /\ p \div Channels \in 0 .. NFrames - 1
    BY FrameOfSample
  <1>3. CASE backend = "jack"
    <2>1. /\ rxbuf' = moved
          /\ out' = IF done < NFrames \div 2
                      THEN CopyFrames(port, moved, NFrames - 1 - done .. NFrames - 1)
                      ELSE port
      BY <1>3 DEF FinishJack, moved
    <2>2. \A p \in Period : out'[p] = port[p] \/ out'[p] = moved[p]
      BY <1>2, <2>1 DEF CopyFrames
    <2> QED BY <1>1, <1>2, <2>1, <2>2 DEF Below
  <1>4. CASE backend # "jack"
    <2>1. /\ rxbuf' = IF missed = NFrames /\ lost_pac_cnt' = DeadPeriods
                        THEN Fill(Line, Zero) ELSE moved
          /\ out' = rxbuf'
      BY <1>4 DEF FinishPipewire, moved
    <2>2. \A p \in Period : out'[p] = rxbuf'[p]
      BY <2>1
    <2>3. \A p \in Line : rxbuf'[p][1] < next
      <3>1. Zero < next
        BY DEF Zero
      <3>2. \A p \in Line : Fill(Line, Zero)[p][1] < next
        BY <3>1, FillIs
      <3> QED BY <1>1, <2>1, <3>2
    <2> QED BY <1>2, <2>2, <2>3 DEF Below
  <1> QED BY <1>3, <1>4

(* After a whole period it is what the loop has written. *)
LEMMA FinishIsWhole ==
    ASSUME NEW buf, NEW port, NEW missed, missed # NFrames,
           backend = "jack" => \A p \in Period : port[p] = buf[p],
           backend = "jack" => FinishJack(buf, port, NFrames, missed),
           backend # "jack" => FinishPipewire(buf, NFrames, missed)
    PROVE  rxbuf' = buf /\ \A p \in Period : out'[p] = buf[p]
  <1>1. ~(NFrames < NFrames \div 2)
    BY ReaderSizes
  <1>2. CASE backend = "jack"
    BY <1>1, <1>2 DEF FinishJack
  <1>3. CASE backend # "jack"
    <2>1. rxbuf' = buf /\ out' = rxbuf'
      BY <1>1, <1>3 DEF FinishPipewire
    <2> QED BY <2>1
  <1> QED BY <1>2, <1>3

LEMMA FlowsNext ==
    ASSUME UNCHANGED <<backend, owed, gapBefore>>,
           Flows(rxbuf', out', lframe', Upcoming')
    PROVE  Flows(rxbuf, out, lframe, Upcoming)'
  <1>1. backend' = backend /\ owed' = owed /\ (~gapBefore' => ~gapBefore)
    OBVIOUS
  <1>2. PICK c \in owed + 1 .. Upcoming' :
          /\ \A p \in Line : p \div Channels < Lagrange => rxbuf'[p][1] < c
          /\ Uniform(rxbuf', Lagrange, Lagrange + lframe')
          /\ Run(rxbuf', Lagrange, Lagrange + lframe', c, Upcoming')
          /\ ~gapBefore => /\ Uniform(rxbuf', 0, Lagrange + lframe')
                           /\ Run(rxbuf', 0, Lagrange + lframe', owed + 1, Upcoming')
          /\ backend = "jack" => \A p \in Period : p \div Channels < lframe' => out'[p] = rxbuf'[p]
    BY Zenon DEF Flows
  <1> QED BY <1>1, <1>2, Zenon DEF Flows

LEMMA UpcomingIsNext ==
    ASSUME TypeOK', Positioned'
    PROVE  Upcoming' \in Nat /\ Upcoming' >= 1
  <1>1. asked' \in Nat /\ starved' \in Nat /\ starved' <= asked'
    BY DEF TypeOK, Positioned
  <1>2. \A a, s \in Nat : s <= a => a - s + 1 \in Nat /\ a - s + 1 >= 1
    OBVIOUS
  <1> QED BY <1>1, <1>2, Zenon DEF Upcoming

(* A round of the loop. *)
LEMMA RoundOrders ==
    ASSUME ReaderInv, ReaderInv', OrderInv, ReadFrame, NFrames >= Lagrange + 3,
           NEW buf, NEW port, LineOK(buf), NEW done \in 0..NFrames, NEW missed,
           After(buf, port, done, missed),
           UNCHANGED <<backend, owed, gapBefore>>,
           Upcoming \in Nat, Upcoming <= Upcoming',
           Below(buf, port, Upcoming'), Below(buf, out, Upcoming'),
           ~gap' => /\ Flows(buf, port, done, Upcoming')
                    /\ Reads(buf, done, llost')
                    /\ missed = done => llost' = missed
    PROVE  OrderInv'
  <1>1. /\ left \in 1..NFrames /\ left' = left - 1 /\ owed \in Nat
        /\ NFrames \in Nat /\ Lagrange \in Nat
    BY ReaderSizes DEF ReadFrame, ReaderInv, ReaderTypeOK, TypeOK
  <1>2. /\ Upcoming' \in Nat /\ Upcoming' >= 1 /\ owed' < Upcoming'
        /\ owed' = owed /\ gapBefore' = gapBefore /\ backend' = backend
    <2>1. TypeOK' /\ Positioned'
      BY DEF ReaderInv, ReaderTypeOK
    <2>2. Upcoming' \in Nat /\ Upcoming' >= 1
      BY <2>1, UpcomingIsNext, Zenon
    <2>3. owed < Upcoming
      BY DEF OrderInv
    <2> QED BY <1>1, <2>2, <2>3
  <1>3. lframe' = done /\ lost' = missed
    BY DEF After
  <1>4. CASE left > 1
    <2>1. rxbuf' = buf /\ out' = port
      BY <1>4 DEF After
    <2>2. left' > 0 /\ ~(left' = 0)
      BY <1>1, <1>4
    <2>3. ~gap' => Flows(rxbuf, out, lframe, Upcoming)'
      BY <1>3, <2>1, FlowsNext, Zenon
    <2>4. Flowing'
      BY <1>3, <2>1, <2>3, Zenon DEF Flowing, Reads
    <2> QED BY <1>2, <2>1, <2>2, <2>4, Zenon DEF OrderInv, KeptInTurn, PlayedInTurn
  <1>5. CASE ~(left > 1)
    <2>1. left = 1 /\ left' = 0 /\ ~(left' > 0)
      BY <1>1, <1>5
    <2>2. /\ backend = "jack" => FinishJack(buf, port, done, missed)
          /\ backend # "jack" => FinishPipewire(buf, done, missed)
      BY <1>5 DEF After
    <2>3. Below(rxbuf', out', Upcoming')
      BY <1>2, <2>2, FinishIsPast, Zenon
    <2>4. ASSUME ~gap'
          PROVE  /\ Flows(buf, port, NFrames, Upcoming') /\ Reads(buf, NFrames, llost')
                 /\ rxbuf' = buf /\ \A p \in Period : out'[p] = buf[p]
      <3>1. done = NFrames
        BY <1>1, <1>3, <2>1, <2>4 DEF ReaderInv, Rounds, ReadFrame, TypeOK, ReaderTypeOK
      <3>2. Flows(buf, port, NFrames, Upcoming') /\ Reads(buf, NFrames, llost')
        BY <2>4, <3>1
      <3>3. missed # NFrames
        BY <1>1, <2>4, <3>1 DEF Reads
      <3>4. backend = "jack" => \A p \in Period : port[p] = buf[p]
        <4>1. \A p \in Period : p \div Channels < NFrames
          BY <1>1, FrameOfSample
        <4> QED BY <3>2, <4>1, Zenon DEF Flows
      <3>5. rxbuf' = buf /\ \A p \in Period : out'[p] = buf[p]
        <4>1. /\ backend = "jack" => FinishJack(buf, port, NFrames, missed)
              /\ backend # "jack" => FinishPipewire(buf, NFrames, missed)
          BY <2>2, <3>1
        <4> QED BY <3>3, <3>4, <4>1, FinishIsWhole
      <3> QED BY <3>2, <3>5
    <2>5. KeptInTurn'
      <3> SUFFICES ASSUME ~gap'
                   PROVE  /\ Uniform(rxbuf', NFrames, NFrames + Lagrange)
                          /\ Run(rxbuf', NFrames, NFrames + Lagrange, LastPlayed' + 1,
                                 Upcoming')
        BY Zenon DEF KeptInTurn
      <3>1. Uniform(buf, NFrames, NFrames + Lagrange)
            /\ Run(buf, NFrames, NFrames + Lagrange, Latest(out', owed) + 1, Upcoming')
        BY <1>1, <1>2, <2>4, EndFlows
      <3> QED BY <1>2, <2>4, <3>1, LastPlayedIsLatest
    <2>6. PlayedInTurn'
      <3> SUFFICES ASSUME ~gap', ~gapBefore'
                   PROVE  /\ \A p \in Period : out'[p] = rxbuf'[p]
                          /\ Uniform(rxbuf', 0, NFrames + Lagrange)
                          /\ Run(rxbuf', 0, NFrames + Lagrange, owed' + 1, Upcoming')
        BY Zenon DEF PlayedInTurn
      <3>1. Lagrange + NFrames = NFrames + Lagrange
        BY <1>1
      <3>2. Flows(buf, port, NFrames, Upcoming')
        BY <2>4
      <3>5. ~gapBefore
        <4>1. ASSUME gapBefore PROVE FALSE
          <5>1. gapBefore' = gapBefore
            BY <1>2
          <5> QED BY <4>1, <5>1
        <4> QED BY <4>1
      <3>3. Uniform(buf, 0, NFrames + Lagrange)
            /\ Run(buf, 0, NFrames + Lagrange, owed + 1, Upcoming')
        BY <3>1, <3>2, <3>5, Zenon DEF Flows
      <3>4. rxbuf' = buf /\ owed' = owed /\ \A p \in Period : out'[p] = buf[p]
        BY <1>2, <2>4, Zenon
      <3> QED BY <3>3, <3>4, Zenon
    <2> QED BY <1>2, <2>1, <2>3, <2>5, <2>6, Zenon DEF OrderInv, Flowing
  <1> QED BY <1>4, <1>5

(* A frame written, the next of the ring or a predicted one. *)
LEMMA WriteOrders ==
    ASSUME ReaderInv, ReaderInv', OrderInv, ReadFrame, NFrames >= Lagrange + 3,
           NEW value, NEW missed, Write(value, missed),
           UNCHANGED <<backend, owed, gapBefore>>, llost' \in Nat,
           \/ value = Upcoming /\ Upcoming' = Upcoming + 1 /\ missed = lost
           \/ /\ value = Guess /\ Upcoming' = Upcoming
              /\ missed = lost + 1 /\ llost' = llost + 1,
           ~gap' => ~gap, ~gap' => llost' < 3
    PROVE  OrderInv'
  <1> DEFINE buf == PutFrame(rxbuf, lframe + Lagrange, value)
             port == IF backend = "jack" THEN CopyFrames(out, buf, {lframe}) ELSE out
  <1>1. After(buf, port, lframe + 1, missed)
    BY DEF Write
  <1>2. /\ TypeOK /\ Positioned /\ LineOK(rxbuf) /\ owed \in Nat
        /\ left \in 1..NFrames /\ lframe \in 0 .. NFrames - left /\ lost \in 0 .. NFrames - left
        /\ llost \in Nat
    <2>1. TypeOK /\ Positioned /\ LineOK(rxbuf) /\ owed \in Nat
      BY DEF ReaderInv, ReaderTypeOK
    <2>2. /\ left \in 1..NFrames /\ lframe \in 0 .. NFrames - left
          /\ lost \in 0 .. NFrames - left /\ llost \in Nat
      BY ReaderSizes DEF ReaderInv, ReaderTypeOK, TypeOK, Rounds, ReadFrame
    <2> QED BY <2>1, <2>2
  <1>3. /\ NFrames \in Nat /\ Lagrange \in Nat /\ lframe \in Nat /\ lframe < NFrames
        /\ lframe + 1 \in 0..NFrames /\ lframe + Lagrange \in LineFrames
    BY <1>2, ReaderSizes DEF LineFrames
  <1>4. Upcoming \in Nat /\ Upcoming >= 1 /\ Below(rxbuf, out, Upcoming)
    BY <1>2, UpcomingIs DEF OrderInv
  <1>5. LineOK(buf)
    <2>1. value \in Nat \cup {Guess}
      BY <1>4
    <2> QED BY <1>2, <2>1, PutIsPlaced
  <1>6. \A p \in Line : buf[p][1] = IF p \div Channels = lframe + Lagrange THEN value
                                    ELSE rxbuf[p][1]
    BY <1>2, <1>3, PutIs
  <1> HIDE DEF buf
  <1>7. /\ Upcoming <= Upcoming' /\ value < Upcoming'
        /\ \A p \in Line : rxbuf[p][1] < Upcoming'
        /\ \A p \in Period : out[p][1] < Upcoming'
    <2>1. /\ \A p \in Line : rxbuf[p][1] \in Int /\ rxbuf[p][1] < Upcoming
          /\ \A p \in Period : out[p][1] < Upcoming
      BY <1>2, <1>4, ValueIsInt DEF Below
    <2>2. \A p \in Period : out[p][1] \in Int
      <3>1. \A s \in Sample : s[1] \in Int
        BY DEF Sample, Zero, Guess, Fresh, Unwritten
      <3> QED BY <3>1, FrameOfSample DEF ReaderInv, PortOK
    <2> QED BY <1>4, <2>1, <2>2 DEF Guess
  <1>8. \A p \in Line : buf[p][1] < Upcoming'
    BY <1>6, <1>7
  <1>9. \A p \in Period : port[p][1] < Upcoming'
    <2>1. \A p \in Period : p \in Line /\ (port[p] = out[p] \/ port[p] = buf[p])
      BY FrameOfSample DEF CopyFrames
    <2> HIDE DEF port
    <2> QED BY <1>7, <1>8, <2>1
  <1>10. ASSUME ~gap'
         PROVE  /\ Flows(buf, port, lframe + 1, Upcoming')
                /\ Reads(buf, lframe + 1, llost')
                /\ missed = lframe + 1 => llost' = missed
    <2>1. /\ ~gap /\ left > 0 /\ llost' < 3
      BY <1>2, <1>10
    <2>2. /\ Flows(rxbuf, out, lframe, Upcoming) /\ Reads(rxbuf, lframe, llost)
          /\ lost = lframe => llost = lost
      BY <2>1, Zenon DEF OrderInv, Flowing
    <2>3. lframe = NFrames - left /\ lost <= lframe
      BY <1>2, <2>1 DEF ReaderInv, Rounds
    <2>4. missed = lframe + 1 => llost' = missed
      BY <1>2, <1>3, <2>2, <2>3
    <2>5. \/ value = Upcoming /\ Upcoming' = Upcoming + 1
          \/ value = Guess /\ Upcoming' = Upcoming /\ llost' = llost + 1
      OBVIOUS
    <2>6. /\ buf = PutFrame(rxbuf, lframe + Lagrange, value)
          /\ backend = "jack" => port = CopyFrames(out, buf, {lframe})
      BY DEF buf
    <2> HIDE DEF port
    <2>7. Flows(buf, port, lframe + 1, Upcoming') /\ Reads(buf, lframe + 1, llost')
      BY <1>2, <1>3, <1>4, <2>1, <2>2, <2>5, <2>6, WriteFlows
    <2> QED BY <2>4, <2>7
  <1>11. Below(buf, port, Upcoming') /\ Below(buf, out, Upcoming')
    BY <1>7, <1>8, <1>9 DEF Below
  <1> HIDE DEF port
  <1> QED BY <1>1, <1>3, <1>4, <1>5, <1>7, <1>10, <1>11, RoundOrders, Zenon

LEMMA SumsMove ==
    \A a, s \in Int : /\ (a + 1) - s + 1 = (a - s + 1) + 1
                      /\ (a + 1) - (s + 1) + 1 = a - s + 1
  OBVIOUS

LEMMA PresentOrders ==
    ASSUME ReaderInv, ReaderInv', OrderInv, NFrames >= Lagrange + 3, Present
    PROVE  OrderInv'
  <1>1. /\ ReadFrame /\ llost' = 0 /\ Write(NextPosition, lost)
        /\ UNCHANGED <<backend, owed, gapBefore>> /\ gap' = gap
        /\ asked' = asked + 1 /\ starved' = starved
    BY DEF Present, ReadFrame
  <1>2. NextPosition = Upcoming /\ asked \in Int /\ starved \in Int
    BY UpcomingIs DEF ReaderInv, ReaderTypeOK, TypeOK
  <1>3. Upcoming' = Upcoming + 1
    BY <1>1, <1>2, SumsMove, Zenon DEF Upcoming
  <1>4. llost' \in Nat /\ llost' < 3
    BY <1>1
  <1>5. ~gap' => ~gap
    BY <1>1
  <1> QED BY <1>1, <1>2, <1>3, <1>4, <1>5, WriteOrders, Zenon

LEMMA MissingOrders ==
    ASSUME ReaderInv, ReaderInv', OrderInv, NFrames >= Lagrange + 3, Missing
    PROVE  OrderInv'
  <1>1. /\ ReadFrame /\ fill = 0 /\ llost' = llost + 1
        /\ UNCHANGED <<backend, owed, gapBefore>> /\ gap' = (gap \/ llost' >= 3)
    BY DEF Missing
  <1>2. asked' = asked + 1 /\ starved' = starved + 1
    BY <1>1 DEF ReadFrame
  <1>3. /\ asked \in Int /\ starved \in Int /\ llost \in Nat /\ LineOK(rxbuf)
        /\ TypeOK /\ Positioned
    BY ReaderSizes DEF ReaderInv, ReaderTypeOK, TypeOK
  <1>4. Upcoming' = Upcoming
    BY <1>2, <1>3, SumsMove, Zenon DEF Upcoming
  <1>5. llost' \in Nat
    BY <1>1, <1>3
  <1>6. ~gap' => ~gap /\ ~(llost' >= 3)
    BY <1>1, Zenon
  <1>7. llost' < 3 \/ llost' >= 3
    BY <1>5
  <1>8. CASE llost' < 3
    <2>1. Write(Guess, lost + 1)
      BY <1>8 DEF Missing
    <2> QED BY <1>1, <1>4, <1>5, <1>6, <1>8, <2>1, WriteOrders, Zenon
  <1>9. CASE ~(llost' < 3)
    <2>1. After(rxbuf, out, lframe, lost + 1)
      BY <1>9 DEF Missing
    <2>2. gap'
      BY <1>1, <1>7, <1>9, Zenon
    <2>3. /\ Upcoming \in Nat /\ Upcoming <= Upcoming'
          /\ Below(rxbuf, out, Upcoming')
      <3>1. Upcoming \in Nat /\ Below(rxbuf, out, Upcoming)
        BY <1>3, UpcomingIs DEF OrderInv
      <3>2. Upcoming <= Upcoming
        BY <3>1
      <3> QED BY <1>4, <3>1, <3>2, Zenon
    <2>4. lframe \in 0..NFrames
      BY DEF ReaderInv, ReaderTypeOK
    <2> QED BY <1>1, <1>3, <2>1, <2>2, <2>3, <2>4, RoundOrders, Zenon
  <1> QED BY <1>8, <1>9

LEMMA OrderStepHolds ==
    ASSUME NFrames >= Lagrange + 3
    PROVE  ReaderInv /\ OrderInv /\ [ReaderNext]_rvars => ReaderInv' /\ OrderInv'
  <1> SUFFICES ASSUME ReaderInv, OrderInv, [ReaderNext]_rvars
               PROVE  ReaderInv' /\ OrderInv'
    OBVIOUS
  <1>1. ReaderInv'
    BY ReaderStepHolds
  <1> SUFFICES OrderInv'
    BY <1>1
  <1>2. CASE (Emit \/ Vanish \/ Deliver) /\ UNCHANGED reader
    BY <1>2, OrderOutside DEF Emit, Vanish, Deliver
  <1>3. CASE UNCHANGED rvars
    BY <1>3, OrderOutside DEF rvars, vars
  <1> QED BY <1>1, <1>2, <1>3, OrderBegins, PresentOrders, MissingOrders DEF ReaderNext

(* A position is the same on every channel of a frame. *)
LEMMA AtIs ==
    ASSUME \A p \in Period : out[p] = rxbuf[p],
           Uniform(rxbuf, 0, NFrames + Lagrange),
           NEW i \in LineFrames, NEW c \in 0 .. Channels - 1
    PROVE  At(i, c) = V(rxbuf, i)
  <1> DEFINE p == Channels * i + c
  <1>1. p \in Line /\ p \div Channels = i /\ (i < NFrames => p \in Period)
    BY SampleOf
  <1> HIDE DEF p
  <1>2. 0 <= i /\ i < NFrames + Lagrange
    BY ReaderSizes DEF LineFrames
  <1>3. rxbuf[p][1] = V(rxbuf, i)
    BY <1>1, <1>2 DEF Uniform
  <1>4. (IF i < NFrames THEN out ELSE rxbuf)[p] = rxbuf[p]
    BY <1>1
  <1> QED BY <1>3, <1>4 DEF At, p

LEMMA InTurnIsInOrder == ReaderInv /\ OrderInv => PlayedInOrder
  <1> SUFFICES ASSUME ReaderInv, OrderInv, Ended, ~gap, ~gapBefore,
                      NEW c \in 0 .. Channels - 1
               PROVE  LET held == {i \in LineFrames : At(i, c) > 0}
                      IN /\ {At(i, c) : i \in held} = owed + 1 .. NextPosition - 1
                         /\ \A i, j \in held : i < j => At(i, c) < At(j, c)
    BY Zenon DEF PlayedInOrder, LineFrames
  <1> DEFINE held == {i \in LineFrames : At(i, c) > 0}
  <1>1. NextPosition = Upcoming /\ Upcoming \in Nat /\ owed \in Nat
    BY UpcomingIs DEF ReaderInv, ReaderTypeOK
  <1>2. /\ \A p \in Period : out[p] = rxbuf[p]
        /\ Uniform(rxbuf, 0, NFrames + Lagrange)
        /\ Run(rxbuf, 0, NFrames + Lagrange, owed + 1, Upcoming)
    BY Zenon DEF OrderInv, PlayedInTurn, Ended
  <1>3. \A i \in LineFrames : At(i, c) = V(rxbuf, i) /\ V(rxbuf, i) \in Int
    BY <1>2, AtIs, ValueIsInt DEF ReaderInv
  <1>4. LineFrames = 0 .. (NFrames + Lagrange) - 1
    <2>1. NFrames + Lagrange - 1 = (NFrames + Lagrange) - 1
      BY ReaderSizes
    <2> QED BY <2>1, Zenon DEF LineFrames
  <1>5. \A i, j \in held : i < j => At(i, c) < At(j, c)
    BY <1>2, <1>3, <1>4 DEF Run
  <1>6. ASSUME NEW v \in {At(i, c) : i \in held} PROVE v \in owed + 1 .. Upcoming - 1
    <2>1. PICK i \in held : v = At(i, c)
      BY <1>6
    <2>2. i \in LineFrames /\ v = V(rxbuf, i) /\ v > 0 /\ v \in Int
      BY <1>3, <2>1
    <2>3. owed + 1 <= v /\ v < Upcoming
      BY <1>2, <1>4, <2>2 DEF Run
    <2> QED BY <1>1, <2>2, <2>3
  <1>7. ASSUME NEW v \in owed + 1 .. Upcoming - 1 PROVE v \in {At(i, c) : i \in held}
    <2>1. PICK i \in LineFrames : V(rxbuf, i) = v
      BY <1>2, <1>4 DEF Run
    <2>2. v > 0
      BY <1>1
    <2> QED BY <1>3, <2>1, <2>2
  <1> QED BY <1>1, <1>5, <1>6, <1>7

(* Unless three frames in a row are missing, every frame read from the     *)
(* ring is played once and in order, on every channel: not only by chance  *)
(* of the sizes of a run, but for every period of Lagrange + 3 frames or   *)
(* more, in both programs (vban_functions.h:749, 820-848).  In a shorter   *)
(* period all frames but those kept for the next one may be predicted.     *)
THEOREM FramesArePlayedInOrder ==
    ASSUME NFrames >= Lagrange + 3
    PROVE  ReaderSpec => []PlayedInOrder
<1>1. ReaderInit => ReaderInv /\ OrderInv
  BY ReaderInitHolds, OrderInitHolds
<1>2. ReaderInv /\ OrderInv /\ [ReaderNext]_rvars => (ReaderInv /\ OrderInv)'
  BY OrderStepHolds
<1>3. ReaderInv /\ OrderInv => PlayedInOrder
  BY InTurnIsInOrder
<1>4. QED
  BY <1>1, <1>2, <1>3, PTL DEF ReaderSpec

=============================================================================
