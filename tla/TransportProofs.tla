--------------------------- MODULE TransportProofs ---------------------------
(***************************************************************************)
(* Proofs about Transport, for any redundancy, any width of nuFrame and    *)
(* any number of packets, copies in flight and restarts, and about         *)
(* Discovery, which extends it, for any receptors, command lines and       *)
(* networks: where the search leaves the socket aimed, and that what       *)
(* Transport promises still holds when the emitter searches first.         *)
(***************************************************************************)
EXTENDS Discovery, SequenceTheorems, TLAPS

LastPlayed == IF played = << >> THEN 0 ELSE played[Len(played)]

(* Every copy in flight is of a packet that has been begun and carries its *)
(* number; the copies are in the order of their packets.                   *)
InFlight ==
    /\ \A a \in 1..Len(net) : net[a].id \in 1..sent /\ net[a].nu = nuOf[net[a].id]
    /\ \A a, b \in 1..Len(net) : a <= b => net[a].id <= net[b].id

(* The receptor compares with the packet played last, and what is still in *)
(* flight is not older than what it has seen.                              *)
Compared ==
    /\ nu_frame = IF played = << >> THEN 0 ELSE nuOf[LastPlayed]
    /\ \A a \in 1..Len(net) : LastPlayed <= net[a].id
    /\ \A id \in arrived : \A a \in 1..Len(net) : id <= net[a].id

Sending == spc # "idle" => sent > 0 /\ nuOf[sent] = nuFrame

TransportInv == TypeOK /\ Sending /\ InFlight /\ Compared /\ PlayedOnceInOrder

-----------------------------------------------------------------------------
(* What the network and the receptor leave of the copies in flight: some   *)
(* of them, in their order, perhaps twice.                                 *)
Drawn(s, t) ==
    \E f \in [1..Len(s) -> 1..Len(t)] :
      /\ \A a, b \in 1..Len(s) : a <= b => f[a] <= f[b]
      /\ \A a \in 1..Len(s) : s[a] = t[f[a]]

LEMMA RemoveDraws ==
    ASSUME NEW S, NEW s \in Seq(S), NEW at \in 1..Len(s)
    PROVE  RemoveAt(s, at) \in Seq(S) /\ Drawn(RemoveAt(s, at), s)
  <1> DEFINE l == SubSeq(s, 1, at - 1)
             r == SubSeq(s, at + 1, Len(s))
             t == RemoveAt(s, at)
             f == [a \in 1..Len(t) |-> IF a < at THEN a ELSE a + 1]
  <1>1. Len(s) \in Nat /\ \A a \in 1..Len(s) : s[a] \in S
    BY LenProperties, ElementOfSeq
  <1>2. /\ l \in Seq(S) /\ Len(l) = at - 1
        /\ \A a \in 1 .. at - 1 : l[a] = s[a]
    <2>1. \A a \in 1 .. at - 1 : s[a] \in S
      BY <1>1
    <2>2. /\ l \in Seq(S)
          /\ Len(l) = IF 1 <= at - 1 THEN at - 1 - 1 + 1 ELSE 0
          /\ \A a \in 1 .. at - 1 - 1 + 1 : l[a] = s[1 + a - 1]
      BY <1>1, <2>1, SubSeqProperties
    <2> QED BY <1>1, <2>2
  <1>3. /\ r \in Seq(S) /\ Len(r) = Len(s) - at
        /\ \A a \in 1 .. Len(s) - at : r[a] = s[at + a]
    <2>1. \A a \in at + 1 .. Len(s) : s[a] \in S
      BY <1>1
    <2>2. /\ r \in Seq(S)
          /\ Len(r) = IF at + 1 <= Len(s) THEN Len(s) - (at + 1) + 1 ELSE 0
          /\ \A a \in 1 .. Len(s) - (at + 1) + 1 : r[a] = s[at + 1 + a - 1]
      BY <1>1, <2>1, SubSeqProperties
    <2> QED BY <1>1, <2>2
  <1>4. /\ t \in Seq(S) /\ Len(t) = Len(s) - 1
        /\ \A a \in 1 .. Len(s) - 1 : t[a] = IF a <= at - 1 THEN l[a] ELSE r[a - (at - 1)]
    <2> DEFINE n == at - 1
               k == Len(s) - at
    <2>1. n \in Nat /\ k \in Nat /\ Len(l) = n /\ Len(r) = k /\ l \in Seq(S) /\ r \in Seq(S)
      BY <1>1, <1>2, <1>3
    <2>2. /\ l \o r \in Seq(S) /\ Len(l \o r) = n + k
          /\ \A a \in 1 .. n + k : (l \o r)[a] = IF a <= n THEN l[a] ELSE r[a - n]
      <3> HIDE DEF n, k, l, r
      <3>1. l \in Seq(S) /\ r \in Seq(S)
        BY <2>1
      <3>2. /\ l \o r \in Seq(S) /\ Len(l \o r) = Len(l) + Len(r)
            /\ \A a \in 1 .. Len(l) + Len(r) :
                 (l \o r)[a] = IF a <= Len(l) THEN l[a] ELSE r[a - Len(l)]
        BY <3>1, ConcatProperties
      <3> QED BY <2>1, <3>2
    <2>3. t = l \o r
      BY DEF RemoveAt
    <2>4. n + k = Len(s) - 1
      BY <1>1
    <2> HIDE DEF l, r, t
    <2> QED BY <2>2, <2>3, <2>4
  <1>5. \A a \in 1..Len(t) : t[a] = s[f[a]]
    BY <1>1, <1>2, <1>3, <1>4
  <1>6. f \in [1..Len(t) -> 1..Len(s)]
    BY <1>1, <1>4
  <1>7. \A a, b \in 1..Len(t) : a <= b => f[a] <= f[b]
    BY <1>1, <1>4
  <1> QED BY <1>4, <1>5, <1>6, <1>7 DEF Drawn

LEMMA InsertDraws ==
    ASSUME NEW S, NEW s \in Seq(S), NEW at \in 1..Len(s)
    PROVE  InsertAt(s, at, s[at]) \in Seq(S) /\ Drawn(InsertAt(s, at, s[at]), s)
  <1> DEFINE l == SubSeq(s, 1, at - 1)
             m == l \o << s[at] >>
             r == SubSeq(s, at, Len(s))
             t == InsertAt(s, at, s[at])
             f == [a \in 1..Len(t) |-> IF a <= at THEN a ELSE a - 1]
  <1>1. Len(s) \in Nat /\ \A a \in 1..Len(s) : s[a] \in S
    BY LenProperties, ElementOfSeq
  <1>2. /\ l \in Seq(S) /\ Len(l) = at - 1
        /\ \A a \in 1 .. at - 1 : l[a] = s[a]
    <2>1. \A a \in 1 .. at - 1 : s[a] \in S
      BY <1>1
    <2>2. /\ l \in Seq(S)
          /\ Len(l) = IF 1 <= at - 1 THEN at - 1 - 1 + 1 ELSE 0
          /\ \A a \in 1 .. at - 1 - 1 + 1 : l[a] = s[1 + a - 1]
      BY <1>1, <2>1, SubSeqProperties
    <2> QED BY <1>1, <2>2
  <1>3. /\ r \in Seq(S) /\ Len(r) = Len(s) - at + 1
        /\ \A a \in 1 .. Len(s) - at + 1 : r[a] = s[at + a - 1]
    <2>1. \A a \in at .. Len(s) : s[a] \in S
      BY <1>1
    <2>2. /\ r \in Seq(S)
          /\ Len(r) = IF at <= Len(s) THEN Len(s) - at + 1 ELSE 0
          /\ \A a \in 1 .. Len(s) - at + 1 : r[a] = s[at + a - 1]
      BY <1>1, <2>1, SubSeqProperties
    <2> QED BY <1>1, <2>2
  <1>4. << s[at] >> \in Seq(S) /\ Len(<< s[at] >>) = 1 /\ << s[at] >>[1] = s[at]
    BY <1>1
  <1>5. /\ m \in Seq(S) /\ Len(m) = at
        /\ \A a \in 1..at : m[a] = s[a]
    <2>1. /\ m \in Seq(S) /\ Len(m) = at
          /\ \A a \in 1..at : m[a] = IF a <= at - 1 THEN l[a] ELSE << s[at] >>[a - (at - 1)]
      BY <1>2, <1>4, ConcatProperties
    <2> QED BY <1>1, <1>2, <1>4, <2>1
  <1>6. /\ t \in Seq(S) /\ Len(t) = Len(s) + 1
        /\ \A a \in 1 .. Len(s) + 1 : t[a] = IF a <= at THEN m[a] ELSE r[a - at]
    <2> DEFINE n == at
               k == Len(s) - at + 1
    <2>1. n \in Nat /\ k \in Nat /\ Len(m) = n /\ Len(r) = k /\ m \in Seq(S) /\ r \in Seq(S)
      BY <1>1, <1>3, <1>5
    <2>2. /\ m \o r \in Seq(S) /\ Len(m \o r) = n + k
          /\ \A a \in 1 .. n + k : (m \o r)[a] = IF a <= n THEN m[a] ELSE r[a - n]
      <3> HIDE DEF n, k, m, r
      <3>1. m \in Seq(S) /\ r \in Seq(S)
        BY <2>1
      <3>2. /\ m \o r \in Seq(S) /\ Len(m \o r) = Len(m) + Len(r)
            /\ \A a \in 1 .. Len(m) + Len(r) :
                 (m \o r)[a] = IF a <= Len(m) THEN m[a] ELSE r[a - Len(m)]
        BY <3>1, ConcatProperties
      <3> QED BY <2>1, <3>2
    <2>3. t = m \o r
      BY DEF InsertAt
    <2>4. n + k = Len(s) + 1
      BY <1>1
    <2> HIDE DEF m, r, t
    <2> QED BY <2>2, <2>3, <2>4
  <1>7. \A a \in 1..Len(t) : t[a] = s[f[a]]
    BY <1>1, <1>3, <1>5, <1>6
  <1>8. f \in [1..Len(t) -> 1..Len(s)]
    BY <1>1, <1>6
  <1>9. \A a, b \in 1..Len(t) : a <= b => f[a] <= f[b]
    BY <1>1, <1>6
  <1> QED BY <1>6, <1>7, <1>8, <1>9 DEF Drawn

LEMMA TailDraws ==
    ASSUME NEW S, NEW s \in Seq(S), s # << >>
    PROVE  Tail(s) \in Seq(S) /\ Drawn(Tail(s), s) /\ Len(s) > 0 /\ Head(s) = s[1]
  <1> DEFINE f == [a \in 1..Len(Tail(s)) |-> a + 1]
  <1>1. /\ Len(s) \in Nat \ {0} /\ Head(s) = s[1]
        /\ Tail(s) \in Seq(S) /\ Len(Tail(s)) = Len(s) - 1
        /\ \A a \in 1..Len(Tail(s)) : Tail(s)[a] = s[a + 1]
    BY EmptySeq, HeadTailProperties
  <1>2. /\ f \in [1..Len(Tail(s)) -> 1..Len(s)]
        /\ \A a, b \in 1..Len(Tail(s)) : a <= b => f[a] <= f[b]
        /\ \A a \in 1..Len(Tail(s)) : Tail(s)[a] = s[f[a]]
    BY <1>1
  <1>3. Drawn(Tail(s), s)
    <2> HIDE DEF f
    <2> QED BY <1>2 DEF Drawn
  <1> QED BY <1>1, <1>3

(* What is drawn from copies in order is in order.                         *)
LEMMA DrawnKeeps ==
    ASSUME TypeOK, InFlight, Compared, net' \in Seq(Copies), Drawn(net', net),
           UNCHANGED <<sent, nuOf>>
    PROVE  /\ InFlight'
           /\ \A a \in 1..Len(net') : LastPlayed <= net'[a].id
           /\ \A id \in arrived : \A a \in 1..Len(net') : id <= net'[a].id
  <1>1. PICK f \in [1..Len(net') -> 1..Len(net)] :
          /\ \A a, b \in 1..Len(net') : a <= b => f[a] <= f[b]
          /\ \A a \in 1..Len(net') : net'[a] = net[f[a]]
    BY DEF Drawn
  <1>2. \A a \in 1..Len(net') : f[a] \in 1..Len(net)
    BY <1>1
  <1>3. \A a \in 1..Len(net') :
          /\ net'[a].id \in 1..sent
          /\ net'[a].nu = nuOf[net'[a].id]
          /\ LastPlayed <= net'[a].id
          /\ \A id \in arrived : id <= net'[a].id
    BY <1>1, <1>2 DEF InFlight, Compared
  <1>4. \A a, b \in 1..Len(net') : a <= b => net'[a].id <= net'[b].id
    BY <1>1, <1>2 DEF InFlight
  <1> QED BY <1>3, <1>4 DEF InFlight

-----------------------------------------------------------------------------
LEMMA InitHolds == Init => TransportInv
  <1> SUFFICES ASSUME Init PROVE TransportInv
    OBVIOUS
  <1>1. 0 \in Numbers /\ 0 \in 0..Redundancy /\ 0 \in 0..Attempts
    BY RedundancyAssumption, NuModAssumption DEF Numbers, Attempts
  <1>2. << >> \in Seq(Copies) /\ << >> \in Seq(1..0) /\ Len(<< >>) = 0
    BY EmptySeq
  <1>3. << >> \in [1..0 -> Numbers]
    BY EmptySeq, LenProperties
  <1>4. TypeOK
    BY <1>1, <1>2, <1>3, BoundsAssumption DEF Init, TypeOK
  <1>5. Sending /\ InFlight /\ Compared /\ PlayedOnceInOrder
    BY <1>2 DEF Init, Sending, InFlight, Compared, PlayedOnceInOrder
  <1> QED BY <1>4, <1>5 DEF TransportInv

LEMMA LastPlayedType ==
    ASSUME TypeOK
    PROVE  /\ LastPlayed \in 0..sent
           /\ played # << >> =>
                LastPlayed \in 1..sent /\ Len(played) \in Nat \ {0}
  <1>1. sent \in Nat /\ played \in Seq(1..sent)
    BY BoundsAssumption DEF TypeOK
  <1>2. CASE played = << >>
    BY <1>1, <1>2 DEF LastPlayed
  <1>3. CASE played # << >>
    <2>1. Len(played) \in Nat \ {0}
      BY <1>1, <1>3, EmptySeq
    <2>2. played[Len(played)] \in 1..sent
      BY <1>1, <2>1, ElementOfSeq
    <2> QED BY <1>1, <1>3, <2>1, <2>2 DEF LastPlayed
  <1> QED BY <1>2, <1>3

(* The number after nuFrame is a number.                                   *)
LEMMA NumberType == ASSUME NEW nu \in Numbers PROVE (nu + 1) % NuMod \in Numbers
  BY NuModAssumption DEF Numbers

(* A packet is begun: the copies in flight keep their numbers.             *)
LEMMA NewPacketKeeps == TransportInv /\ NewPacket => TransportInv'
  <1> SUFFICES ASSUME TransportInv, NewPacket PROVE TransportInv'
    OBVIOUS
  <1> USE DEF TransportInv, NewPacket
  <1>1. /\ sent \in 0..MaxPackets /\ sent < MaxPackets /\ sent' = sent + 1
        /\ nuFrame \in Numbers /\ nuOf \in [1..sent -> Numbers]
        /\ MaxPackets \in Nat
    BY BoundsAssumption DEF TypeOK
  <1>2. /\ nuOf' \in [1..sent' -> Numbers]
        /\ \A id \in 1..sent : nuOf'[id] = nuOf[id]
        /\ nuOf'[sent'] = nuFrame
    <2>1. nuOf \in Seq(Numbers) /\ Len(nuOf) = sent
      BY <1>1 DEF TypeOK
    <2>2. /\ nuOf' \in Seq(Numbers) /\ Len(nuOf') = sent + 1
          /\ \A id \in 1..sent : nuOf'[id] = nuOf[id]
          /\ nuOf'[sent + 1] = nuFrame
      BY <1>1, <2>1, AppendProperties
    <2> QED BY <1>1, <2>2, LenProperties
  <1>3. played' \in Seq(1..sent') /\ arrived' \subseteq 1..sent'
    <2>1. 1..sent \subseteq 1..sent'
      BY <1>1
    <2> QED BY <2>1, SeqMonotonic DEF TypeOK
  <1>4. TypeOK'
    BY <1>1, <1>2, <1>3 DEF TypeOK
  <1>5. Sending' /\ PlayedOnceInOrder'
    BY <1>1, <1>2 DEF Sending, PlayedOnceInOrder
  <1>6. InFlight'
    <2>1. \A a \in 1..Len(net) : net[a].id \in 1..sent' /\ net[a].nu = nuOf'[net[a].id]
      BY <1>1, <1>2 DEF InFlight
    <2> QED BY <2>1 DEF InFlight
  <1>7. Compared'
    <2>1. LastPlayed' = LastPlayed /\ (played # << >> => LastPlayed \in 1..sent)
      BY LastPlayedType DEF LastPlayed
    <2> QED BY <1>2, <2>1 DEF Compared
  <1> QED BY <1>4, <1>5, <1>6, <1>7

(* A copy joins the others: it is of the packet begun last.                *)
LEMMA TransmitKeeps ==
    ASSUME TransportInv, spc # "idle", Transmit,
           UNCHANGED <<sent, nuFrame, nuOf, nu_frame, arrived, played>>
    PROVE  net' \in Seq(Copies) /\ InFlight' /\ Compared'
  <1> USE DEF TransportInv
  <1>1. CASE UNCHANGED net
    BY <1>1 DEF TypeOK, InFlight, Compared, LastPlayed
  <1>2. CASE net' = Append(net, [id |-> sent, nu |-> nuFrame])
    <2> DEFINE c == [id |-> sent, nu |-> nuFrame]
    <2>1. sent \in 1..MaxPackets /\ nuFrame = nuOf[sent] /\ c \in Copies
      BY BoundsAssumption DEF TypeOK, Sending, Copies
    <2>2. /\ net' \in Seq(Copies) /\ Len(net) \in Nat /\ Len(net') = Len(net) + 1
          /\ \A a \in 1..Len(net) : net'[a] = net[a]
          /\ net'[Len(net) + 1] = c
      BY <1>2, <2>1, AppendProperties, LenProperties DEF TypeOK
    <2>3. LastPlayed \in 0..sent /\ arrived \subseteq 1..sent /\ LastPlayed' = LastPlayed
      BY LastPlayedType DEF TypeOK, LastPlayed
    <2>4. \A a \in 1..Len(net') : a \in 1..Len(net) \/ a = Len(net) + 1
      BY <2>2
    <2>5. \A a \in 1..Len(net') :
            net'[a].id \in 1..sent /\ net'[a].nu = nuOf[net'[a].id]
      BY <2>1, <2>2, <2>4 DEF InFlight
    <2>6. \A a, b \in 1..Len(net') : a <= b => net'[a].id <= net'[b].id
      <3> SUFFICES ASSUME NEW a \in 1..Len(net'), NEW b \in 1..Len(net'), a <= b
                   PROVE  net'[a].id <= net'[b].id
        OBVIOUS
      <3>1. CASE b \in 1..Len(net)
        BY <2>2, <3>1 DEF InFlight
      <3>2. CASE b = Len(net) + 1
        BY <2>1, <2>2, <2>5, <3>2
      <3> QED BY <2>4, <3>1, <3>2
    <2>7. \A a \in 1..Len(net') : LastPlayed <= net'[a].id
      BY <2>1, <2>2, <2>3, <2>4 DEF Compared
    <2>8. \A id \in arrived : \A a \in 1..Len(net') : id <= net'[a].id
      BY <2>1, <2>2, <2>3, <2>4 DEF Compared
    <2> QED BY <2>2, <2>3, <2>5, <2>6, <2>7, <2>8 DEF InFlight, Compared
  <1> QED BY <1>1, <1>2 DEF Transmit

(* The emitter sends a copy, sends it again, ends it, or is restarted.     *)
LEMMA EmitterKeeps ==
    TransportInv /\ (SendCopy \/ SendAgain \/ CopyDone \/ Restart) => TransportInv'
  <1> SUFFICES ASSUME TransportInv, SendCopy \/ SendAgain \/ CopyDone \/ Restart
               PROVE  TransportInv'
    OBVIOUS
  <1> USE DEF TransportInv
  <1>1. CASE SendCopy \/ SendAgain
    <2> USE DEF SendCopy, SendAgain
    <2>1. /\ UNCHANGED <<sent, nuFrame, red, nu_frame, restarts, nuOf, arrived, played>>
          /\ spc # "idle" /\ spc' \in {"send", "check"} /\ Transmit
      BY <1>1
    <2>2. net' \in Seq(Copies) /\ InFlight' /\ Compared'
      BY <2>1, TransmitKeeps
    <2>3. icnt' \in 0..Attempts
      BY <1>1 DEF TypeOK, Attempts
    <2>4. TypeOK'
      BY <2>1, <2>2, <2>3 DEF TypeOK
    <2>5. Sending' /\ PlayedOnceInOrder'
      BY <2>1 DEF Sending, PlayedOnceInOrder
    <2> QED BY <2>2, <2>4, <2>5
  <1>2. CASE CopyDone
    <2> USE <1>2 DEF CopyDone
    <2>1. /\ UNCHANGED <<sent, net, nu_frame, restarts, nuOf, arrived, played>>
          /\ icnt' \in 0..Attempts
      BY DEF Attempts
    <2>2. /\ spc' \in {"idle", "send"}
          /\ red' \in 0..Redundancy
          /\ nuFrame' \in Numbers
          /\ spc' # "idle" => nuFrame' = nuFrame
      <3>1. red \in 0..Redundancy /\ nuFrame \in Numbers
        BY DEF TypeOK
      <3>2. CASE red = Redundancy
        BY <3>1, <3>2, NumberType, RedundancyAssumption
      <3>3. CASE red # Redundancy
        BY <3>1, <3>3, RedundancyAssumption
      <3> QED BY <3>2, <3>3
    <2>3. TypeOK'
      BY <2>1, <2>2 DEF TypeOK
    <2>4. InFlight' /\ Compared' /\ PlayedOnceInOrder'
      BY <2>1 DEF InFlight, Compared, LastPlayed, PlayedOnceInOrder
    <2>5. Sending'
      BY <2>1, <2>2 DEF Sending
    <2> QED BY <2>3, <2>4, <2>5
  <1>3. CASE Restart
    <2> USE <1>3 DEF Restart
    <2>1. UNCHANGED <<sent, net, nu_frame, nuOf, arrived, played>>
      OBVIOUS
    <2>2. TypeOK'
      <3>1. /\ 0 \in Numbers /\ 0 \in 0..Redundancy /\ 0 \in 0..Attempts
            /\ restarts' \in 0..MaxRestarts
        BY RedundancyAssumption, NuModAssumption, BoundsAssumption
           DEF Numbers, Attempts, TypeOK
      <3> QED BY <2>1, <3>1 DEF TypeOK
    <2>3. InFlight' /\ Compared' /\ PlayedOnceInOrder' /\ Sending'
      BY <2>1 DEF InFlight, Compared, LastPlayed, PlayedOnceInOrder, Sending
    <2> QED BY <2>2, <2>3
  <1> QED BY <1>1, <1>2, <1>3

(* The network loses or doubles a copy.                                    *)
LEMMA NetworkKeeps == TransportInv /\ (Lose \/ Double) => TransportInv'
  <1> SUFFICES ASSUME TransportInv, Lose \/ Double PROVE TransportInv'
    OBVIOUS
  <1> USE DEF TransportInv
  <1>1. UNCHANGED <<emitter, nu_frame, restarts, nuOf, arrived, played>>
    BY DEF Lose, Double
  <1>2. net' \in Seq(Copies) /\ Drawn(net', net)
    BY RemoveDraws, InsertDraws DEF Lose, Double, TypeOK
  <1>3. TypeOK'
    BY <1>1, <1>2 DEF TypeOK, emitter
  <1>4. InFlight' /\ Compared'
    BY <1>1, <1>2, DrawnKeeps DEF Compared, LastPlayed, emitter
  <1>5. Sending' /\ PlayedOnceInOrder'
    BY <1>1 DEF Sending, PlayedOnceInOrder, emitter
  <1> QED BY <1>3, <1>4, <1>5

(* The receptor takes the oldest copy: it is not older than the packet     *)
(* played last, and fresh only if it is not that packet.                   *)
LEMMA ReceiveKeeps == TransportInv /\ Receive => TransportInv'
  <1> SUFFICES ASSUME TransportInv, Receive PROVE TransportInv'
    OBVIOUS
  <1> DEFINE p == Head(net)
  <1> USE DEF TransportInv
  <1>1. /\ net # << >> /\ net' = Tail(net)
        /\ UNCHANGED <<emitter, restarts, nuOf>>
        /\ arrived' = arrived \cup {p.id}
        /\ IF Fresh(p.nu)
             THEN played' = Append(played, p.id) /\ nu_frame' = p.nu
             ELSE UNCHANGED <<played, nu_frame>>
    BY DEF Receive
  <1>2. /\ net' \in Seq(Copies) /\ Drawn(net', net)
        /\ Len(net) \in Nat \ {0} /\ p = net[1]
    BY <1>1, TailDraws, LenProperties DEF TypeOK
  <1>3. /\ p \in Copies /\ p.id \in 1..sent /\ p.nu = nuOf[p.id]
        /\ p.nu \in Numbers /\ LastPlayed <= p.id
        /\ \A id \in arrived : id <= p.id
    <2>1. 1 \in 1..Len(net)
      BY <1>2
    <2>2. p \in Copies
      BY <1>2, <2>1, ElementOfSeq DEF TypeOK
    <2> QED BY <1>2, <2>1, <2>2 DEF InFlight, Compared, Copies
  <1>4. /\ InFlight'
        /\ \A a \in 1..Len(net') : LastPlayed <= net'[a].id
        /\ \A id \in arrived : \A a \in 1..Len(net') : id <= net'[a].id
    BY <1>1, <1>2, DrawnKeeps DEF emitter
  <1>5. \A a \in 1..Len(net') : p.id <= net'[a].id
    <2> SUFFICES ASSUME NEW a \in 1..Len(net') PROVE p.id <= net'[a].id
      OBVIOUS
    <2>1. PICK b \in 1..Len(net) : net'[a] = net[b]
      BY <1>2 DEF Drawn
    <2>2. 1 \in 1..Len(net) /\ 1 <= b
      BY <1>2
    <2> QED BY <1>2, <2>1, <2>2 DEF InFlight
  <1>6. arrived' \subseteq 1..sent' /\ sent' = sent
    BY <1>1, <1>3 DEF emitter, TypeOK
  <1>7. CASE ~Fresh(p.nu)
    <2>1. UNCHANGED <<played, nu_frame>>
      BY <1>1, <1>7
    <2>2. TypeOK'
      BY <1>1, <1>2, <1>6, <2>1 DEF TypeOK, emitter
    <2>3. Compared'
      BY <1>1, <1>4, <1>5, <2>1 DEF Compared, LastPlayed
    <2>4. Sending' /\ PlayedOnceInOrder'
      BY <1>1, <2>1 DEF Sending, PlayedOnceInOrder, emitter
    <2> QED BY <1>4, <2>2, <2>3, <2>4
  <1>8. CASE Fresh(p.nu)
    <2>1. played' = Append(played, p.id) /\ nu_frame' = p.nu
      BY <1>1, <1>8
    <2>2. LastPlayed < p.id
      <3>1. played # << >> => p.id # LastPlayed
        BY <1>3, <1>8 DEF Compared, Fresh
      <3>2. played = << >> => LastPlayed = 0
        BY DEF LastPlayed
      <3> QED BY <1>3, <3>1, <3>2, LastPlayedType, BoundsAssumption DEF TypeOK
    <2>3. /\ played' \in Seq(1..sent) /\ played' # << >>
          /\ Len(played) \in Nat /\ Len(played') = Len(played) + 1
          /\ \A a \in 1..Len(played) : played'[a] = played[a]
          /\ played'[Len(played) + 1] = p.id
      BY <1>3, <2>1, AppendProperties, LenProperties DEF TypeOK
    <2>4. LastPlayed' = p.id
      BY <2>3 DEF LastPlayed
    <2>5. TypeOK'
      BY <1>1, <1>2, <1>3, <1>6, <2>1, <2>3 DEF TypeOK, emitter
    <2>6. Compared'
      BY <1>1, <1>3, <1>4, <1>5, <2>1, <2>3, <2>4 DEF Compared
    <2>7. PlayedOnceInOrder'
      <3> SUFFICES ASSUME NEW a \in 1 .. Len(played') - 1
                   PROVE  played'[a] < played'[a + 1]
        BY DEF PlayedOnceInOrder
      <3>1. CASE a < Len(played)
        BY <2>3, <3>1 DEF PlayedOnceInOrder
      <3>2. CASE a = Len(played)
        BY <2>2, <2>3, <3>2 DEF LastPlayed
      <3> QED BY <2>3, <3>1, <3>2
    <2>8. Sending'
      BY <1>1 DEF Sending, emitter
    <2> QED BY <1>4, <2>5, <2>6, <2>7, <2>8
  <1> QED BY <1>7, <1>8

LEMMA StepHolds == TransportInv /\ [Next]_vars => TransportInv'
  <1> SUFFICES ASSUME TransportInv, [Next]_vars PROVE TransportInv'
    OBVIOUS
  <1>1. CASE UNCHANGED vars
    <2> USE <1>1 DEF vars, TransportInv
    <2> QED BY DEF TypeOK, Sending, InFlight, Compared, LastPlayed, PlayedOnceInOrder
  <1>2. CASE Next
    BY <1>2, NewPacketKeeps, EmitterKeeps, NetworkKeeps, ReceiveKeeps DEF Next
  <1> QED BY <1>1, <1>2

LEMMA InvHolds == Spec => []TransportInv
  BY InitHolds, StepHolds, PTL DEF Spec

-----------------------------------------------------------------------------
(* The fields of the emitter, the numbers and the copies keep their types, *)
(* whatever is lost, doubled, sent again or restarted.                     *)
THEOREM TransportTypeCorrect == Spec => []TypeOK
  <1>1. TransportInv => TypeOK
    BY DEF TransportInv
  <1> QED BY <1>1, InvHolds, PTL

(* The comparison with the number played last (vban_functions.h:970) is    *)
(* enough to hear every packet at most once and in order, for any width of *)
(* the number, any redundancy and any number of restarts of the emitter.   *)
THEOREM HeardOnceInOrder == Spec => []PlayedOnceInOrder
  <1>1. TransportInv => PlayedOnceInOrder
    BY DEF TransportInv
  <1> QED BY <1>1, InvHolds, PTL

-----------------------------------------------------------------------------
(* Which packets are not heard.                                            *)

(* The packet played last before id is m, 0 if there is none.              *)
LastBefore(id, m) ==
    /\ m = 0 => Before(id) = {}
    /\ m # 0 => m \in Before(id)
    /\ \A q \in Before(id) : q <= m

NumberOf(m) == IF m = 0 THEN 0 ELSE nuOf[m]

Sorted == \A a \in 1..Len(played) : played[a] <= LastPlayed

(* A packet that has arrived and is not heard has the number of the packet *)
(* heard before it.                                                        *)
Hidden ==
    \A id \in arrived :
      \/ id \in ToSet(played)
      \/ \E m \in 0..sent : LastBefore(id, m) /\ nuOf[id] = NumberOf(m)

(* An emitter that is not restarted counts its packets.                    *)
Counted ==
    restarts = 0 =>
      /\ \A x \in 1..sent : nuOf[x] = (x - 1) % NuMod
      /\ nuFrame = (IF spc = "idle" THEN sent ELSE sent - 1) % NuMod

HidingInv == Sorted /\ Hidden /\ Counted

LEMMA MaxIs ==
    ASSUME NEW S \in SUBSET Nat, NEW m \in S, \A q \in S : q <= m
    PROVE  Max(S) = m
  <1>1. \A x \in S : (\A y \in S : x >= y) => x = m
    OBVIOUS
  <1>2. \E x \in S : \A y \in S : x >= y
    OBVIOUS
  <1> QED BY <1>1, <1>2 DEF Max

LEMMA ToSetType ==
    ASSUME TypeOK
    PROVE  /\ ToSet(played) \subseteq 1..sent
           /\ \A x \in ToSet(played) : \E a \in 1..Len(played) : x = played[a]
           /\ \A a \in 1..Len(played) : played[a] \in ToSet(played)
  <1>1. DOMAIN played = 1..Len(played)
    BY LenProperties DEF TypeOK
  <1>2. \A a \in 1..Len(played) : played[a] \in 1..sent
    BY ElementOfSeq DEF TypeOK
  <1> QED BY <1>1, <1>2 DEF ToSet

(* What the receptor compares a packet with is the last one before it.     *)
LEMMA LastIsLastBefore ==
    ASSUME TypeOK, Sorted, NEW id \in 1..sent, LastPlayed <= id,
           id \notin ToSet(played)
    PROVE  LastBefore(id, LastPlayed)
  <1>1. CASE played = << >>
    <2>1. ToSet(played) = {}
      BY <1>1, ToSetType, EmptySeq
    <2> QED BY <1>1, <2>1 DEF LastBefore, LastPlayed, Before
  <1>2. CASE played # << >>
    <2>1. LastPlayed \in ToSet(played) /\ LastPlayed # 0
      BY <1>2, LastPlayedType, ToSetType DEF LastPlayed
    <2>2. \A x \in ToSet(played) : x <= LastPlayed
      BY ToSetType DEF Sorted
    <2>3. LastPlayed < id
      BY <2>1, LastPlayedType, BoundsAssumption DEF TypeOK
    <2> QED BY <2>1, <2>2, <2>3 DEF LastBefore, Before
  <1> QED BY <1>1, <1>2

(* The three parts when no packet is played and none begun.                *)
LEMMA QuietKeeps ==
    ASSUME TransportInv, Sorted, Hidden,
           UNCHANGED <<sent, nuOf, arrived, played>>
    PROVE  Sorted' /\ Hidden'
  BY DEF Sorted, Hidden, LastPlayed, LastBefore, Before, NumberOf

(* Facts about numbers modulo k.                                           *)
LEMMA DivMod ==
    ASSUME NEW a \in Nat, NEW k \in Nat \ {0}
    PROVE  /\ a \div k \in Nat /\ a % k \in 0 .. k - 1
           /\ a = k * (a \div k) + (a % k)
  OBVIOUS

LEMMA Apart ==
    ASSUME NEW x \in Int, NEW y \in Int, NEW k \in Nat \ {0}, k * x < k * y
    PROVE  k * y - k * x >= k
  <1>1. x < y
    <2>1. CASE y <= x
      <3>1. k * (x - y) >= 0
        BY <2>1
      <3> QED BY <3>1
    <2> QED BY <2>1
  <1>2. k * (y - x - 1) >= 0
    <2> DEFINE d == y - x - 1
    <2>1. d \in Nat
      BY <1>1
    <2> HIDE DEF d
    <2>2. k * d >= 0
      BY <2>1
    <2> QED BY <2>2 DEF d
  <1>3. k * (y - x - 1) = k * y - k * x - k
    OBVIOUS
  <1> QED BY <1>2, <1>3

LEMMA Unique ==
    ASSUME NEW x \in Int, NEW y \in Int, NEW k \in Nat \ {0},
           NEW r \in 0 .. k - 1, NEW q \in 0 .. k - 1, k * x + r = k * y + q
    PROVE  r = q
  <1>1. CASE k * x < k * y
    BY <1>1, Apart
  <1>2. CASE k * y < k * x
    BY <1>2, Apart
  <1>3. k * x \in Int /\ k * y \in Int
    OBVIOUS
  <1> QED BY <1>1, <1>2, <1>3

(* Numbers that are equal modulo k are k apart, or more.                   *)
LEMMA ModEqual ==
    ASSUME NEW a \in Nat, NEW b \in Nat, NEW k \in Nat \ {0}, a < b, a % k = b % k
    PROVE  b - a >= k
  <1> DEFINE x == a \div k
             y == b \div k
  <1>1. /\ x \in Nat /\ a % k \in 0 .. k - 1
        /\ a = k * x + (a % k)
    BY DivMod, Zenon
  <1>0. /\ y \in Nat /\ b % k \in 0 .. k - 1
        /\ b = k * y + (b % k)
    BY DivMod, Zenon
  <1> HIDE DEF x, y
  <1>2. k * x \in Int /\ k * y \in Int
    BY <1>1, <1>0
  <1>3. k * x < k * y
    BY <1>1, <1>0, <1>2
  <1>4. k * y - k * x >= k
    BY <1>1, <1>0, <1>3, Apart
  <1> QED BY <1>1, <1>0, <1>2, <1>4

(* Counting modulo k, one number after the other.                          *)
LEMMA ModStep ==
    ASSUME NEW n \in Nat, NEW k \in Nat \ {0}
    PROVE  ((n % k) + 1) % k = (n + 1) % k
  <1> DEFINE r == n % k
             x == n \div k
             y == (n + 1) \div k
             z == (r + 1) \div k
             p == (n + 1) % k
             q == (r + 1) % k
  <1>1. x \in Nat /\ r \in 0..k-1 /\ n = k * x + r
    BY DivMod
  <1>2. y \in Nat /\ p \in 0..k-1 /\ n + 1 = k * y + p
    <2>1. n + 1 \in Nat
      OBVIOUS
    <2> QED BY <2>1, DivMod, Zenon
  <1>3. z \in Nat /\ q \in 0..k-1 /\ r + 1 = k * z + q
    <2>1. r + 1 \in Nat
      BY <1>1
    <2> QED BY <2>1, DivMod, Zenon
  <1> HIDE DEF r, x, y, z, p, q
  <1>4. k * (x + z) + q = k * y + p
    <2>1. k * (x + z) = k * x + k * z
      BY <1>1, <1>3
    <2>2. k * x \in Int /\ k * z \in Int /\ k * y \in Int
      BY <1>1, <1>2, <1>3
    <2> QED BY <1>1, <1>2, <1>3, <2>1, <2>2
  <1>5. q = p
    BY <1>1, <1>2, <1>3, <1>4, Unique
  <1> QED BY <1>5 DEF p, q, r

(* Sorted and Hidden over the steps that change what they speak of.        *)
LEMMA NewPacketHides ==
    ASSUME TransportInv, Sorted, Hidden, NewPacket
    PROVE  Sorted' /\ Hidden'
  <1>1. /\ sent \in Nat /\ sent' = sent + 1 /\ UNCHANGED <<arrived, played>>
        /\ arrived \subseteq 1..sent
        /\ \A x \in 1..sent : nuOf'[x] = nuOf[x]
    <2>1. nuOf \in Seq(Numbers) /\ Len(nuOf) = sent /\ nuFrame \in Numbers
      BY BoundsAssumption DEF TransportInv, TypeOK
    <2>2. \A x \in 1..sent : nuOf'[x] = nuOf[x]
      BY <2>1, AppendProperties DEF NewPacket
    <2> QED BY <2>2, BoundsAssumption DEF TransportInv, TypeOK, NewPacket
  <1>2. Sorted'
    BY <1>1 DEF Sorted, LastPlayed
  <1>3. Hidden'
    <2> SUFFICES ASSUME NEW id \in arrived, id \notin ToSet(played)
                 PROVE  \E m \in 0..sent' : LastBefore(id, m)' /\ nuOf'[id] = NumberOf(m)'
      BY <1>1 DEF Hidden
    <2>1. PICK m \in 0..sent : LastBefore(id, m) /\ nuOf[id] = NumberOf(m)
      BY DEF Hidden
    <2>2. LastBefore(id, m)'
      BY <1>1, <2>1 DEF LastBefore, Before
    <2>3. nuOf'[id] = NumberOf(m)'
      BY <1>1, <2>1 DEF NumberOf
    <2> QED BY <1>1, <2>2, <2>3
  <1> QED BY <1>2, <1>3

LEMMA ReceiveHides ==
    ASSUME TransportInv, Sorted, Hidden, Receive
    PROVE  Sorted' /\ Hidden'
  <1> DEFINE p == Head(net)
  <1>0. TypeOK /\ TypeOK' /\ Compared /\ InFlight
    BY ReceiveKeeps DEF TransportInv
  <1>1. /\ net # << >> /\ UNCHANGED <<sent, nuOf>>
        /\ arrived' = arrived \cup {p.id}
        /\ IF Fresh(p.nu)
             THEN played' = Append(played, p.id)
             ELSE UNCHANGED played
    BY DEF Receive, emitter
  <1>2. /\ p.id \in 1..sent /\ p.nu = nuOf[p.id] /\ LastPlayed <= p.id
        /\ \A id \in arrived : id <= p.id
    <2>1. Len(net) \in Nat \ {0} /\ p = net[1]
      BY <1>0, <1>1, TailDraws, LenProperties DEF TypeOK
    <2> QED BY <1>0, <2>1 DEF InFlight, Compared
  <1>3. CASE ~Fresh(p.nu)
    <2>1. UNCHANGED played
      BY <1>1, <1>3
    <2>2. Sorted'
      BY <2>1 DEF Sorted, LastPlayed
    <2>3. LastPlayed \in 0..sent /\ nuOf[p.id] = NumberOf(LastPlayed)
      <3>1. nu_frame = NumberOf(LastPlayed)
        BY <1>0, LastPlayedType DEF Compared, NumberOf, LastPlayed
      <3> QED BY <1>0, <1>2, <1>3, <3>1, LastPlayedType DEF Fresh
    <2>4. p.id \in ToSet(played) \/ LastBefore(p.id, LastPlayed)
      BY <1>0, <1>2, LastIsLastBefore
    <2>5. \A id \in arrived' :
            \/ id \in ToSet(played)
            \/ \E m \in 0..sent : LastBefore(id, m) /\ nuOf[id] = NumberOf(m)
      BY <1>1, <2>3, <2>4 DEF Hidden
    <2> QED BY <1>1, <2>1, <2>2, <2>5 DEF Hidden, LastBefore, Before, NumberOf
  <1>4. CASE Fresh(p.nu)
    <2>1. /\ played \in Seq(1..sent) /\ Len(played) \in Nat
          /\ Len(played') = Len(played) + 1
          /\ \A a \in 1..Len(played) : played'[a] = played[a]
          /\ played'[Len(played) + 1] = p.id /\ played' # << >>
      <3>1. played \in Seq(1..sent) /\ played' = Append(played, p.id)
        BY <1>0, <1>1, <1>4 DEF TypeOK
      <3> QED BY <1>2, <3>1, AppendProperties, LenProperties
    <2>2. LastPlayed' = p.id
      BY <2>1 DEF LastPlayed
    <2>3. \A a \in 1..Len(played) : played[a] \in 1..sent /\ played[a] <= LastPlayed
      BY <2>1, ElementOfSeq DEF Sorted
    <2>4. Sorted'
      <3> SUFFICES ASSUME NEW a \in 1..Len(played') PROVE played'[a] <= p.id
        BY <2>2 DEF Sorted
      <3>1. CASE a = Len(played) + 1
        BY <1>2, <2>1, <3>1
      <3>2. CASE a \in 1..Len(played)
        BY <1>0, <1>2, <2>1, <2>3, <3>2, LastPlayedType
      <3> QED BY <2>1, <3>1, <3>2
    <2>5. ToSet(played') = ToSet(played) \cup {p.id}
      <3>1. DOMAIN played = 1..Len(played) /\ DOMAIN played' = 1 .. Len(played) + 1
        BY <1>0, <2>1, LenProperties DEF TypeOK
      <3>2. \A a \in 1 .. Len(played) + 1 : a \in 1..Len(played) \/ a = Len(played) + 1
        BY <2>1
      <3>3. Len(played) + 1 \in 1 .. Len(played) + 1 /\ 1..Len(played) \subseteq 1 .. Len(played) + 1
        BY <2>1
      <3> QED BY <2>1, <3>1, <3>2, <3>3 DEF ToSet
    <2>6. Hidden'
      <3> SUFFICES ASSUME NEW id \in arrived, id # p.id, id \notin ToSet(played)
                   PROVE  \E m \in 0..sent : LastBefore(id, m)' /\ nuOf[id] = NumberOf(m)'
        BY <1>1, <2>5 DEF Hidden
      <3>1. PICK m \in 0..sent : LastBefore(id, m) /\ nuOf[id] = NumberOf(m)
        BY DEF Hidden
      <3>2. Before(id)' = Before(id)
        <4>1. id < p.id /\ id \in 1..sent
          BY <1>0, <1>2 DEF TypeOK
        <4> QED BY <1>2, <2>5, <4>1 DEF Before
      <3> QED BY <1>1, <3>1, <3>2 DEF LastBefore, NumberOf
    <2> QED BY <2>4, <2>6
  <1> QED BY <1>3, <1>4

(* Without a restart the numbers count the packets.                        *)
LEMMA CountedKept == TransportInv /\ Counted /\ [Next]_vars => Counted'
  <1> SUFFICES ASSUME TransportInv, Counted, [Next]_vars, restarts' = 0
               PROVE  /\ \A x \in 1..sent' : nuOf'[x] = (x - 1) % NuMod
                      /\ nuFrame' = (IF spc' = "idle" THEN sent' ELSE sent' - 1) % NuMod
    BY DEF Counted
  <1>0. /\ sent \in Nat /\ restarts \in Nat /\ NuMod \in Nat \ {0}
        /\ spc # "idle" => sent > 0
    BY BoundsAssumption, NuModAssumption DEF TransportInv, TypeOK, Sending
  <1> DEFINE Same == UNCHANGED <<sent, nuOf, nuFrame, restarts>>
                     /\ (spc' = "idle" <=> spc = "idle")
  <1>1. CASE Same
    BY <1>1 DEF Counted
  <1>2. CASE NewPacket
    <2>1. nuOf \in Seq(Numbers) /\ Len(nuOf) = sent /\ nuFrame \in Numbers
      BY <1>0 DEF TransportInv, TypeOK
    <2>2. /\ \A x \in 1..sent : nuOf'[x] = nuOf[x]
          /\ nuOf'[sent + 1] = nuFrame
      BY <1>2, <2>1, AppendProperties DEF NewPacket
    <2>3. /\ restarts = 0 /\ spc = "idle" /\ spc' = "send" /\ sent' = sent + 1
          /\ nuFrame' = nuFrame
      BY <1>2 DEF NewPacket
    <2>4. sent' - 1 = sent /\ sent + 1 - 1 = sent
      BY <1>0, <2>3
    <2>5. nuFrame = sent % NuMod /\ \A x \in 1..sent : nuOf[x] = (x - 1) % NuMod
      BY <2>3 DEF Counted
    <2>6. \A x \in 1..sent' : x \in 1..sent \/ x = sent + 1
      BY <1>0, <2>3
    <2>7. \A x \in 1..sent' : nuOf'[x] = (x - 1) % NuMod
      <3> SUFFICES ASSUME NEW x \in 1..sent' PROVE nuOf'[x] = (x - 1) % NuMod
        OBVIOUS
      <3>1. CASE x \in 1..sent
        BY <2>2, <2>5, <3>1, Zenon
      <3>2. CASE x = sent + 1
        <4>1. nuOf'[x] = sent % NuMod
          BY <2>2, <2>5, <3>2, Zenon
        <4>2. x - 1 = sent
          BY <1>0, <3>2
        <4> QED BY <4>1, <4>2, Zenon
      <3> QED BY <2>6, <3>1, <3>2
    <2> QED BY <2>3, <2>4, <2>5, <2>7
  <1>3. CASE CopyDone
    <2>1. UNCHANGED <<sent, nuOf, restarts>> /\ spc = "check"
      BY <1>3 DEF CopyDone
    <2>2. nuFrame = (sent - 1) % NuMod /\ \A x \in 1..sent : nuOf[x] = (x - 1) % NuMod
      BY <2>1 DEF Counted
    <2>3. CASE red = Redundancy
      <3>1. nuFrame' = (nuFrame + 1) % NuMod /\ spc' = "idle"
        BY <1>3, <2>3 DEF CopyDone
      <3>2. sent - 1 \in Nat /\ sent - 1 + 1 = sent
        BY <1>0, <2>1
      <3>3. (((sent - 1) % NuMod) + 1) % NuMod = (sent - 1 + 1) % NuMod
        BY <1>0, <3>2, ModStep, Zenon
      <3> QED BY <2>1, <2>2, <3>1, <3>2, <3>3
    <2>4. CASE red # Redundancy
      BY <1>3, <2>1, <2>2, <2>4 DEF CopyDone
    <2> QED BY <2>3, <2>4
  <1>4. CASE Restart
    <2>1. restarts' = restarts + 1
      BY <1>4 DEF Restart
    <2> QED BY <1>0, <2>1
  <1>5. CASE SendCopy \/ SendAgain
    BY <1>1, <1>5 DEF SendCopy, SendAgain
  <1>6. CASE Lose \/ Double \/ Receive \/ UNCHANGED vars
    BY <1>1, <1>6 DEF Lose, Double, Receive, emitter, vars
  <1> QED BY <1>2, <1>3, <1>4, <1>5, <1>6 DEF Next

LEMMA HidingInit == Init => HidingInv
  <1> SUFFICES ASSUME Init PROVE HidingInv
    OBVIOUS
  <1>1. Len(<< >>) = 0 /\ 0 % NuMod = 0
    BY EmptySeq, NuModAssumption
  <1> QED BY <1>1 DEF Init, HidingInv, Sorted, Hidden, Counted

LEMMA HidingStep == TransportInv /\ HidingInv /\ [Next]_vars => HidingInv'
  <1> SUFFICES ASSUME TransportInv, HidingInv, [Next]_vars PROVE HidingInv'
    OBVIOUS
  <1>1. Sorted /\ Hidden /\ Counted
    BY DEF HidingInv
  <1>2. Counted'
    BY <1>1, CountedKept
  <1>3. CASE NewPacket
    BY <1>1, <1>2, <1>3, NewPacketHides DEF HidingInv
  <1>4. CASE Receive
    BY <1>1, <1>2, <1>4, ReceiveHides DEF HidingInv
  <1>5. CASE SendCopy \/ SendAgain \/ CopyDone \/ Restart \/ Lose \/ Double
             \/ UNCHANGED vars
    <2>1. UNCHANGED <<sent, nuOf, arrived, played>>
      BY <1>5 DEF SendCopy, SendAgain, CopyDone, Restart, Lose, Double, emitter, vars
    <2> QED BY <1>1, <1>2, <2>1, QuietKeeps DEF HidingInv
  <1> QED BY <1>3, <1>4, <1>5 DEF Next

LEMMA HidingHolds == Spec => [](TransportInv /\ HidingInv)
  <1>1. Init => TransportInv /\ HidingInv
    BY InitHolds, HidingInit
  <1>2. TransportInv /\ HidingInv /\ [Next]_vars => (TransportInv /\ HidingInv)'
    BY StepHolds, HidingStep
  <1> QED BY <1>1, <1>2, PTL DEF Spec

(* The packet before id is the greatest one before it.                     *)
LEMMA NumberBeforeIs ==
    ASSUME TypeOK, NEW id \in Nat, NEW m \in 0..sent, LastBefore(id, m)
    PROVE  NumberBefore(id) = NumberOf(m)
  <1>1. Before(id) \in SUBSET Nat
    BY ToSetType, BoundsAssumption DEF Before, TypeOK
  <1>2. CASE m = 0
    BY <1>2 DEF LastBefore, NumberBefore, NumberOf
  <1>3. CASE m # 0
    <2>1. Max(Before(id)) = m /\ Before(id) # {}
      BY <1>1, <1>3, MaxIs DEF LastBefore
    <2> QED BY <1>3, <2>1 DEF NumberBefore, NumberOf
  <1> QED BY <1>2, <1>3

-----------------------------------------------------------------------------
(* One copy that reaches the receptor is enough to hear its packet, unless *)
(* the packet has the number of the one heard before it                    *)
(* (vban_functions.h:970).                                                 *)
THEOREM CopyIsHeard == Spec => []OneCopyIsEnough
  <1>1. TransportInv /\ HidingInv => OneCopyIsEnough
    <2> SUFFICES ASSUME TransportInv, HidingInv, NEW id \in arrived
                 PROVE  id \in ToSet(played) \/ nuOf[id] = NumberBefore(id)
      BY DEF OneCopyIsEnough
    <2>1. TypeOK /\ id \in Nat
      BY BoundsAssumption DEF TransportInv, TypeOK
    <2> QED BY <2>1, NumberBeforeIs DEF HidingInv, Hidden
  <1> QED BY <1>1, HidingHolds, PTL

(* Without a restart only the first packet, or one that comes after        *)
(* NuMod - 1 others that were lost, can go unheard though a copy arrives:  *)
(* with the 32 bits of nuFrame, more than four thousand million packets.   *)
THEOREM LossMustBeLong == Spec => []OnlyLongLossHides
  <1>1. TransportInv /\ HidingInv => OnlyLongLossHides
    <2> SUFFICES ASSUME TransportInv, HidingInv, restarts = 0,
                        NEW id \in arrived, id \notin ToSet(played), id # 1,
                        NEW x \in 1 .. id - 1, id - x < NuMod, x \in ToSet(played)
                 PROVE  FALSE
      BY DEF OnlyLongLossHides
    <2>1. /\ TypeOK /\ sent \in Nat /\ id \in 1..sent /\ NuMod \in Nat \ {0}
      BY BoundsAssumption, NuModAssumption DEF TransportInv, TypeOK
    <2>2. PICK m \in 0..sent : LastBefore(id, m) /\ nuOf[id] = NumberOf(m)
      BY DEF HidingInv, Hidden
    <2>3. x \in Before(id)
      BY <2>1 DEF Before
    <2>4. m \in 1..sent /\ x <= m /\ m < id /\ nuOf[id] = nuOf[m]
      BY <2>1, <2>2, <2>3 DEF LastBefore, NumberOf, Before
    <2>5. nuOf[id] = (id - 1) % NuMod /\ nuOf[m] = (m - 1) % NuMod
      BY <2>1, <2>4 DEF HidingInv, Counted
    <2>6. (id - 1) - (m - 1) >= NuMod
      <3>0. (m - 1) % NuMod = (id - 1) % NuMod
        BY <2>4, <2>5, Zenon
      <3>1. id - 1 \in Nat /\ m - 1 \in Nat /\ m - 1 < id - 1
        BY <2>1, <2>4
      <3> DEFINE a == m - 1
                 b == id - 1
      <3>2. a \in Nat /\ b \in Nat /\ a < b /\ a % NuMod = b % NuMod
        BY <3>0, <3>1
      <3> HIDE DEF a, b
      <3>3. b - a >= NuMod
        BY <2>1, <3>2, ModEqual
      <3> QED BY <3>3 DEF a, b
    <2> QED BY <2>1, <2>4, <2>6
  <1> QED BY <1>1, HidingHolds, PTL

-----------------------------------------------------------------------------
(* The search.                                                             *)

(* Once a receptor has been found the socket is aimed at a host that has   *)
(* answered, and the search ends only then.                                *)
Aimed ==
    Searches =>
      /\ iptx # Nobody => c_addr \in Hosts
      /\ scan = "done" => iptx # Nobody

(* With one network nothing is read after the match.                       *)
Settled ==
    Searches /\ networks = 1 /\ iptx # Nobody =>
      /\ c_addr = iptx
      /\ \E r \in Receptors : r.ip = iptx /\ Match(r)
      /\ scan # "sleep" /\ scan # "poll" /\ (scan = "ask" => ~InIps)

ScanTypes ==
    /\ answers \in Seq(Receptors)
    /\ networks \in Nat
    /\ scan \in {"sleep", "ask", "poll", "done"}
    /\ scan \in {"ask", "poll"} => i \in Nat \ {0}
    /\ scan = "poll" => i <= networks

DiscoveryInv == ScanTypes /\ Aimed /\ Settled

-----------------------------------------------------------------------------
LEMMA NobodyIsNoHost == Nobody \notin Hosts
  <1>1. \A r \in Receptors : r.ip[1] # 0
    BY ReceptorsAssumption
  <1>2. Nobody[1] = 0
    BY DEF Nobody
  <1> QED BY <1>1, <1>2 DEF Hosts

LEMMA DiscoveryInitHolds == DiscoveryInit => DiscoveryInv
  <1> SUFFICES ASSUME DiscoveryInit PROVE DiscoveryInv
    OBVIOUS
  <1>1. ScanTypes
    BY NetCountsAssumption, EmptySeq DEF DiscoveryInit, ScanTypes
  <1>2. Searches => scan = "sleep" /\ iptx = Nobody
    BY DEF DiscoveryInit, Searches
  <1> QED BY <1>1, <1>2 DEF DiscoveryInv, Aimed, Settled

LEMMA DiscoveryStepHolds ==
    DiscoveryInv /\ [DiscoveryNext]_discoveryVars => DiscoveryInv'
  <1> SUFFICES ASSUME DiscoveryInv, [DiscoveryNext]_discoveryVars
               PROVE  DiscoveryInv'
    OBVIOUS
  <1>1. ScanTypes /\ Aimed /\ Settled /\ UNCHANGED <<cmd, networks>>
    BY DEF DiscoveryInv, DiscoveryNext, discoveryVars
  <1>2. /\ Searches' = Searches
        /\ \A r \in Receptors : Match(r)' = Match(r)
    BY <1>1 DEF Searches, Match
  <1>3. CASE UNCHANGED search
    BY <1>1, <1>2, <1>3 DEF search, DiscoveryInv, ScanTypes, Aimed, Settled, InIps
  <1>4. CASE WakeUp
    <2>1. ScanTypes'
      BY <1>1, <1>4 DEF WakeUp, ScanTypes
    <2>2. Aimed' /\ Settled'
      BY <1>1, <1>2, <1>4 DEF WakeUp, Aimed, Settled
    <2> QED BY <2>1, <2>2 DEF DiscoveryInv
  <1>5. CASE Ask
    <2>1. ScanTypes'
      BY <1>1, <1>5 DEF Ask, ScanTypes, InIps
    <2>2. Aimed' /\ Settled'
      BY <1>1, <1>2, <1>5 DEF Ask, AfterSend, Aimed, Settled
    <2> QED BY <2>1, <2>2 DEF DiscoveryInv
  <1>6. CASE Read
    <2> DEFINE r == Head(answers)
    <2>1. /\ r \in Receptors /\ answers' \in Seq(Receptors)
          /\ scan = "poll" /\ c_addr' = r.ip /\ c_addr' \in Hosts
      BY <1>1, <1>6, HeadTailProperties DEF Read, ScanTypes, Hosts
    <2>2. CASE Match(r)
      <3>1. iptx' = c_addr' /\ i' = i + 1 /\ scan' = "ask"
        BY <1>6, <2>2 DEF Read
      <3>2. ScanTypes'
        BY <1>1, <2>1, <3>1 DEF ScanTypes
      <3>3. Aimed'
        BY <1>2, <2>1, <3>1 DEF Aimed
      <3>4. networks = 1 => ~InIps'
        BY <1>1, <2>1, <3>1 DEF ScanTypes, InIps
      <3>5. Settled'
        BY <1>1, <1>2, <2>1, <2>2, <3>1, <3>4 DEF Settled
      <3> QED BY <3>2, <3>3, <3>5 DEF DiscoveryInv
    <2>3. CASE ~Match(r)
      <3>1. UNCHANGED <<iptx, i, scan>>
        BY <1>6, <2>3 DEF Read
      <3>2. ScanTypes'
        BY <1>1, <2>1, <3>1 DEF ScanTypes
      <3>3. Aimed' /\ Settled'
        BY <1>1, <1>2, <2>1, <3>1 DEF Aimed, Settled
      <3> QED BY <3>2, <3>3 DEF DiscoveryInv
    <2> QED BY <2>2, <2>3
  <1>7. CASE PollTimeout
    <2>1. ScanTypes'
      BY <1>1, <1>7 DEF PollTimeout, ScanTypes
    <2>2. Aimed' /\ Settled'
      BY <1>1, <1>2, <1>7 DEF PollTimeout, Aimed, Settled
    <2> QED BY <2>1, <2>2 DEF DiscoveryInv
  <1>8. CASE EndOfPass
    <2>1. ScanTypes'
      BY <1>1, <1>8, EmptySeq DEF EndOfPass, ScanTypes
    <2>2. Aimed' /\ Settled'
      BY <1>1, <1>2, <1>8 DEF EndOfPass, Aimed, Settled
    <2> QED BY <2>1, <2>2 DEF DiscoveryInv
  <1>9. CASE \E r \in Receptors : Reply(r)
    <2>1. PICK r \in Receptors : Reply(r)
      BY <1>9
    <2>2. answers' \in Seq(Receptors) /\ UNCHANGED <<scan, i, iptx, c_addr>>
      BY <1>1, <2>1, AppendProperties DEF Reply, ScanTypes
    <2> QED BY <1>1, <1>2, <2>2 DEF DiscoveryInv, ScanTypes, Aimed, Settled, InIps
  <1>10. CASE StartAgain
    <2>1. ScanTypes'
      BY <1>1, <1>10, EmptySeq DEF StartAgain, ScanTypes
    <2>2. Searches => scan' = "sleep" /\ iptx' = Nobody
      BY <1>10 DEF StartAgain, Searches
    <2>3. Aimed' /\ Settled'
      BY <1>2, <2>2 DEF Aimed, Settled
    <2> QED BY <2>1, <2>3 DEF DiscoveryInv
  <1> QED
    BY <1>3, <1>4, <1>5, <1>6, <1>7, <1>8, <1>9, <1>10
       DEF DiscoveryNext, Scan, Audio, OnTheWay, discoveryVars, search

LEMMA DiscoveryHolds == DiscoverySpec => []DiscoveryInv
  BY DiscoveryInitHolds, DiscoveryStepHolds, PTL DEF DiscoverySpec

LEMMA DiscoveryTypesStep ==
    ScanTypes /\ DiscoveryTypeOK /\ [DiscoveryNext]_discoveryVars => DiscoveryTypeOK'
  <1> SUFFICES ASSUME ScanTypes, DiscoveryTypeOK, [DiscoveryNext]_discoveryVars
               PROVE  DiscoveryTypeOK'
    OBVIOUS
  <1>1. networks \in Nat /\ MaxQueue \in Nat /\ UNCHANGED <<cmd, networks>>
    BY NetCountsAssumption DEF ScanTypes, DiscoveryNext, discoveryVars
  <1> USE DEF DiscoveryTypeOK
  <1>2. CASE UNCHANGED search
    BY <1>1, <1>2 DEF search
  <1>3. CASE WakeUp
    BY <1>1, <1>3 DEF WakeUp
  <1>4. CASE Ask
    <2>1. requests' \subseteq Receptors
      BY <1>4 DEF Ask
    <2> QED BY <1>1, <1>4, <2>1 DEF Ask, AfterSend
  <1>5. CASE Read
    <2>1. /\ Head(answers) \in Receptors /\ answers' \in Seq(Receptors)
          /\ Len(answers') <= MaxQueue
      BY <1>1, <1>5, HeadTailProperties DEF Read
    <2>2. c_addr' \in Addresses
      BY <1>5, <2>1 DEF Read, Hosts, Addresses
    <2>3. i' \in 0 .. networks + 1 /\ scan' \in {"sleep", "ask", "poll", "done"}
      BY <1>1, <1>5 DEF Read, ScanTypes
    <2>4. iptx' \in Addresses
      BY <1>5, <2>2 DEF Read
    <2> QED BY <1>1, <1>5, <2>1, <2>2, <2>3, <2>4 DEF Read
  <1>6. CASE PollTimeout
    BY <1>1, <1>6 DEF PollTimeout, ScanTypes
  <1>7. CASE EndOfPass
    <2>1. requests' \subseteq Receptors
      BY <1>7 DEF EndOfPass
    <2>2. << >> \in Seq(Receptors) /\ Len(<< >>) <= MaxQueue
      BY <1>1, EmptySeq
    <2>3. answers' = << >> \/ answers' = answers
      BY <1>7 DEF EndOfPass
    <2>4. answers' \in Seq(Receptors) /\ Len(answers') <= MaxQueue
      BY <2>2, <2>3
    <2> QED BY <1>1, <1>7, <2>1, <2>4 DEF EndOfPass
  <1>8. CASE \E r \in Receptors : Reply(r)
    <2>1. PICK r \in Receptors : Reply(r)
      BY <1>8
    <2>2. answers' \in Seq(Receptors) /\ Len(answers') <= MaxQueue
      BY <1>1, <2>1, AppendProperties DEF Reply
    <2> QED BY <1>1, <2>1, <2>2 DEF Reply
  <1>9. CASE StartAgain
    <2>1. cmd.ip \in Addresses /\ InitialAddress(cmd.ip) \in Addresses \cup {Everybody}
      BY DEF Addresses, InitialAddress
    <2> QED BY <1>1, <1>9, <2>1, EmptySeq DEF StartAgain
  <1> QED
    BY <1>2, <1>3, <1>4, <1>5, <1>6, <1>7, <1>8, <1>9
       DEF DiscoveryNext, Scan, Audio, OnTheWay, discoveryVars, search

-----------------------------------------------------------------------------
(* However the search ends, the audio is not sent to a whole network       *)
(* (udp.h:46-55 restores the address after every broadcast), and on a host *)
(* with one network it goes to the receptor that has been found            *)
(* (vban_functions.cpp:58-86).                                             *)
THEOREM SearchAimsAtFound == DiscoverySpec => []AudioGoesToFound
  <1>1. DiscoveryInv => AudioGoesToFound
    BY DEF DiscoveryInv, Aimed, Settled, AudioGoesToFound
  <1> QED BY <1>1, DiscoveryHolds, PTL

(* Every variable of the search keeps its type: the address of the socket  *)
(* is the one of the command line, of a host that has answered, or the one *)
(* udp_init gives (udp.h:46-61), and the answers read stay in bounds.      *)
THEOREM DiscoveryTypeCorrect == DiscoverySpec => []DiscoveryTypeOK
  <1>1. DiscoveryInit => DiscoveryTypeOK
    BY NetCountsAssumption, EmptySeq
       DEF DiscoveryInit, DiscoveryTypeOK, Addresses, InitialAddress
  <1>2. DiscoveryInv => ScanTypes
    BY DEF DiscoveryInv
  <1> QED BY <1>1, <1>2, DiscoveryHolds, DiscoveryTypesStep, PTL DEF DiscoverySpec

(* An emitter that searches, and searches again after every restart, and a *)
(* receptor that the search may or may not have found behave towards each  *)
(* other as Transport says, so all that holds of Transport holds of them.  *)
THEOREM DiscoveryImplementsTransport == DiscoverySpec => Spec
  <1>1. DiscoveryInit => Init
    BY DEF DiscoveryInit
  <1>2. [DiscoveryNext]_discoveryVars => [Next]_vars
    BY DEF DiscoveryNext, discoveryVars, Audio, OnTheWay, StartAgain, Next
  <1> QED BY <1>1, <1>2, PTL DEF DiscoverySpec, Spec

=============================================================================
