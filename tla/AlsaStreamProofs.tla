--------------------------- MODULE AlsaStreamProofs ---------------------------
(***************************************************************************)
(* Proofs about AlsaStream and AlsaUtility, for any number of hosts, any   *)
(* limit of silent periods, any set of addresses and any networks.         *)
(***************************************************************************)
EXTENDS AlsaUtility, FiniteSetTheorems, TLAPS

(* The counter never claims more silence than there has been, main         *)
(* increments it only below its limit, and has found it at the limit when  *)
(* it closes a stream: what has gone on since is a packet just processed.  *)
Counting ==
    /\ fed => rxResetTimer <= quiet
    /\ mpc = "bump" => rxResetTimer < rxResetTimerMax
    /\ mpc = "clear" /\ fed => quiet >= rxResetTimerMax \/ overtaken

(* The only live resampler is the one the pointer tells; the network       *)
(* thread allocates only if there is none, and main, between delete and    *)
(* the assignment of nullptr, never lets it.                               *)
Owner ==
    /\ alive \subseteq {resampler} \ {0}
    /\ npc = "new" => alive = {}
    /\ mpc \in {"delete", "null"} => resampler # 0
    /\ mpc = "null" /\ ~fault => alive = {} /\ npc # "new"

AlsaInv == TypeOK /\ Counting /\ Owner

-----------------------------------------------------------------------------
(* The invariant holds before the first packet.                            *)
LEMMA InitHolds == Init => AlsaInv
  <1> SUFFICES ASSUME Init PROVE AlsaInv
    OBVIOUS
  <1>1. 0 \in Periods /\ 0 \in Numbers
    BY MaxAssumption DEF Periods, Numbers
  <1>2. TypeOK
    BY <1>1, Zenon DEF Init, TypeOK
  <1>3. Counting
    BY DEF Init, Counting
  <1>4. Owner
    BY DEF Init, Owner
  <1> QED BY <1>2, <1>3, <1>4 DEF AlsaInv

(* Types: only Bump adds to the counter, and it stays below the limit.     *)
LEMMA TypesKept == AlsaInv /\ [Next]_vars => TypeOK'
  <1> SUFFICES ASSUME AlsaInv, [Next]_vars PROVE TypeOK'
    OBVIOUS
  <1> USE HostsAssumption, MaxAssumption, ObjectsAssumption
      DEF AlsaInv, TypeOK, Periods, Numbers
  <1>1. CASE \E ip \in Hosts, nu \in Numbers : Receive(ip, nu)
    BY <1>1 DEF Receive, shared, heap, history
  <1>2. CASE Net
    <2> USE DEF shared, heap, packet, history, Touch, Delete
    <2>1. CASE Match \/ Open
      BY <2>1 DEF Match, Open
    <2>2. CASE Use
      BY <2>2 DEF Use
    <2>6. CASE Process
      BY <2>6 DEF Process, Heard
    <2>3. CASE OpenTest \/ OpenDelete
      BY <2>3 DEF OpenTest, OpenDelete
    <2>4. CASE OpenNew
      BY <2>4 DEF OpenNew
    <2>5. CASE OpenSetup
      BY <2>5 DEF OpenSetup
    <2>7. CASE OpenLock
      <3>1. rxip' \in Hosts \cup {0}
        BY <2>7 DEF OpenLock
      <3>2. quiet' \in Periods
        BY <2>7 DEF OpenLock
      <3>3. fed' \in BOOLEAN
        BY <2>7, Zenon DEF OpenLock
      <3> QED BY <2>7, <3>1, <3>2, <3>3, Zenon DEF OpenLock
    <2>8. CASE OpenAnnounce
      BY <2>8 DEF OpenAnnounce
    <2> QED
      BY <1>2, <2>1, <2>2, <2>3, <2>4, <2>5, <2>6, <2>7, <2>8 DEF Net
  <1>3. CASE Main
    <2> USE DEF shared, heap, net, history, Touch, Delete
    <2>1. CASE Period \/ Active \/ Count
      BY <2>1 DEF Period, Active, Count
    <2>2. CASE Bump
      BY <2>2 DEF Bump, Capped, Counting
    <2>3. CASE Limit
      BY <2>3 DEF Limit
    <2>4. CASE Clear \/ Pointer
      BY <2>4 DEF Clear, Pointer
    <2>7. CASE Zero
      <3>1. rxResetTimer' \in Periods
        BY <2>7 DEF Zero
      <3> QED BY <2>7, <3>1, Zenon DEF Zero
    <2>5. CASE CloseDelete \/ CloseNull
      BY <2>5 DEF CloseDelete, CloseNull
    <2>6. CASE Ratio \/ Correct
      BY <2>6 DEF Ratio, Correct
    <2> QED BY <1>3, <2>1, <2>2, <2>3, <2>4, <2>5, <2>6, <2>7 DEF Main
  <1>4. CASE UNCHANGED vars
    BY <1>4 DEF vars
  <1> QED BY <1>1, <1>2, <1>3, <1>4 DEF Next

(* The network thread resets the counter and the history together, and     *)
(* main counts both, whatever lies between its test and its increment.     *)
LEMMA CountingKept == AlsaInv /\ [Next]_vars => Counting'
  <1> SUFFICES ASSUME AlsaInv, [Next]_vars PROVE Counting'
    OBVIOUS
  <1> USE MaxAssumption DEF AlsaInv, TypeOK, Periods, Counting
  <1>1. CASE \E ip \in Hosts, nu \in Numbers : Receive(ip, nu)
    BY <1>1 DEF Receive, shared, history
  <1>2. CASE Net
    <2> USE DEF shared, heap, history
    <2>1. CASE Match \/ Open \/ Use
      BY <2>1 DEF Match, Open, Use
    <2>2. CASE Process
      <3>1. rxResetTimer' = 0 /\ quiet' = 0 /\ mpc' = mpc
        BY <2>2 DEF Process, Heard
      <3>2. mpc = "clear" => overtaken'
        BY <2>2, Zenon DEF Process, Heard
      <3> QED BY <3>1, <3>2
    <2>3. CASE OpenTest \/ OpenDelete \/ OpenNew \/ OpenSetup
      BY <2>3 DEF OpenTest, OpenDelete, OpenNew, OpenSetup
    <2>4. CASE OpenLock \/ OpenAnnounce
      BY <2>4 DEF OpenLock, OpenAnnounce
    <2> QED BY <1>2, <2>1, <2>2, <2>3, <2>4 DEF Net
  <1>3. CASE Main
    <2> USE DEF shared, heap, history
    <2>1. CASE Period \/ Active \/ Count
      BY <2>1 DEF Period, Active, Count
    <2>2. CASE Bump
      BY <2>2 DEF Bump, Capped
    <2>3. CASE Limit
      BY <2>3 DEF Limit, AtLimit
    <2>4. CASE Clear \/ Zero \/ Pointer
      BY <2>4 DEF Clear, Zero, Pointer
    <2>5. CASE CloseDelete \/ CloseNull \/ Ratio \/ Correct
      BY <2>5 DEF CloseDelete, CloseNull, Ratio, Correct
    <2> QED BY <1>3, <2>1, <2>2, <2>3, <2>4, <2>5 DEF Main
  <1>4. CASE UNCHANGED vars
    BY <1>4 DEF vars
  <1> QED BY <1>1, <1>2, <1>3, <1>4 DEF Next

(* A delete of one thread never frees the way for a second allocation of   *)
(* the other one: what would, is a fault already.                          *)
LEMMA OwnerKept == AlsaInv /\ [Next]_vars => Owner'
  <1> SUFFICES ASSUME AlsaInv, [Next]_vars PROVE Owner'
    OBVIOUS
  <1> USE ObjectsAssumption DEF AlsaInv, TypeOK, Owner
  <1>1. CASE ~fault /\ \E ip \in Hosts, nu \in Numbers : Receive(ip, nu)
    BY <1>1 DEF Receive, heap
  <1>2. CASE ~fault /\ Net
    <2> USE DEF heap, Touch, Delete
    <2>1. CASE Match \/ Open \/ Use \/ Process
      BY <1>2, <2>1 DEF Match, Open, Use, Process, Heard
    <2>2. CASE OpenTest
      BY <1>2, <2>2 DEF OpenTest
    <2>3. CASE OpenDelete
      BY <1>2, <2>3 DEF OpenDelete
    <2>4. CASE OpenNew
      BY <1>2, <2>4 DEF OpenNew
    <2>5. CASE OpenSetup \/ OpenLock \/ OpenAnnounce
      BY <1>2, <2>5 DEF OpenSetup, OpenLock, OpenAnnounce
    <2> QED BY <1>2, <2>1, <2>2, <2>3, <2>4, <2>5 DEF Net
  <1>3. CASE ~fault /\ Main
    <2> USE DEF heap, net, Touch, Delete
    <2>1. CASE Period \/ Active \/ Count \/ Bump \/ Limit \/ Clear \/ Zero
      BY <1>3, <2>1 DEF Period, Active, Count, Bump, Limit, AtLimit, Clear, Zero
    <2>2. CASE Pointer
      BY <1>3, <2>2 DEF Pointer
    <2>3. CASE CloseDelete
      BY <1>3, <2>3 DEF CloseDelete
    <2>4. CASE CloseNull
      BY <1>3, <2>4 DEF CloseNull
    <2>5. CASE Ratio \/ Correct
      BY <1>3, <2>5 DEF Ratio, Correct
    <2> QED BY <1>3, <2>1, <2>2, <2>3, <2>4, <2>5 DEF Main
  <1>4. CASE UNCHANGED vars
    BY <1>4 DEF vars
  <1> QED BY <1>1, <1>2, <1>3, <1>4 DEF Next

(* The three lemmas together.                                              *)
LEMMA AlsaInvariant == Spec => []AlsaInv
  <1>1. Init => AlsaInv
    BY InitHolds
  <1>2. AlsaInv /\ [Next]_vars => AlsaInv'
    BY TypesKept, CountingKept, OwnerKept DEF AlsaInv
  <1> QED BY <1>1, <1>2, PTL DEF Spec

-----------------------------------------------------------------------------
(* Every variable of the two threads keeps its type; in particular the     *)
(* counter of silent periods never exceeds one more than its limit         *)
(* (main.cpp:685-697).                                                     *)
THEOREM AlsaTypeCorrect == Spec => []TypeOK
  <1>1. AlsaInv => TypeOK
    BY DEF AlsaInv
  <1> QED BY <1>1, AlsaInvariant, PTL

LEMMA OneIsAlive == AlsaInv => OneResampler
  <1> SUFFICES ASSUME AlsaInv PROVE Cardinality(alive) <= 1
    BY DEF OneResampler
  <1>1. alive = {} \/ alive = {resampler}
    BY DEF AlsaInv, Owner
  <1>2. Cardinality({}) = 0 /\ Cardinality({resampler}) = 1
    BY FS_EmptySet, FS_Singleton
  <1> QED BY <1>1, <1>2

(* A stream that delivers packets is closed after the full count of silent *)
(* periods, or by a main that has looked at the counter for the last time  *)
(* when the network thread resets it; anywhere else between main's tests,  *)
(* its increment and the close the reset keeps the stream                  *)
(* (main.cpp:528, 687-696).                                                *)
THEOREM StreamIsClosedForSilence == Spec => ClosedForSilence
  <1>1. AlsaInv => [Clear /\ fed => quiet >= rxResetTimerMax \/ overtaken]_vars
    BY DEF AlsaInv, Counting, Clear
  <1> QED BY <1>1, AlsaInvariant, PTL DEF ClosedForSilence

(* At no time are two resamplers alive: neither thread loses one by        *)
(* overwriting or clearing the pointer (main.cpp:534-535, 699-703).        *)
THEOREM AtMostOneResampler == Spec => []OneResampler
  BY OneIsAlive, AlsaInvariant, PTL

-----------------------------------------------------------------------------
(* The whole utility.  A receptor found is the one the socket is aimed at, *)
(* except while the network thread is at work, or while a search goes on   *)
(* in which it was found.                                                  *)
Aimed ==
    /\ Searching /\ txip # 0 => searched
    /\ stage = "send" => txip # 0
    /\ text = "none" /\ ~searched /\ txip # 0 => target = txip
    /\ NobodyElseIsHeard

SenderInv == SenderTypeOK /\ Aimed

LEMMA SenderInitHolds == UtilityInit => SenderInv
  <1> SUFFICES ASSUME SenderInit PROVE SenderInv
    BY DEF UtilityInit
  <1>1. txip \in Hosts \cup {0} /\ target = txip /\ 0 \in 0..srchTimerMax
    BY TxOptionsAssumption, SearchAssumption DEF SenderInit
  <1>2. SenderTypeOK
    BY <1>1 DEF SenderInit, SenderTypeOK
  <1>3. Aimed
    BY DEF SenderInit, Aimed, NobodyElseIsHeard, Searching
  <1> QED BY <1>2, <1>3 DEF SenderInv

(* main: it looks at txip once, and aims only at the networks it asks.     *)
LEMMA MainLoopKeeps == SenderInv /\ MainLoop => SenderInv'
  <1> SUFFICES ASSUME SenderInv, MainLoop PROVE SenderTypeOK' /\ Aimed'
    BY DEF SenderInv
  <1> USE SearchAssumption
      DEF SenderInv, SenderTypeOK, Aimed, NobodyElseIsHeard, Searching
  <1>1. CASE Look
    <2> USE <1>1 DEF Look, setup, wire
    <2>1. /\ stage' \in {"output", "send", "list"} /\ toAsk' \subseteq Networks
          /\ srchTimer' \in 0..srchTimerMax
      BY DEF SearchDue
    <2>2. stage' \in {"send"} => txip # 0
      BY DEF SearchDue
    <2>3. stage' = "list" => txip = 0
      BY DEF SearchDue
    <2> QED BY <2>1, <2>2, <2>3
  <1>2. CASE SendPeriod
    BY <1>2 DEF SendPeriod, setup, wire
  <1>3. CASE Aim
    <2>1. CASE toAsk = {}
      BY <1>3, <2>1 DEF Aim, setup
    <2>2. CASE toAsk # {}
      <3>1. PICK n \in toAsk : target' = n /\ toAsk' = toAsk \ {n} /\ stage' = "ask"
        BY <1>3, <2>2 DEF Aim
      <3> QED BY <1>3, <3>1 DEF Aim, setup
    <2> QED BY <2>1, <2>2
  <1>4. CASE Ask
    BY <1>4 DEF Ask, setup, wire
  <1>5. CASE Output
    BY <1>5 DEF Output, setup, wire
  <1>6. CASE List
    BY <1>6 DEF List, setup, wire
  <1> QED BY <1>1, <1>2, <1>3, <1>4, <1>5, <1>6 DEF MainLoop

(* The network thread: whoever it aims the socket at, it aims it back at   *)
(* the receptor before it takes the next datagram.                         *)
LEMMA NetThreadKeeps == SenderInv /\ NetThread => SenderInv'
  <1> SUFFICES ASSUME SenderInv, NetThread PROVE SenderTypeOK' /\ Aimed'
    BY DEF SenderInv
  <1> USE HostsAssumption
      DEF SenderInv, SenderTypeOK, Aimed, NobodyElseIsHeard, Searching
  <1>1. CASE ReceiveAudio \/ Audio
    BY <1>1 DEF ReceiveAudio, Audio, sender
  <1>2. CASE Restore \/ Found
    BY <1>2 DEF Restore, Found, setup, search
  <1>3. CASE \E h \in Hosts : Question(h)
    BY <1>3 DEF Question, setup, search
  <1>4. CASE \E h \in Hosts : Answer(h)
    <2>1. PICK h \in Hosts : Answer(h)
      BY <1>4
    <2>2. CASE Searched /\ named
      BY <2>1, <2>2 DEF Answer, Searched, setup, search
    <2>3. CASE ~(Searched /\ named)
      BY <2>1, <2>3 DEF Answer, setup, search
    <2> QED BY <2>2, <2>3
  <1> QED BY <1>1, <1>2, <1>3, <1>4 DEF NetThread

LEMMA SenderInvariant == UtilitySpec => []SenderInv
  <1>1. SenderInv /\ [UtilityNext]_uvars => SenderInv'
    <2>1. CASE UNCHANGED uvars
      BY <2>1 DEF uvars, sender, SenderInv, SenderTypeOK, Aimed,
                  NobodyElseIsHeard, Searching
    <2> QED BY <2>1, MainLoopKeeps, NetThreadKeeps DEF UtilityNext
  <1> QED BY <1>1, SenderInitHolds, PTL DEF UtilitySpec

(* The one socket of two threads: audio leaves for the receptor, or the    *)
(* network thread is answering, or the receptor was found during a search; *)
(* and no asker is left as its target (main.cpp:185-197, 572-574, 641-662).*)
THEOREM SocketIsAimed == UtilitySpec => []TargetInv
  <1>1. SenderInv => TargetInv
    BY DEF SenderInv, Aimed, TargetInv, AudioReachesReceptor
  <1> QED BY <1>1, SenderInvariant, PTL

(* With the capture, the search and the answers around them, the network   *)
(* thread and main still do to the incoming stream what AlsaStream says:   *)
(* every step is one of its steps, or does not touch it, or is the death   *)
(* of the program over the list of its addresses.                          *)
Misread == ~fault /\ fault' \in BOOLEAN /\ UNCHANGED stream

LEMMA UtilityStepIsStreamStep == [UtilityNext]_uvars => [Next]_vars \/ Misread
  <1> SUFFICES ASSUME [UtilityNext]_uvars PROVE [Next]_vars \/ Misread
    OBVIOUS
  <1>1. CASE UNCHANGED uvars
    BY <1>1 DEF uvars
  <1>2. CASE ~fault /\ MainLoop
    BY <1>2 DEF MainLoop, Look, List, SendPeriod, Aim, Ask, Output, Next
  <1>3. CASE ~fault /\ NetThread
    BY <1>3 DEF NetThread, ReceiveAudio, Audio, Restore, Found, Question, Answer, Next,
                Misread, stream, net
  <1> QED BY <1>1, <1>2, <1>3 DEF UtilityNext

LEMMA UtilityKeepsStream == UtilitySpec => []AlsaInv
  <1>1. UtilityInit => AlsaInv
    BY InitHolds DEF UtilityInit
  <1>2. ASSUME AlsaInv, Misread PROVE AlsaInv'
    BY <1>2 DEF Misread, stream, shared, heap, net, history,
                AlsaInv, TypeOK, Counting, Owner
  <1>3. AlsaInv /\ [UtilityNext]_uvars => AlsaInv'
    BY <1>2, TypesKept, CountingKept, OwnerKept, UtilityStepIsStreamStep DEF AlsaInv
  <1> QED BY <1>1, <1>3, PTL DEF UtilitySpec

(* In the whole utility too, a stream is closed for its silence only, but  *)
(* for the packet that comes too late, and there is at most one resampler  *)
(* (main.cpp:528, 534-535, 687-703).                                       *)
THEOREM UtilityKeepsStreamSafe == UtilitySpec => ClosedForSilence /\ []OneResampler
  <1>1. AlsaInv => OneResampler
    BY OneIsAlive
  <1>2. AlsaInv => [Clear /\ fed => quiet >= rxResetTimerMax \/ overtaken]_vars
    BY DEF AlsaInv, Counting, Clear
  <1> QED BY <1>1, <1>2, UtilityKeepsStream, PTL DEF ClosedForSilence

=============================================================================
