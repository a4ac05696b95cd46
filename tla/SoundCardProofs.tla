--------------------------- MODULE SoundCardProofs ---------------------------
(***************************************************************************)
(* Proofs about the sound card of the ALSA utility: about AlsaPcm, for any *)
(* number of periods in the buffers of the card and any number of failing  *)
(* calls, and about SamplePath, for every sample sent to it, of which TLC  *)
(* tries some around the powers of two.                                    *)
(***************************************************************************)
EXTENDS AlsaPcm, SamplePath, SequenceTheorems, TLAPS

(* The types, in three parts: what is opened, the card, what is waited for.*)
HandleTypes ==
    /\ play_handle \in BOOLEAN /\ capt_handle \in BOOLEAN /\ linked \in BOOLEAN
    /\ params \subseteq Streams \X {"hw", "sw"}
CardTypes ==
    /\ state \in {"FAIL", "OPEN"}
    /\ play \in StreamStates /\ capt \in StreamStates
    /\ queued \in 0..nfrag /\ avail \in 0..nfrag
    /\ faults \in 0..MaxFaults
Calls ==
    {"open", "ctrl", "params", "checkplay", "checkcapt", "count", "start", "wait",
     "poll", "update", "capture", "play", "exit"}
WaitTypes ==
    /\ pc \in Calls
    /\ need_play \in BOOLEAN /\ need_capt \in BOOLEAN
    /\ frames \in 0..nfrag /\ cut \in BOOLEAN

LEMMA TypesAreAll == TypeOK <=> HandleTypes /\ CardTypes /\ WaitTypes
  BY DEF TypeOK, HandleTypes, CardTypes, WaitTypes, Calls

LEMMA TypeInitHolds == Init => HandleTypes /\ CardTypes /\ WaitTypes
  <1> SUFFICES ASSUME Init PROVE HandleTypes /\ CardTypes /\ WaitTypes
    OBVIOUS
  <1>1. HandleTypes
    BY DEF Init, HandleTypes
  <1>2. CardTypes
    BY NfragAssumption, MaxFaultsAssumption DEF Init, CardTypes, StreamStates
  <1>3. WaitTypes
    <2>1. need_play \in BOOLEAN /\ need_capt \in BOOLEAN /\ cut \in BOOLEAN
      BY DEF Init
    <2> QED BY <2>1, NfragAssumption DEF Init, WaitTypes, Calls
  <1> QED BY <1>1, <1>2, <1>3

(* What a start of the streams leaves, whether or not it fails. *)
LEMMA RecoverTypes ==
    ASSUME CardTypes, Recover
    PROVE  CardTypes'
  <1> USE NfragAssumption, MaxFaultsAssumption DEF CardTypes, StreamStates, FillAll
  <1>1. CASE Started /\ NoFault /\ UNCHANGED state
    BY <1>1 DEF Started, NoFault
  <1>2. CASE NotStarted /\ Fault
    <2>1. /\ play' \in StreamStates /\ queued' \in 0..nfrag
          /\ capt' \in StreamStates
      BY <1>2 DEF NotStarted
    <2> QED BY <1>2, <2>1 DEF NotStarted, Fault
  <1>3. CASE NotStopped
    BY <1>3 DEF NotStopped, Fault, card
  <1> QED BY <1>1, <1>2, <1>3 DEF Recover, PcmStart

(* The card moves: queued and avail stay within the buffers. *)
LEMMA CardKeepsTypes ==
    ASSUME CardTypes, CardMoves \/ CardStops, UNCHANGED state
    PROVE  CardTypes'
  <1> USE NfragAssumption, MaxFaultsAssumption DEF CardTypes, StreamStates
  <1>1. ASSUME NEW g \in Groups, Tick(g), NoFault
        PROVE  CardTypes'
    BY <1>1 DEF Tick, NoFault
  <1>2. ASSUME NEW g \in Groups, Stop(g)
        PROVE  CardTypes'
    BY <1>2 DEF Stop, Fault
  <1> QED BY <1>1, <1>2 DEF CardMoves, CardStops

LEMMA TypeStepHolds ==
    HandleTypes /\ CardTypes /\ WaitTypes /\ [Next]_vars
      => HandleTypes' /\ CardTypes' /\ WaitTypes'
  <1> SUFFICES ASSUME HandleTypes, CardTypes, WaitTypes, [Next]_vars
               PROVE  HandleTypes' /\ CardTypes' /\ WaitTypes'
    OBVIOUS
  <1> USE DEF handles, card, waiting, Fault, NoFault, Return, ReturnEarly, GiveUp
  <1>1. CASE OpenStreams \/ OpenControl
    <2>1. HandleTypes'
      BY <1>1 DEF OpenStreams, OpenControl, HandleTypes
    <2>2. CardTypes'
      BY <1>1, MaxFaultsAssumption DEF OpenStreams, OpenControl, CardTypes
    <2>3. WaitTypes'
      BY <1>1 DEF OpenStreams, OpenControl, WaitTypes, Calls
    <2> QED BY <2>1, <2>2, <2>3
  <1>2. CASE \E s \in Streams : SetParams(s)
    <2>1. PICK s \in Streams : SetParams(s)
      BY <1>2
    <2>2. params' \subseteq Streams \X {"hw", "sw"}
      <3>1. <<s, "hw">> \in Streams \X {"hw", "sw"} /\ <<s, "sw">> \in Streams \X {"hw", "sw"}
        OBVIOUS
      <3> QED BY <2>1, <3>1 DEF SetParams, SetHwpar, SetSwpar, HandleTypes
    <2>3. HandleTypes'
      BY <2>1, <2>2 DEF SetParams, HandleTypes
    <2>4. CardTypes'
      BY <2>1, MaxFaultsAssumption DEF SetParams, CardTypes
    <2>5. WaitTypes'
      BY <2>1 DEF SetParams, WaitTypes, Calls
    <2> QED BY <2>3, <2>4, <2>5
  <1>3. CASE CheckPlay \/ CheckCapt \/ Ready
    <2>1. HandleTypes'
      BY <1>3 DEF CheckPlay, CheckCapt, Ready, HandleTypes
    <2>2. CardTypes'
      BY <1>3, MaxFaultsAssumption DEF CheckPlay, CheckCapt, Ready, CardTypes
    <2>3. WaitTypes'
      BY <1>3 DEF CheckPlay, CheckCapt, Ready, WaitTypes, Calls
    <2> QED BY <2>1, <2>2, <2>3
  <1>4. CASE Start
    <2>1. CardTypes'
      BY <1>4, RecoverTypes DEF Start, Recover
    <2> QED BY <1>4, <2>1 DEF Start, HandleTypes, WaitTypes, Calls
  <1>5. CASE WaitFailed \/ WaitBegin \/ PollInterrupted
    <2>1. need_play' \in BOOLEAN /\ need_capt' \in BOOLEAN /\ cut' \in BOOLEAN
      BY <1>5 DEF WaitFailed, WaitBegin, PollInterrupted, HandleTypes, WaitTypes
    <2>2. HandleTypes' /\ CardTypes'
      BY <1>5 DEF WaitFailed, WaitBegin, PollInterrupted, HandleTypes, CardTypes
    <2>3. pc' \in Calls /\ frames' \in 0..nfrag
      BY <1>5, NfragAssumption
         DEF WaitFailed, WaitBegin, PollInterrupted, WaitTypes, Calls
    <2> QED BY <2>1, <2>2, <2>3 DEF WaitTypes
  <1>6. CASE Poll
    <2>1. CardTypes'
      BY <1>6, RecoverTypes DEF Poll, CardTypes
    <2>2. HandleTypes'
      BY <1>6 DEF Poll, HandleTypes
    <2>3. need_play' \in BOOLEAN /\ need_capt' \in BOOLEAN /\ cut' \in BOOLEAN
      BY <1>6 DEF Poll, WaitTypes
    <2>4. pc' \in Calls /\ frames' \in 0..nfrag
      BY <1>6, NfragAssumption DEF Poll, WaitTypes, Calls
    <2> QED BY <2>1, <2>2, <2>3, <2>4 DEF WaitTypes
  <1>7. CASE Update
    <2>1. CardTypes'
      BY <1>7, RecoverTypes DEF Update, CardTypes
    <2>2. HandleTypes'
      BY <1>7 DEF Update, HandleTypes
    <2>3. need_play' \in BOOLEAN /\ need_capt' \in BOOLEAN /\ cut' \in BOOLEAN
      BY <1>7 DEF Update, WaitTypes
    <2>4. frames' \in 0..nfrag
      BY <1>7, NfragAssumption DEF Update, AtMost, CardTypes
    <2>5. pc' \in Calls
      BY <1>7 DEF Update, Calls
    <2> QED BY <2>1, <2>2, <2>3, <2>4, <2>5 DEF WaitTypes
  <1>8. CASE Capture \/ Play
    <2>1. CardTypes'
      BY <1>8, NfragAssumption
         DEF Capture, Play, CaptTakes, CaptReady, PlayTakes, CardTypes
    <2>2. HandleTypes'
      BY <1>8 DEF Capture, Play, HandleTypes
    <2>3. pc' \in Calls /\ frames' \in 0..nfrag
      BY <1>8, NfragAssumption DEF Capture, Play, WaitTypes, Calls
    <2>4. UNCHANGED <<need_play, need_capt, cut>>
      BY <1>8 DEF Capture, Play
    <2> QED BY <2>1, <2>2, <2>3, <2>4 DEF WaitTypes
  <1>9. CASE CardNext
    <2>1. CardTypes'
      BY <1>9, CardKeepsTypes DEF CardNext, Others
    <2> QED BY <1>9, <2>1 DEF CardNext, Others, HandleTypes, WaitTypes
  <1>10. CASE Terminated \/ UNCHANGED vars
    BY <1>10 DEF Terminated, vars, HandleTypes, CardTypes, WaitTypes
  <1> QED
    BY <1>1, <1>2, <1>3, <1>4, <1>5, <1>6, <1>7, <1>8, <1>9, <1>10 DEF Next, Program

(* Every variable keeps its type; a card never has more periods queued or  *)
(* captured than its buffer holds, though main writes and reads without    *)
(* looking at what pcm_wait returned (main.cpp:612-683).                   *)
THEOREM AlsaPcmTypeCorrect == Spec => []TypeOK
  BY TypesAreAll, TypeInitHolds, TypeStepHolds, PTL DEF Spec

LEMMA TypesHold == Spec => [](HandleTypes /\ CardTypes /\ WaitTypes)
  BY TypeInitHolds, TypeStepHolds, PTL DEF Spec

-----------------------------------------------------------------------------
(* The order in which initialise gets a device ready.                      *)
IsSetUp == Opened # {} /\ params = Opened \X {"hw", "sw"}
Before == {"open", "ctrl", "params", "checkplay", "checkcapt", "count"}
After == {"start", "wait", "poll", "update", "capture", "play"}

ReadyInOrder ==
    /\ pc \in {"ctrl", "params"} => Opened # {}
    /\ pc \in {"checkplay", "checkcapt", "count"} \cup After => IsSetUp
    /\ pc \in Before \cup {"exit"} => state = "FAIL"
    /\ pc \in Before => play = "setup"
    /\ pc \in {"open", "ctrl", "params", "checkplay"} => ~linked
    /\ linked => play_handle /\ capt_handle

LEMMA ReadyInitHolds == Init => ReadyInOrder
  BY DEF Init, ReadyInOrder, After

LEMMA ReadyStepHolds == ReadyInOrder /\ [Next]_vars => ReadyInOrder'
  <1> SUFFICES ASSUME ReadyInOrder, [Next]_vars PROVE ReadyInOrder'
    OBVIOUS
  <1> USE DEF ReadyInOrder, IsSetUp, Opened, Before, After, handles
  <1>1. CASE OpenStreams
    BY <1>1 DEF OpenStreams, card
  <1>2. CASE OpenControl
    BY <1>2 DEF OpenControl, GiveUp, card
  <1>3. CASE \E s \in Streams : SetParams(s)
    BY <1>3 DEF SetParams, GiveUp, card
  <1>4. CASE CheckPlay
    BY <1>4 DEF CheckPlay, GiveUp, card
  <1>5. CASE CheckCapt
    BY <1>5 DEF CheckCapt, GiveUp, card
  <1>6. CASE Ready
    BY <1>6 DEF Ready, GiveUp, card
  <1>7. CASE Start \/ WaitFailed \/ WaitBegin \/ Poll \/ PollInterrupted \/ Update
               \/ Capture \/ Play
    <2>1. UNCHANGED handles /\ pc \in After /\ pc' \in After
      BY <1>7 DEF Start, WaitFailed, WaitBegin, Poll, PollInterrupted, Update,
                  Capture, Play, Return, ReturnEarly
    <2> QED BY <2>1
  <1>8. CASE CardNext
    <2>1. UNCHANGED handles /\ pc \in After /\ UNCHANGED pc
      BY <1>8 DEF CardNext, Playing, Others
    <2> QED BY <2>1
  <1>9. CASE Terminated \/ UNCHANGED vars
    BY <1>9 DEF Terminated, vars
  <1> QED
    BY <1>1, <1>2, <1>3, <1>4, <1>5, <1>6, <1>7, <1>8, <1>9 DEF Next, Program

LEMMA ReadyHolds == Spec => []ReadyInOrder
  BY ReadyInitHolds, ReadyStepHolds, PTL DEF Spec

(* Whichever of its calls fails, initialise leaves no device that main     *)
(* takes for open and that is not set up (zita-alsa-pcmi.cc:379-619).      *)
THEOREM OpenIsReady == Spec => []OpenMeansReady
  <1>1. WaitTypes /\ ReadyInOrder => OpenMeansReady
    BY DEF WaitTypes, ReadyInOrder, IsSetUp, OpenMeansReady, Before, After, Calls
  <1> QED BY <1>1, TypesHold, ReadyHolds, PTL

-----------------------------------------------------------------------------
(* What the loop of pcm_wait has found of a stream stays true until main   *)
(* comes to it.                                                            *)
PlayWaited == PlayReady \/ PlayError
CaptWaited == CaptReady \/ CaptError

WaitedInOrder ==
    /\ pc = "poll" /\ play_handle /\ ~need_play => PlayWaited
    /\ pc = "poll" /\ capt_handle /\ ~need_capt => CaptWaited
    /\ pc \in {"update", "capture", "play"} /\ ~cut /\ play_handle => PlayWaited
    /\ pc \in {"update", "capture"} /\ ~cut /\ capt_handle => CaptWaited
    /\ pc \in {"poll", "update"} => ~cut
    /\ pc \in {"capture", "play"} /\ ~cut => frames > 0

LEMMA WaitedInitHolds == Init => WaitedInOrder
  BY DEF Init, WaitedInOrder

(* The card takes neither room nor a period back from a stream that runs.  *)
LEMMA CardKeepsWaited ==
    ASSUME CardTypes, CardMoves \/ CardStops
    PROVE  (PlayWaited => PlayWaited') /\ (CaptWaited => CaptWaited')
  <1> USE NfragAssumption
      DEF CardTypes, PlayWaited, CaptWaited, PlayReady, PlayError, CaptReady, CaptError
  <1>1. ASSUME NEW g \in Groups, Tick(g)
        PROVE  (PlayWaited => PlayWaited') /\ (CaptWaited => CaptWaited')
    BY <1>1 DEF Tick
  <1>2. ASSUME NEW g \in Groups, Stop(g)
        PROVE  (PlayWaited => PlayWaited') /\ (CaptWaited => CaptWaited')
    BY <1>2 DEF Stop
  <1> QED BY <1>1, <1>2 DEF CardMoves, CardStops

LEMMA WaitedStepHolds ==
    CardTypes /\ WaitTypes /\ WaitedInOrder /\ [Next]_vars => WaitedInOrder'
  <1> SUFFICES ASSUME CardTypes, WaitTypes, WaitedInOrder, [Next]_vars
               PROVE  WaitedInOrder'
    OBVIOUS
  <1> USE DEF WaitedInOrder, handles, card, waiting, Return, ReturnEarly
  <1>1. CASE OpenStreams \/ OpenControl \/ CheckPlay \/ CheckCapt \/ Ready \/ Start
    BY <1>1 DEF OpenStreams, OpenControl, CheckPlay, CheckCapt, Ready, Start, GiveUp
  <1>2. CASE \E s \in Streams : SetParams(s)
    BY <1>2 DEF SetParams, GiveUp
  <1>3. CASE WaitFailed \/ PollInterrupted
    BY <1>3 DEF WaitFailed, PollInterrupted
  <1>4. CASE WaitBegin
    BY <1>4 DEF WaitBegin
  <1>5. CASE Poll
    <2>1. CASE ReturnEarly
      BY <2>1
    <2>2. CASE /\ need_play' = (need_play /\ ~PlayReady)
               /\ need_capt' = (need_capt /\ ~CaptReady)
               /\ pc' = IF Any(need_play', need_capt') THEN "poll" ELSE "update"
               /\ UNCHANGED <<state, card, frames, faults, cut>>
      <3>1. (~need_play' => ~need_play \/ PlayReady)
              /\ (~need_capt' => ~need_capt \/ CaptReady)
        BY <2>2 DEF WaitTypes
      <3>2. UNCHANGED <<play_handle, capt_handle, cut>> /\ pc = "poll"
        BY <1>5, <2>2 DEF Poll
      <3>3. (PlayWaited <=> PlayWaited') /\ (CaptWaited <=> CaptWaited')
        BY <2>2 DEF PlayWaited, CaptWaited, PlayReady, PlayError, CaptReady, CaptError
      <3>4. (play_handle /\ ~need_play' => PlayWaited')
              /\ (capt_handle /\ ~need_capt' => CaptWaited')
        BY <3>1, <3>2, <3>3 DEF PlayWaited, CaptWaited
      <3>5. pc' = "poll" \/ (pc' = "update" /\ ~need_play' /\ ~need_capt')
        BY <2>2 DEF Any
      <3> QED BY <3>2, <3>4, <3>5
    <2> QED BY <1>5, <2>1, <2>2 DEF Poll
  <1>6. CASE Update
    <2>1. CASE ReturnEarly
      BY <2>1
    <2>2. CASE /\ ~(play_handle /\ PlayError) /\ ~(capt_handle /\ CaptError)
               /\ Return(AtMost(IF capt_handle THEN avail ELSE nfrag,
                                IF play_handle THEN nfrag - queued ELSE nfrag))
               /\ UNCHANGED <<state, card, faults, cut>>
      <3>1. UNCHANGED <<play_handle, capt_handle, card, cut>> /\ pc = "update"
              /\ pc' = "capture"
        BY <1>6, <2>2 DEF Update
      <3>2. (play_handle => queued < nfrag) /\ (capt_handle => avail > 0)
        BY <2>2, <3>1 DEF PlayWaited, CaptWaited, PlayReady, CaptReady
      <3>3. frames' > 0
        BY <2>2, <3>2, NfragAssumption DEF AtMost, CardTypes
      <3>4. (PlayWaited <=> PlayWaited') /\ (CaptWaited <=> CaptWaited')
        BY <3>1 DEF PlayWaited, CaptWaited, PlayReady, PlayError, CaptReady, CaptError
      <3> QED BY <3>1, <3>3, <3>4
    <2> QED BY <1>6, <2>1, <2>2 DEF Update
  <1>7. CASE Capture
    <2>1. PlayWaited <=> PlayWaited'
      BY <1>7 DEF Capture, PlayWaited, PlayReady, PlayError
    <2> QED BY <1>7, <2>1 DEF Capture
  <1>8. CASE Play
    BY <1>8 DEF Play
  <1>9. CASE CardNext
    <2>1. (PlayWaited => PlayWaited') /\ (CaptWaited => CaptWaited')
      BY <1>9, CardKeepsWaited DEF CardNext
    <2> QED BY <1>9, <2>1 DEF CardNext, Others
  <1>10. CASE Terminated \/ UNCHANGED vars
    BY <1>10 DEF Terminated, vars, PlayWaited, CaptWaited, PlayReady, PlayError,
                 CaptReady, CaptError
  <1> QED
    BY <1>1, <1>2, <1>3, <1>4, <1>5, <1>6, <1>7, <1>8, <1>9, <1>10 DEF Next, Program

(* A pcm_wait that was not cut short means a period for capture and one    *)
(* for playback when main comes to them (zita-alsa-pcmi.cc:173-243).       *)
THEOREM WaitedIsReady == Spec => []WaitedMeansReady
  <1>1. WaitedInOrder => WaitedMeansReady
    BY DEF WaitedInOrder, WaitedMeansReady, PlayWaited, CaptWaited
  <1>2. WaitedInOrder /\ (HandleTypes /\ CardTypes /\ WaitTypes) /\ [Next]_vars
          => WaitedInOrder'
    BY WaitedStepHolds
  <1> QED BY <1>1, <1>2, WaitedInitHolds, TypesHold, PTL DEF Spec

-----------------------------------------------------------------------------
(* The periods on their way through streams that are linked and run: main  *)
(* takes one from the card and gives one back, and the one it may take     *)
(* less, because there was none to capture, it does not give back unless   *)
(* there is room.                                                          *)
BothRun == linked /\ play = "running" /\ capt = "running"
DelayInv ==
    BothRun =>
      /\ pc # "play" => queued + avail \in {nfrag, nfrag + 1}
      /\ pc = "play" => queued + avail \in {nfrag - 1, nfrag}

LEMMA DelayInitHolds == Init => DelayInv
  BY DEF Init, DelayInv, BothRun

(* Streams that run after a start have a full buffer and no capture.       *)
LEMMA RecoverFills ==
    ASSUME CardTypes, ReadyInOrder, Recover, UNCHANGED handles,
           BothRun', ~(UNCHANGED card)
    PROVE  queued' + avail' = nfrag
  <1>1. linked /\ play_handle /\ capt_handle /\ play' = "running" /\ capt' = "running"
    BY DEF ReadyInOrder, BothRun, handles
  <1>2. ~NotStarted /\ ~NotStopped
    BY <1>1 DEF NotStarted, NotStopped
  <1>3. queued' = nfrag /\ avail' = 0
    BY <1>1, <1>2 DEF Recover, PcmStart, Started, FillAll
  <1> QED BY <1>3, NfragAssumption

LEMMA DelayStepHolds ==
    CardTypes /\ ReadyInOrder /\ DelayInv /\ [Next]_vars => DelayInv'
  <1> SUFFICES ASSUME CardTypes, ReadyInOrder, DelayInv, [Next]_vars, BothRun'
               PROVE  DelayInv'
    BY DEF DelayInv
  <1> USE DEF handles, card, Return, ReturnEarly
  <1>1. CASE OpenStreams \/ OpenControl \/ CheckPlay \/ CheckCapt \/ Ready
               \/ \E s \in Streams : SetParams(s)
    <2>1. play = "setup" /\ UNCHANGED play
      BY <1>1 DEF OpenStreams, OpenControl, CheckPlay, CheckCapt, Ready, SetParams,
                  GiveUp, ReadyInOrder, Before
    <2> QED BY <2>1 DEF BothRun
  <1>2. CASE Recover /\ UNCHANGED handles /\ pc # "play" /\ pc' # "play"
    <2>1. CASE UNCHANGED card
      BY <1>2, <2>1 DEF DelayInv, BothRun
    <2>2. CASE ~(UNCHANGED card)
      <3>1. queued' + avail' = nfrag
        BY <1>2, <2>2, RecoverFills
      <3> QED BY <1>2, <3>1 DEF DelayInv
    <2> QED BY <2>1, <2>2
  <1>3. CASE UNCHANGED <<handles, card>> /\ pc # "play" /\ pc' # "play"
    BY <1>3 DEF DelayInv, BothRun
  <1>4. CASE Start \/ WaitFailed \/ WaitBegin \/ Poll \/ PollInterrupted \/ Update
    BY <1>2, <1>3, <1>4
       DEF Start, WaitFailed, WaitBegin, Poll, PollInterrupted, Update, Recover
  <1>5. CASE Capture
    <2>1. BothRun /\ capt_handle /\ pc = "capture" /\ pc' = "play" /\ queued' = queued
      BY <1>5 DEF Capture, BothRun, ReadyInOrder
    <2>2. queued + avail \in {nfrag, nfrag + 1} /\ queued <= nfrag /\ avail >= 0
      BY <2>1, NfragAssumption DEF DelayInv, CardTypes
    <2>3. avail' = IF avail > 0 THEN avail - 1 ELSE avail
      BY <1>5, <2>1 DEF Capture, CaptTakes, CaptReady, BothRun
    <2>4. queued' + avail' \in {nfrag - 1, nfrag}
      BY <2>1, <2>2, <2>3, NfragAssumption DEF CardTypes
    <2> QED BY <2>1, <2>4 DEF DelayInv
  <1>6. CASE Play
    <2>1. BothRun /\ play_handle /\ pc = "play" /\ pc' = "wait" /\ avail' = avail
      BY <1>6 DEF Play, BothRun, ReadyInOrder
    <2>2. queued + avail \in {nfrag - 1, nfrag} /\ queued <= nfrag /\ avail >= 0
      BY <2>1, NfragAssumption DEF DelayInv, CardTypes
    <2>3. queued' = IF queued < nfrag THEN queued + 1 ELSE queued
      BY <1>6, <2>1 DEF Play, PlayTakes, BothRun
    <2>4. queued' + avail' \in {nfrag, nfrag + 1}
      BY <2>1, <2>2, <2>3, NfragAssumption DEF CardTypes
    <2> QED BY <2>1, <2>4 DEF DelayInv
  <1>7. CASE CardNext
    <2>1. UNCHANGED <<pc, linked>>
      BY <1>7 DEF CardNext, Others
    <2>2. Groups = {Streams}
      BY <2>1 DEF Groups, BothRun
    <2>3. CASE CardMoves
      <3>1. Tick(Streams)
        BY <2>2, <2>3 DEF CardMoves
      <3>2. BothRun /\ queued' + avail' = queued + avail
        BY <2>1, <3>1, NfragAssumption DEF Tick, BothRun, Streams, CardTypes
      <3> QED BY <2>1, <3>2 DEF DelayInv
    <2>4. CASE CardStops
      <3>1. Stop(Streams)
        BY <2>2, <2>4 DEF CardStops
      <3>2. UNCHANGED <<play, capt, queued, avail>>
        BY <3>1 DEF Stop, BothRun, Streams
      <3> QED BY <2>1, <3>2 DEF DelayInv, BothRun
    <2> QED BY <1>7, <2>3, <2>4 DEF CardNext
  <1>8. CASE Terminated \/ UNCHANGED vars
    BY <1>8 DEF Terminated, vars, DelayInv, BothRun
  <1> QED BY <1>1, <1>4, <1>5, <1>6, <1>7, <1>8 DEF Next, Program

(* The way through linked streams is nfrag periods long, at most one more, *)
(* however often pcm_wait is interrupted (main.cpp:612-683).               *)
THEOREM DelayStaysBounded == Spec => []DelayIsBounded
  <1>1. DelayInv => DelayIsBounded
    BY DEF DelayInv, DelayIsBounded, BothRun
  <1>2. DelayInv /\ (HandleTypes /\ CardTypes /\ WaitTypes) /\ ReadyInOrder
          /\ [Next]_vars => DelayInv'
    BY DelayStepHolds
  <1> QED BY <1>1, <1>2, DelayInitHolds, TypesHold, ReadyHolds, PTL DEF Spec

-----------------------------------------------------------------------------
(* The samples.                                                            *)
(*                                                                         *)
(* The bytes of a sample are those of one number, and PathInv says which:  *)
(* the float that was sent, turned and rounded to the format.  Of that     *)
(* number every stage is a linear function, piece by piece.                *)

-----------------------------------------------------------------------------
(* Bytes. *)

Octets == 0..255

(* The numbers of the module, for the prover. *)
LEMMA OneIs == One = 8388608 /\ 2 ^ 8 = 256 /\ 2 ^ 15 = 32768
  BY SMT DEF One

LEMMA WeightIs == Weight[1] = 1 /\ Weight[2] = 256 /\ Weight[3] = 65536
  BY SMT DEF Weight

LEMMA FunctionsAreSequences ==
    ASSUME NEW S, NEW n \in Nat, NEW b \in [1..n -> S]
    PROVE  b \in Seq(S) /\ Len(b) = n
  OBVIOUS

(* The bytes of a number, one by one. *)
LEMMA BytesOf ==
    ASSUME NEW v \in Int, NEW n \in {1, 2, 3}
    PROVE  /\ LittleEndian(v, n) \in [1..n -> Octets]
           /\ Len(LittleEndian(v, n)) = n
           /\ \A i \in 1..n : LittleEndian(v, n)[i] = (v \div Weight[i]) % 256
  <1>1. \A i \in 1..n : Weight[i] \in {1, 256, 65536}
    BY WeightIs, SMT
  <1>2. \A w \in {1, 256, 65536} : (v \div w) % 256 \in Octets
    <2>1. \A x \in Int : x % 256 \in Octets
      BY SMT DEF Octets
    <2>2. v \div 1 \in Int /\ v \div 256 \in Int /\ v \div 65536 \in Int
      BY SMT
    <2> QED BY <2>1, <2>2, SMT
  <1>3. LittleEndian(v, n) \in [1..n -> Octets]
    BY <1>1, <1>2, SMT DEF LittleEndian
  <1>4. Len(LittleEndian(v, n)) = n
    BY <1>3, FunctionsAreSequences
  <1>5. \A i \in 1..n : LittleEndian(v, n)[i] = (v \div Weight[i]) % 256
    BY SMT DEF LittleEndian
  <1> QED BY <1>3, <1>4, <1>5

LEMMA TwoBytes ==
    ASSUME NEW v \in Int
    PROVE  /\ LittleEndian(v, 2) \in [1..2 -> Octets]
           /\ Len(LittleEndian(v, 2)) = 2
           /\ LittleEndian(v, 2)[1] = v % 256
           /\ LittleEndian(v, 2)[2] = (v \div 256) % 256
  <1> DEFINE b == LittleEndian(v, 2)
  <1>1. /\ b \in [1..2 -> Octets] /\ Len(b) = 2
        /\ \A i \in 1..2 : b[i] = (v \div Weight[i]) % 256
    BY BytesOf
  <1> HIDE DEF b
  <1>2. b[1] = (v \div 1) % 256 /\ b[2] = (v \div 256) % 256
    BY <1>1, WeightIs, SMT
  <1>3. v \div 1 = v
    BY SMT
  <1> QED BY <1>1, <1>2, <1>3 DEF b

LEMMA ThreeBytes ==
    ASSUME NEW v \in Int
    PROVE  /\ LittleEndian(v, 3) \in [1..3 -> Octets]
           /\ Len(LittleEndian(v, 3)) = 3
           /\ LittleEndian(v, 3)[1] = v % 256
           /\ LittleEndian(v, 3)[2] = (v \div 256) % 256
           /\ LittleEndian(v, 3)[3] = (v \div 65536) % 256
  <1> DEFINE b == LittleEndian(v, 3)
  <1>1. /\ b \in [1..3 -> Octets] /\ Len(b) = 3
        /\ \A i \in 1..3 : b[i] = (v \div Weight[i]) % 256
    BY BytesOf
  <1> HIDE DEF b
  <1>2. /\ b[1] = (v \div 1) % 256 /\ b[2] = (v \div 256) % 256
        /\ b[3] = (v \div 65536) % 256
    BY <1>1, WeightIs, SMT
  <1>3. v \div 1 = v
    BY SMT
  <1> QED BY <1>1, <1>2, <1>3, SMT DEF b

(* A number of 16 bits, and of 24, is that of its bytes. *)
LEMMA SignedOfTwo ==
    ASSUME NEW v \in Int, -32768 <= v, v <= 32767
    PROVE  SignedOf(LittleEndian(v, 2)) = v
  <1> DEFINE b == LittleEndian(v, 2)
  <1>1. b[1] = v % 256 /\ b[2] = (v \div 256) % 256 /\ Len(b) = 2
    BY TwoBytes, SMT
  <1> HIDE DEF b
  <1>2. SignedOf(b) = b[1] + 256 * (IF b[2] >= 128 THEN b[2] - 256 ELSE b[2])
    BY <1>1, SMT DEF SignedOf
  <1>3. v = (v % 256) + 256 * (IF (v \div 256) % 256 >= 128
                                 THEN ((v \div 256) % 256) - 256
                                 ELSE (v \div 256) % 256)
    BY SMT
  <1>4. SignedOf(b) = v
    BY <1>1, <1>2, <1>3, SMT
  <1> QED BY <1>4 DEF b

LEMMA SignedOfThree ==
    ASSUME NEW v \in Int, -One <= v, v < One
    PROVE  SignedOf(LittleEndian(v, 3)) = v
  <1> DEFINE b == LittleEndian(v, 3)
             t == v \div 65536
  <1>1. /\ b[1] = v % 256 /\ b[2] = (v \div 256) % 256 /\ b[3] = t % 256
        /\ Len(b) = 3
    BY ThreeBytes, SMT
  <1> HIDE DEF b
  <1>2. SignedOf(b) = b[1] + 256 * b[2]
                      + 65536 * (IF b[3] >= 128 THEN b[3] - 256 ELSE b[3])
    BY <1>1, SMT DEF SignedOf
  <1>3. v = (v % 256) + 256 * ((v \div 256) % 256) + 65536 * t
    BY SMT
  <1>4. t \in Int /\ -128 <= t /\ t <= 127
    BY OneIs, SMT
  <1> HIDE DEF t
  <1>5. t = IF t % 256 >= 128 THEN (t % 256) - 256 ELSE t % 256
    BY <1>4, SMT
  <1>6. SignedOf(b) = v
    BY <1>1, <1>2, <1>3, <1>5, SMT
  <1> QED BY <1>6 DEF b

(* The top bytes. *)
LEMMA TopBytes ==
    ASSUME NEW k \in Nat, NEW m \in Nat, NEW b \in [1..k + m -> Octets]
    PROVE  /\ Top(b, m) \in [1..m -> Octets]
           /\ \A i \in 1..m : Top(b, m)[i] = b[k + i]
  <1> DEFINE t == SubSeq(b, k + 1, k + m)
  <1>1. Len(b) = k + m
    BY FunctionsAreSequences
  <1>2. (k + m) - m + 1 = k + 1
    OBVIOUS
  <1>3. Top(b, m) = t
    BY <1>1, <1>2, Zenon DEF Top
  <1>4. \A i \in k + 1 .. k + m : b[i] \in Octets
    OBVIOUS
  <1>5. /\ t \in Seq(Octets)
        /\ Len(t) = IF k + 1 <= k + m THEN (k + m) - (k + 1) + 1 ELSE 0
        /\ \A i \in 1 .. (k + m) - (k + 1) + 1 : t[i] = b[(k + 1) + i - 1]
    BY <1>4, SubSeqProperties
  <1> HIDE DEF t
  <1>6. Len(t) = m /\ (k + m) - (k + 1) + 1 = m
    BY <1>5
  <1>7. \A i \in 1..m : (k + 1) + i - 1 = k + i
    OBVIOUS
  <1>8. \A i \in 1..m : t[i] = b[k + i]
    BY <1>5, <1>6, <1>7
  <1>9. t \in [1..m -> Octets]
    BY <1>5, <1>6, LenProperties
  <1> QED BY <1>3, <1>8, <1>9

(* A sample made wider keeps its bytes on top. *)
LEMMA WidenedBytes ==
    ASSUME NEW k \in Nat, NEW n \in Nat, NEW b \in [1..n -> Octets]
    PROVE  /\ Zeros(k) \o b \in [1..k + n -> Octets]
           /\ \A i \in 1..n : (Zeros(k) \o b)[k + i] = b[i]
  <1>1. Zeros(k) \in [1..k -> Octets]
    BY DEF Zeros, Octets
  <1> DEFINE z == Zeros(k)
             w == z \o b
  <1>2. z \in Seq(Octets) /\ Len(z) = k /\ b \in Seq(Octets) /\ Len(b) = n
    BY <1>1, FunctionsAreSequences
  <1> HIDE DEF z
  <1>3. /\ w \in Seq(Octets) /\ Len(w) = k + n
        /\ \A i \in 1 .. k + n : w[i] = IF i <= k THEN z[i] ELSE b[i - k]
    BY <1>2, ConcatProperties
  <1>4. w \in [1..k + n -> Octets]
    BY <1>3, LenProperties
  <1> HIDE DEF w
  <1>5. ASSUME NEW i \in 1..n PROVE w[k + i] = b[i]
    <2>1. k + i \in 1 .. k + n /\ ~(k + i <= k) /\ (k + i) - k = i
      OBVIOUS
    <2> QED BY <1>3, <2>1
  <1> QED BY <1>4, <1>5 DEF w, z

LEMMA TopOfWidened ==
    ASSUME NEW k \in Nat, NEW n \in Nat, NEW b \in [1..n -> Octets]
    PROVE  Top(Zeros(k) \o b, n) = b
  <1> DEFINE w == Zeros(k) \o b
  <1>1. w \in [1..k + n -> Octets] /\ \A i \in 1..n : w[k + i] = b[i]
    BY WidenedBytes
  <1> HIDE DEF w
  <1>2. /\ Top(w, n) \in [1..n -> Octets]
        /\ \A i \in 1..n : Top(w, n)[i] = w[k + i]
    BY <1>1, TopBytes
  <1>3. Top(w, n) = b
    BY <1>1, <1>2
  <1> QED BY <1>3 DEF w

LEMMA TopOfAll ==
    ASSUME NEW n \in Nat, NEW b \in [1..n -> Octets]
    PROVE  Top(b, n) = b
  <1>1. 0 \in Nat /\ 0 + n = n
    OBVIOUS
  <1>2. b \in [1..0 + n -> Octets]
    BY <1>1
  <1>3. /\ Top(b, n) \in [1..n -> Octets]
        /\ \A i \in 1..n : Top(b, n)[i] = b[0 + i]
    BY <1>1, <1>2, TopBytes, Zenon
  <1>4. \A i \in 1..n : 0 + i = i
    OBVIOUS
  <1> QED BY <1>3, <1>4

(* What vban_sample_convert makes wider and narrow again. *)
LEMMA WideIsLossless ==
    ASSUME NEW f \in {"16", "24"}, NEW dst \in {"8", "16", "24", "32"},
           Bytes(dst) >= Bytes(f), NEW b \in [1..Bytes(f) -> Octets]
    PROVE  IntToInt(f, IntToInt(dst, b)) = b
  <1> DEFINE n == Bytes(f)
             d == Bytes(dst)
  <1>1. n \in Nat /\ d \in Nat /\ Len(b) = n /\ d >= n
    BY FunctionsAreSequences DEF Bytes
  <1> HIDE DEF n, d
  <1>2. CASE d <= n
    <2>1. IntToInt(dst, b) = Top(b, d) /\ d = n
      BY <1>1, <1>2 DEF IntToInt, n, d
    <2>2. Top(b, n) = b
      BY <1>1, TopOfAll DEF n
    <2> QED BY <1>1, <2>1, <2>2 DEF IntToInt, n
  <1>3. CASE ~(d <= n)
    <2> DEFINE w == Zeros(d - n) \o b
    <2>1. IntToInt(dst, b) = w
      BY <1>1, <1>3 DEF IntToInt, n, d
    <2>2. d - n \in Nat
      BY <1>1, <1>3
    <2>3. Len(w) = d
      <3>1. w \in [1..(d - n) + n -> Octets]
        BY <1>1, <2>2, WidenedBytes, Zenon DEF n
      <3>2. (d - n) + n = d
        BY <1>1
      <3> QED BY <1>1, <3>1, <3>2, FunctionsAreSequences
    <2>4. Top(w, n) = b
      BY <1>1, <2>2, TopOfWidened DEF n
    <2> HIDE DEF w
    <2>5. IntToInt(f, w) = Top(w, n)
      BY <1>1, <2>3 DEF IntToInt, n
    <2> QED BY <2>1, <2>4, <2>5
  <1> QED BY <1>2, <1>3

-----------------------------------------------------------------------------
(* Numbers. *)

(* What the code divides, scales and clips. *)
LEMMA QuotientIs ==
    ASSUME NEW a \in Int, NEW b \in {32767, 8388607}, NEW q \in Quotient(a, b)
    PROVE  /\ q \in Int
           /\ a - b < b * q /\ b * q < a + b
  <1>1. CASE b = 32767
    BY <1>1, SMT DEF Quotient
  <1>2. CASE b = 8388607
    BY <1>2, SMT DEF Quotient
  <1> QED BY <1>1, <1>2, SMT

LEMMA HalfPlaceIs ==
    ASSUME NEW m \in Int, 0 <= m, m <= 2 * One
    PROVE  HalfPlace(m) \in Int /\ 0 <= HalfPlace(m) /\ 512 * HalfPlace(m) <= m
  <1>1. CASE m < 512
    BY <1>1, SMT DEF HalfPlace
  <1>2. CASE ~(m < 512)
    <2> DEFINE P(h) == 512 * h <= m /\ m < 1024 * h
    <2>1. \E h \in Places : P(h)
      BY <1>2, OneIs, SMT DEF Places
    <2>2. HalfPlace(m) = CHOOSE h \in Places : P(h)
      BY <1>2, Zenon DEF HalfPlace
    <2>3. HalfPlace(m) \in Places /\ P(HalfPlace(m))
      <3> HIDE DEF P
      <3> QED BY <2>1, <2>2, Zenon
    <2> QED BY <2>3, SMT DEF Places
  <1> QED BY <1>1, <1>2

(* A product is within two units of m/256, and the loudest is clipped.     *)
LEMMA Units16Is ==
    ASSUME NEW m \in Int, 0 <= m, m <= 2 * One, NEW c \in {0, 1}
    PROVE  /\ Units16(m, c) \in Int /\ 0 <= Units16(m, c)
           /\ m <= One => /\ m - 512 <= 256 * Units16(m, c) /\ 256 * Units16(m, c) <= m + 256
                          /\ Units16(m, c) <= 32767
                          /\ c = 0 =>
                               /\ 8388608 * Units16(m, c) <= 32767 * m + 16384
                               /\ 32767 * m < 8388608 * Units16(m, c) + 8388608
           /\ m >= One - 256 => Units16(m, c) >= 32765
           /\ m >= One => Units16(m, c) >= 32767
           /\ m = 0 => Units16(m, c) = 0
  <1> DEFINE h == HalfPlace(m)
             n == ((m % 256) * 2 ^ 15 - m) + h + c * 2 ^ 22
  <1>1. h \in Int /\ 0 <= h /\ 512 * h <= m /\ c \in Int
    BY HalfPlaceIs
  <1>2. 2 ^ 22 = 4194304 /\ 2 ^ 15 = 32768
    BY SMT
  <1>3. Units16(m, c) = (m \div 256) + (n \div One)
    BY DEF Units16
  <1> HIDE DEF h
  <1>4. m = 256 * (m \div 256) + (m % 256) /\ m % 256 \in 0..255 /\ m \div 256 \in Int
    BY SMT
  <1>5. PICK a, b \in Int : a = m \div 256 /\ b = m % 256
    BY <1>4
  <1>6. n \in Int /\ n = (b * 32768 - m) + h + c * 4194304
    BY <1>1, <1>2, <1>5, SMT
  <1> HIDE DEF n
  <1>7. PICK q \in Int : q = n \div One /\ 8388608 * q <= n /\ n < 8388608 * q + 8388608
    BY <1>6, OneIs, SMT
  <1>8. Units16(m, c) = a + q /\ m = 256 * a + b /\ 0 <= b /\ b <= 255
    BY <1>3, <1>4, <1>5, <1>7
  <1> QED BY <1>1, <1>6, <1>7, <1>8, OneIs, SMT

LEMMA ProductIs ==
    ASSUME NEW m \in Int, 0 <= m, m <= One, NEW u, u = Units16(m, 0)
    PROVE  /\ u \in Int /\ 0 <= u /\ u <= 32767
           /\ m >= One - 256 => u >= 32765
           /\ m = 0 => u = 0
           /\ 8388608 * u <= 32767 * m + 16384
           /\ 32767 * m < 8388608 * u + 8388608
  <1>1. m <= 2 * One /\ 0 \in {0, 1}
    BY OneIs, SMT
  <1> QED BY <1>1, Units16Is, SMT

LEMMA PlayInt16Is ==
    ASSUME NEW s \in Int, -2 * One <= s, s <= 2 * One
    PROVE  /\ PlayInt16(s) \in Int
           /\ -32767 <= PlayInt16(s) /\ PlayInt16(s) <= 32767
           /\ s >= One - 256 => PlayInt16(s) >= 32765
           /\ -s >= One - 256 => PlayInt16(s) <= -32765
           /\ s >= 0 => PlayInt16(s) >= 0
           /\ s <= 0 => PlayInt16(s) <= 0
  <1>1. CASE s > One
    BY <1>1, OneIs, SMT DEF PlayInt16
  <1>2. CASE s < -One
    BY <1>2, OneIs, SMT DEF PlayInt16
  <1>3. CASE ~(s > One) /\ ~(s < -One) /\ ~(s < 0)
    <2>1. PlayInt16(s) = Units16(s, 0)
      BY <1>3, SMT DEF PlayInt16, Magnitude, WithSignOf
    <2>2. 0 <= s /\ s <= One /\ s <= 2 * One
      BY <1>3, OneIs, SMT
    <2>3. PICK u : u = Units16(s, 0)
      OBVIOUS
    <2>4. /\ u \in Int /\ 0 <= u /\ u <= 32767
          /\ s >= One - 256 => u >= 32765
          /\ s = 0 => u = 0
      BY <2>2, <2>3, ProductIs, SMTT(30)
    <2> QED BY <1>3, <2>1, <2>2, <2>3, <2>4, OneIs, SMT
  <1>4. CASE ~(s > One) /\ ~(s < -One) /\ s < 0
    <2>1. PlayInt16(s) = -Units16(-s, 0)
      BY <1>4, SMT DEF PlayInt16, Magnitude, WithSignOf
    <2>2. 0 <= -s /\ -s <= One /\ -s <= 2 * One /\ -s \in Int
      BY <1>4, OneIs, SMT
    <2>3. PICK u : u = Units16(-s, 0)
      OBVIOUS
    <2>4. /\ u \in Int /\ 0 <= u /\ u <= 32767
          /\ -s >= One - 256 => u >= 32765
      BY <2>2, <2>3, ProductIs, SMTT(30)
    <2> QED BY <1>4, <2>1, <2>2, <2>3, <2>4, OneIs, SMT
  <1> QED BY <1>1, <1>2, <1>3, <1>4, SMT

LEMMA PlayedNear ==
    ASSUME NEW s \in Int, -One <= s, s <= One,
           NEW v \in Int, v = PlayInt16(s)
    PROVE  /\ ~(s < 0) => /\ 8388608 * v <= 32767 * s + 16384
                          /\ 32767 * s < 8388608 * v + 8388608
           /\ s < 0 => /\ 8388608 * (-v) <= 32767 * (-s) + 16384
                       /\ 32767 * (-s) < 8388608 * (-v) + 8388608
           /\ -32767 <= v /\ v <= 32767 /\ (s = 0 => v = 0)
  <1>1. ~(s > One) /\ ~(s < -One)
    BY OneIs, SMT
  <1>2. CASE ~(s < 0)
    <2>1. v = Units16(s, 0)
      BY <1>1, <1>2, SMT DEF PlayInt16, Magnitude, WithSignOf
    <2>2. 0 <= s
      BY <1>2, SMT
    <2> QED BY <1>2, <2>1, <2>2, ProductIs, SMT
  <1>3. CASE s < 0
    <2>1. v = -Units16(-s, 0)
      BY <1>1, <1>3, SMT DEF PlayInt16, Magnitude, WithSignOf
    <2>2. 0 <= -s /\ -s <= One /\ -s \in Int
      BY <1>3, OneIs, SMT
    <2>3. PICK m \in Int, u \in Int : m = -s /\ u = -v
      BY <2>2
    <2>4. u = Units16(m, 0) /\ 0 <= m /\ m <= One
      <3>1. Units16(m, 0) \in Int
        BY <2>2, <2>3, ProductIs
      <3>2. v = -Units16(m, 0)
        BY <2>1, <2>3
      <3> QED BY <2>2, <2>3, <3>1, <3>2
    <2> QED BY <1>3, <2>3, <2>4, ProductIs, SMT
  <1> QED BY <1>2, <1>3

(* A sample played and captured again is off by a step at most. *)
LEMMA Loop16 ==
    ASSUME NEW s \in Int, -One <= s, s <= One,
           NEW v \in Int, v = PlayInt16(s), NEW q \in Int,
           256 * v - 32767 < 32767 * q, 32767 * q < 256 * v + 32767
    PROVE  /\ -257 <= 256 * v + q - s
           /\ 256 * v + q - s <= 257
           /\ s = 0 => 256 * v + q = 0
  <1>1. CASE ~(s < 0)
    BY <1>1, PlayedNear, OneIs, SMT
  <1>2. CASE s < 0
    BY <1>2, PlayedNear, OneIs, SMT
  <1> QED BY <1>1, <1>2

LEMMA PlayInt24Is ==
    ASSUME NEW s \in Int
    PROVE  /\ PlayInt24(s) \in Int
           /\ -One < PlayInt24(s) /\ PlayInt24(s) < One
           /\ s >= One - 256 => PlayInt24(s) >= One - 600
           /\ -s >= One - 256 => PlayInt24(s) <= -(One - 600)
           /\ s = 0 => PlayInt24(s) = 0
           /\ s >= 0 => PlayInt24(s) >= 0
           /\ s <= 0 => PlayInt24(s) <= 0
           /\ -One <= s /\ s <= One =>
                /\ s > 0 => PlayInt24(s) = s - 1
                /\ s < 0 => PlayInt24(s) = s + 1
  BY OneIs, SMT DEF PlayInt24

LEMMA Loop24 ==
    ASSUME NEW s \in Int, -One <= s, s <= One,
           NEW v \in Int, v = PlayInt24(s), NEW q \in Int,
           v - 8388607 < 8388607 * q, 8388607 * q < v + 8388607
    PROVE  /\ -2 <= v + q - s
           /\ v + q - s <= 2
           /\ s = 0 => v + q = 0
  <1>1. /\ -One < v /\ v < One
        /\ s = 0 => v = 0
        /\ s > 0 => v = s - 1
        /\ s < 0 => v = s + 1
    BY PlayInt24Is, OneIs, SMT
  <1> QED BY <1>1, OneIs, SMT

(* convertFloatToVban. *)
LEMMA Coded16Is ==
    ASSUME NEW s \in Int, -2 * One <= s, s <= 2 * One,
           NEW v, v = Clamp(WithSignOf(s, Units16(Magnitude(s), 1)), 2 ^ 15)
    PROVE  /\ v \in Int /\ -32768 <= v /\ v <= 32767
           /\ -One <= s /\ s <= One => -512 <= 256 * v - s /\ 256 * v - s <= 512
           /\ s >= One => v >= 32767
           /\ -s >= One => -v >= 32767
           /\ s >= 0 => v >= 0
           /\ s <= 0 => v <= 0
  <1> DEFINE m == Magnitude(s)
             u == Units16(m, 1)
  <1>1. m \in Int /\ 0 <= m /\ m <= 2 * One /\ m = IF s < 0 THEN -s ELSE s
    BY OneIs, SMT DEF Magnitude
  <1> HIDE DEF m
  <1>2. /\ u \in Int /\ 0 <= u
        /\ m <= One => m - 512 <= 256 * u /\ 256 * u <= m + 256 /\ u <= 32767
        /\ m >= One => u >= 32767
        /\ m = 0 => u = 0
    BY <1>1, Units16Is, SMT
  <1> HIDE DEF u
  <1>3. v = Clamp(IF s < 0 THEN -u ELSE u, 2 ^ 15)
    BY Zenon DEF WithSignOf, u, m
  <1>4. PICK w \in Int : w = IF s < 0 THEN -u ELSE u
    BY <1>2
  <1>5. v = IF w > 32767 THEN 32767 ELSE IF w < -32768 THEN -32768 ELSE w
    BY <1>3, <1>4, OneIs, SMT DEF Clamp
  <1> QED BY <1>1, <1>2, <1>4, <1>5, OneIs, SMT

LEMMA Coded24Is ==
    ASSUME NEW s \in Int, -2 * One <= s, s <= 2 * One,
           NEW v, v = Clamp(WithSignOf(s, Units24(Magnitude(s))), One)
    PROVE  /\ v \in Int /\ -One <= v /\ v < One
           /\ -One <= s /\ s <= One => -1 <= v - s /\ v - s <= 1
           /\ s >= One => v >= One - 1
           /\ -s >= One => -v >= One - 1
           /\ s >= 0 => v >= 0
           /\ s <= 0 => v <= 0
  <1>1. PICK m \in Int : m = Magnitude(s) /\ m = IF s < 0 THEN -s ELSE s
    BY SMT DEF Magnitude
  <1>2. PICK u \in Int : u = Units24(m) /\ u = IF 4 * m < 3 * One THEN m ELSE m - 1
    BY OneIs, SMT DEF Units24
  <1>3. v = Clamp(IF s < 0 THEN -u ELSE u, One)
    BY <1>1, <1>2, Zenon DEF WithSignOf
  <1>4. PICK w \in Int : w = IF s < 0 THEN -u ELSE u
    BY <1>2
  <1>5. v = IF w > One - 1 THEN One - 1 ELSE IF w < -One THEN -One ELSE w
    BY <1>3, <1>4, Zenon DEF Clamp
  <1> QED BY <1>1, <1>2, <1>4, <1>5, OneIs, SMT

(* The top bytes of a sample of 32 bits: those of its 24 bits, and those   *)
(* of a 256th of them.                                                     *)
LEMMA TopOfWord ==
    ASSUME NEW v \in Int
    PROVE  /\ Top(<<0>> \o LittleEndian(v, 3), 3) = LittleEndian(v, 3)
           /\ Top(<<0>> \o LittleEndian(v, 3), 2) = LittleEndian(v \div 256, 2)
  <1> DEFINE b == LittleEndian(v, 3)
             w == Zeros(1) \o b
             u == v \div 256
             c == LittleEndian(u, 2)
  <1>0. 1 \in Nat /\ 2 \in Nat /\ 3 \in Nat
    OBVIOUS
  <1>1. Zeros(1) = <<0>>
    BY DEF Zeros
  <1>2. b \in [1..3 -> Octets]
    BY ThreeBytes, SMT
  <1>3. c \in [1..2 -> Octets] /\ c[1] = u % 256 /\ c[2] = (u \div 256) % 256
    <2>1. u \in Int
      BY SMT
    <2> HIDE DEF u
    <2> QED BY <2>1, TwoBytes, SMT
  <1>4. b[2] = u % 256 /\ b[3] = (u \div 256) % 256
    <2>1. u \div 256 = v \div 65536
      BY SMT
    <2>2. b[2] = u % 256 /\ b[3] = (v \div 65536) % 256
      BY ThreeBytes, SMT
    <2> QED BY <2>1, <2>2, SMT
  <1> HIDE DEF b, c, u
  <1>5. Top(w, 3) = b
    BY <1>0, <1>2, TopOfWidened, Zenon
  <1>6. w \in [1..4 -> Octets] /\ \A i \in 1..3 : w[1 + i] = b[i]
    <2>1. /\ w \in [1..1 + 3 -> Octets]
          /\ \A i \in 1..3 : w[1 + i] = b[i]
      BY <1>0, <1>2, WidenedBytes, Zenon
    <2> QED BY <2>1
  <1> HIDE DEF w
  <1>7. Top(w, 2) = c
    <2>1. w \in [1..2 + 2 -> Octets]
      BY <1>6
    <2>2. /\ Top(w, 2) \in [1..2 -> Octets]
          /\ \A i \in 1..2 : Top(w, 2)[i] = w[2 + i]
      BY <1>0, <2>1, TopBytes, Zenon
    <2>3. Top(w, 2)[1] = w[1 + 2] /\ Top(w, 2)[2] = w[1 + 3]
      BY <2>2
    <2>4. Top(w, 2)[1] = c[1] /\ Top(w, 2)[2] = c[2]
      BY <2>3, <1>6, <1>3, <1>4
    <2> QED BY <2>2, <2>4, <1>3
  <1> QED BY <1>1, <1>5, <1>7 DEF w, b, c, u

Lowest == <<0, 0, 0, 128>>
Highest == <<255, 255, 255, 127>>

(* The two outcomes of a sample that is no int32_t.                        *)
LEMMA TopOfLimits ==
    /\ Top(Lowest, 2) = LittleEndian(-32768, 2)
    /\ Top(Lowest, 3) = LittleEndian(-8388608, 3)
    /\ Top(Highest, 2) = LittleEndian(32767, 2)
    /\ Top(Highest, 3) = LittleEndian(8388607, 3)
  <1>1. LittleEndian(-32768, 2) = <<0, 128>>
    BY TwoBytes, SMT
  <1>2. LittleEndian(-8388608, 3) = <<0, 0, 128>>
    BY ThreeBytes, SMT
  <1>3. LittleEndian(32767, 2) = <<255, 127>>
    BY TwoBytes, SMT
  <1>4. LittleEndian(8388607, 3) = <<255, 255, 127>>
    BY ThreeBytes, SMT
  <1>5. ASSUME NEW x \in Octets, NEW y \in Octets, NEW p \in Octets, NEW q \in Octets
        PROVE  /\ Top(<<x, y, p, q>>, 2) = <<p, q>>
               /\ Top(<<x, y, p, q>>, 3) = <<y, p, q>>
    <2> DEFINE w == <<x, y, p, q>>
    <2>1. 1 \in Nat /\ 2 \in Nat /\ 3 \in Nat
      OBVIOUS
    <2>2. w \in [1..2 + 2 -> Octets] /\ w \in [1..1 + 3 -> Octets]
      OBVIOUS
    <2>3. w[2] = y /\ w[3] = p /\ w[4] = q
      OBVIOUS
    <2> HIDE DEF w
    <2>4. /\ Top(w, 2) \in [1..2 -> Octets]
          /\ \A i \in 1..2 : Top(w, 2)[i] = w[2 + i]
      BY <2>1, <2>2, TopBytes, Zenon
    <2>5. /\ Top(w, 3) \in [1..3 -> Octets]
          /\ \A i \in 1..3 : Top(w, 3)[i] = w[1 + i]
      BY <2>1, <2>2, TopBytes, Zenon
    <2>6. Top(w, 2) = <<p, q>>
      BY <2>3, <2>4
    <2>7. Top(w, 3) = <<y, p, q>>
      BY <2>3, <2>5
    <2> QED BY <2>6, <2>7 DEF w
  <1>6. 0 \in Octets /\ 127 \in Octets /\ 128 \in Octets /\ 255 \in Octets
    BY SMT DEF Octets
  <1> HIDE DEF Octets
  <1>7. ASSUME NEW x \in Octets, NEW p \in Octets, NEW b, b = <<x, x, x, p>>
        PROVE  Top(b, 2) = <<x, p>> /\ Top(b, 3) = <<x, x, p>>
    BY <1>5, <1>7, Zenon
  <1>8. Top(Lowest, 2) = <<0, 128>> /\ Top(Lowest, 3) = <<0, 0, 128>>
    BY <1>6, <1>7, SMT DEF Lowest
  <1>9. Top(Highest, 2) = <<255, 127>> /\ Top(Highest, 3) = <<255, 255, 127>>
    BY <1>6, <1>7, SMT DEF Highest
  <1> QED BY <1>1, <1>2, <1>3, <1>4, <1>8, <1>9, SMT

(* Turning the byte order twice changes nothing.                           *)
LEMMA TurnedTwice ==
    ASSUME NEW n \in Nat, NEW b \in [1..n -> Octets]
    PROVE  /\ BigEndian(b) \in [1..n -> Octets]
           /\ BigEndian(BigEndian(b)) = b
  <1>1. Len(b) = n
    BY FunctionsAreSequences
  <1>2. \A i \in 1..n : n + 1 - i \in 1..n /\ n + 1 - (n + 1 - i) = i
    OBVIOUS
  <1>3. BigEndian(b) = [i \in 1..n |-> b[n + 1 - i]]
    BY <1>1, Zenon DEF BigEndian
  <1> DEFINE t == BigEndian(b)
  <1>4. t \in [1..n -> Octets] /\ \A i \in 1..n : t[i] = b[n + 1 - i]
    BY <1>2, <1>3
  <1> HIDE DEF t
  <1>5. Len(t) = n
    BY <1>4, FunctionsAreSequences
  <1>6. BigEndian(t) = [i \in 1..n |-> t[n + 1 - i]]
    BY <1>5, Zenon DEF BigEndian
  <1>7. \A i \in 1..n : t[n + 1 - i] = b[i]
    BY <1>2, <1>4
  <1>8. BigEndian(t) = b
    BY <1>6, <1>7
  <1> QED BY <1>4, <1>8 DEF t

Played(d, s) == IF d.width = 2 THEN PlayInt16(s) ELSE PlayInt24(s)

(* What the card is given, in its own format and byte order, and how it is *)
(* read back.                                                              *)
LEMMA CardReadsBack ==
    ASSUME NEW d \in Devices, NEW s \in Int, -2 * One <= s, s <= 2 * One
    PROVE  /\ PlayFunc(d, s) \in [1..d.width -> Octets]
           /\ SignedOf(Top(Ordered(d, PlayFunc(d, s)), IF d.width = 2 THEN 2 ELSE 3))
              = Played(d, s)
  <1> DEFINE w == d.width
             n == IF w = 2 THEN 2 ELSE 3
             b == PlayBytes(w, s)
  <1>0. 1 \in Nat /\ 2 \in Nat /\ 3 \in Nat
    OBVIOUS
  <1>1. w \in {2, 3, 4} /\ d.big \in BOOLEAN
    BY DEF Devices
  <1>2. ASSUME w = 2
        PROVE  b \in [1..w -> Octets] /\ SignedOf(Top(b, n)) = Played(d, s)
    <2> DEFINE v == PlayInt16(s)
    <2>1. v \in Int /\ -32768 <= v /\ v <= 32767
      BY PlayInt16Is, SMT
    <2>2. b = LittleEndian(v, 2)
      BY <1>2 DEF PlayBytes
    <2> HIDE DEF v
    <2>3. b \in [1..2 -> Octets]
      BY <2>1, <2>2, TwoBytes, SMT
    <2>4. SignedOf(LittleEndian(v, 2)) = v
      BY <2>1, SignedOfTwo, SMT
    <2> HIDE DEF b
    <2>5. Top(b, 2) = b
      BY <1>0, <2>3, TopOfAll, Zenon
    <2>6. b \in [1..w -> Octets] /\ SignedOf(Top(b, n)) = Played(d, s)
      BY <1>2, <2>2, <2>3, <2>4, <2>5 DEF Played, v
    <2> QED BY <2>6
  <1>3. ASSUME w \in {3, 4}
        PROVE  b \in [1..w -> Octets] /\ SignedOf(Top(b, n)) = Played(d, s)
    <2> DEFINE v == PlayInt24(s)
    <2>1. v \in Int /\ -One <= v /\ v < One
      BY PlayInt24Is, OneIs, SMT
    <2> HIDE DEF v
    <2>2. LittleEndian(v, 3) \in [1..3 -> Octets]
      BY <2>1, ThreeBytes, SMT
    <2>3. SignedOf(LittleEndian(v, 3)) = v
      BY <2>1, SignedOfThree, SMT
    <2>4. b \in [1..w -> Octets] /\ Top(b, 3) = LittleEndian(v, 3)
      <3>1. ASSUME w = 3 PROVE b \in [1..w -> Octets] /\ Top(b, 3) = LittleEndian(v, 3)
        <4>1. b = LittleEndian(v, 3)
          BY <3>1 DEF PlayBytes, v
        <4> HIDE DEF b
        <4>2. b \in [1..3 -> Octets]
          BY <4>1, <2>2
        <4>3. Top(b, 3) = b
          BY <1>0, <4>2, TopOfAll, Zenon
        <4> QED BY <3>1, <4>1, <4>2, <4>3
      <3>2. ASSUME w = 4 PROVE b \in [1..w -> Octets] /\ Top(b, 3) = LittleEndian(v, 3)
        <4>1. b = <<0>> \o LittleEndian(v, 3)
          BY <3>2 DEF PlayBytes, v
        <4> HIDE DEF b
        <4>2. Top(b, 3) = LittleEndian(v, 3)
          BY <2>1, <4>1, TopOfWord, Zenon
        <4>3. Zeros(1) = <<0>>
          BY DEF Zeros
        <4>4. Zeros(1) \o LittleEndian(v, 3) \in [1..1 + 3 -> Octets]
          BY <1>0, <2>2, WidenedBytes, Zenon
        <4>5. b \in [1..4 -> Octets]
          <5>1. b \in [1..1 + 3 -> Octets]
            BY <4>1, <4>3, <4>4, Zenon
          <5> QED BY <5>1
        <4> QED BY <3>2, <4>2, <4>5
      <3> QED BY <1>3, <3>1, <3>2
    <2> HIDE DEF b
    <2>5. SignedOf(Top(b, n)) = Played(d, s)
      BY <1>3, <2>3, <2>4 DEF Played, v
    <2> QED BY <2>4, <2>5
  <1>4. b \in [1..w -> Octets] /\ SignedOf(Top(b, n)) = Played(d, s)
    BY <1>1, <1>2, <1>3
  <1>5. PlayFunc(d, s) = Ordered(d, b)
    BY DEF PlayFunc
  <1> HIDE DEF b
  <1>6. Ordered(d, b) \in [1..w -> Octets] /\ Ordered(d, Ordered(d, b)) = b
    <2>1. w \in Nat
      BY <1>1
    <2> HIDE DEF w
    <2>2. BigEndian(b) \in [1..w -> Octets] /\ BigEndian(BigEndian(b)) = b
      BY <1>4, <2>1, TurnedTwice
    <2> QED BY <1>4, <2>2 DEF Ordered
  <1> QED BY <1>4, <1>5, <1>6

-----------------------------------------------------------------------------
(* The invariant. *)

(* 1.0 in steps of a format. *)
Whole(f) == IF f = "16" THEN 32768 ELSE One

InRange(s) == -One <= s /\ s <= One

(* h is s as it was sent, with the sign p and within two steps of f, and   *)
(* the loudest samples stay loud; from -1.0 the sign may be the other one  *)
(* if p turns it.                                                          *)
Alike(f, p, s, h) ==
    /\ InRange(s) /\ ~(p = -1 /\ s = -One) =>
         -(2 * Step(f)) <= h - p * s /\ h - p * s <= 2 * Step(f)
    /\ ~(p = -1 /\ s <= -One) => (p * s >= 0 => h >= 0) /\ (p * s <= 0 => h <= 0)
    /\ s >= One => p * h >= One - 256
    /\ s <= -One => p * h <= -(One - 256) \/ (p = -1 /\ h <= -(One - 256))

Coded(f, p, s, v) ==
    /\ v \in Int /\ -Whole(f) <= v /\ v < Whole(f)
    /\ Alike(f, p, s, Step(f) * v)

(* A packet holds the bytes of a number that codes the sample, a receptor  *)
(* hears that number, and the card is given what it hears.                 *)
PathInv ==
    /\ PathTypeOK
    /\ stage # "encode" /\ format # "float" =>
         \E v : data = LittleEndian(v, Bytes(format)) /\ Coded(format, Polarity, sent, v)
    /\ Heard => Alike(format, Polarity, sent, heard)
    /\ IF cardbuf = <<>> THEN stage \in {"encode", "decode", "play", "done"}
                      ELSE Heard /\ cardbuf = PlayFunc(device, heard)
    /\ cardbuf = <<>> /\ to = "alsa" => stage # "done"
    /\ LoopIsTrue

LEMMA StepIs == Step("16") = 256 /\ Step("24") = 1 /\ Step("float") = 0
  BY OneIs DEF Step

LEMMA OneIsNat == One \in Nat /\ One > 0
  BY OneIs, SMT

(* The ALSA utility as the emitter. *)
LEMMA UtilityCodes ==
    ASSUME NEW f \in {"16", "24"}, NEW s \in Int, -2 * One <= s, s <= 2 * One,
           NEW b, b = FloatToVban(f, s)
    PROVE  \E v : b = LittleEndian(v, Bytes(f)) /\ Coded(f, 1, s, v)
  <1>1. CASE f = "16"
    <2>1. PICK v : v = Clamp(WithSignOf(s, Units16(Magnitude(s), 1)), 2 ^ 15)
      OBVIOUS
    <2>2. b = LittleEndian(v, 2) /\ Bytes(f) = 2
      BY <1>1, <2>1 DEF FloatToVban, Bytes
    <2>3. /\ v \in Int /\ -32768 <= v /\ v <= 32767
          /\ -One <= s /\ s <= One => -512 <= 256 * v - s /\ 256 * v - s <= 512
          /\ s >= One => v >= 32767
          /\ -s >= One => -v >= 32767
          /\ s >= 0 => v >= 0
          /\ s <= 0 => v <= 0
      BY <2>1, Coded16Is
    <2>4. Coded("16", 1, s, v)
      BY <2>3, OneIs, StepIs, SMT DEF Coded, Alike, InRange, Whole
    <2> QED BY <1>1, <2>2, <2>4
  <1>2. CASE f = "24"
    <2>1. PICK v : v = Clamp(WithSignOf(s, Units24(Magnitude(s))), One)
      OBVIOUS
    <2>2. b = LittleEndian(v, 3) /\ Bytes(f) = 3
      BY <1>2, <2>1 DEF FloatToVban, Bytes
    <2>3. /\ v \in Int /\ -One <= v /\ v < One
          /\ -One <= s /\ s <= One => -1 <= v - s /\ v - s <= 1
          /\ s >= One => v >= One - 1
          /\ -s >= One => -v >= One - 1
          /\ s >= 0 => v >= 0
          /\ s <= 0 => v <= 0
      BY <2>1, Coded24Is, Zenon
    <2>4. Coded("24", 1, s, v)
      BY <2>3, OneIs, StepIs, SMT DEF Coded, Alike, InRange, Whole
    <2> QED BY <1>2, <2>2, <2>4
  <1> QED BY <1>1, <1>2

(* The JACK and PipeWire programs as the emitter: from -1.0 down a sample  *)
(* has two outcomes, and above 1.0 it is the lowest number.                *)
LEMMA JackCodes ==
    ASSUME NEW f \in {"16", "24"}, NEW s \in Int,
           NEW b \in FloatToInt(f, s)
    PROVE  \E v : b = LittleEndian(v, Bytes(f)) /\ Coded(f, -1, s, v)
  <1>1. f # "8" /\ Bytes(f) = IF f = "16" THEN 2 ELSE 3
    BY DEF Bytes
  <1>2. PICK w \in Times1Shl31(s) : b = Top(w, Bytes(f))
    BY <1>1 DEF FloatToInt
  <1>3. /\ -s \in Int
        /\ -One < s /\ s <= One => -s \in -One .. One - 1
        /\ s <= -One => ~(-s \in -One .. One - 1) /\ s < 0
        /\ s > One => ~(-s \in -One .. One - 1) /\ ~(s < 0)
    BY OneIsNat, SMT
  <1>4. CASE -One < s /\ s <= One
    <2> DEFINE t == -s
               u == t \div 256
    <2>1. w = <<0>> \o LittleEndian(t, 3)
      BY <1>2, <1>3, <1>4, Zenon DEF Times1Shl31
    <2>2. t \in Int /\ -One <= t /\ t < One
      BY <1>4, OneIs, SMT DEF InRange
    <2>3. u \in Int /\ 256 * u <= t /\ t < 256 * u + 256
      BY <2>2, SMT
    <2>4. s = -t
      BY SMT
    <2> HIDE DEF t, u
    <2>5. Coded("16", -1, s, u) /\ Coded("24", -1, s, t)
      BY <2>2, <2>3, <2>4, OneIs, StepIs, SMT DEF Coded, Alike, InRange, Whole
    <2>6. Top(w, 2) = LittleEndian(u, 2) /\ Top(w, 3) = LittleEndian(t, 3)
      BY <2>1, <2>2, TopOfWord DEF u
    <2>7. /\ \E v : Top(w, 2) = LittleEndian(v, 2) /\ Coded("16", -1, s, v)
          /\ \E v : Top(w, 3) = LittleEndian(v, 3) /\ Coded("24", -1, s, v)
      BY <2>5, <2>6, Zenon
    <2>8. CASE f = "16"
      <3>1. Bytes(f) = 2
        BY <1>1, <2>8
      <3> QED BY <1>2, <2>7, <2>8, <3>1, Zenon
    <2>9. CASE f # "16"
      <3>1. Bytes(f) = 3 /\ f = "24"
        BY <1>1, <2>9
      <3> QED BY <1>2, <2>7, <3>1, Zenon
    <2> QED BY <2>8, <2>9
  <1>5. CASE s <= -One
    <2>1. w \in {Lowest, Highest}
      BY <1>2, <1>3, <1>5, Zenon DEF Times1Shl31, Lowest, Highest
    <2>2. \A v \in Int : v \in {-32768, 32767} => Coded("16", -1, s, v)
      BY <1>5, OneIs, StepIs, SMT DEF Coded, Alike, InRange, Whole
    <2>3. \A v \in Int : v \in {-8388608, 8388607} => Coded("24", -1, s, v)
      BY <1>5, OneIs, StepIs, SMT DEF Coded, Alike, InRange, Whole
    <2>4. \E v : Top(w, 2) = LittleEndian(v, 2) /\ Coded("16", -1, s, v)
      BY <2>1, <2>2, TopOfLimits, SMT
    <2>5. \E v : Top(w, 3) = LittleEndian(v, 3) /\ Coded("24", -1, s, v)
      BY <2>1, <2>3, TopOfLimits, SMT
    <2> QED BY <1>1, <1>2, <2>4, <2>5, Zenon
  <1>6. CASE s > One
    <2>1. w = Lowest
      BY <1>2, <1>3, <1>6, Zenon DEF Times1Shl31, Lowest
    <2>2. Coded("16", -1, s, -32768) /\ Coded("24", -1, s, -8388608)
      BY <1>6, OneIs, StepIs, SMT DEF Coded, Alike, InRange, Whole
    <2>3. \E v : Top(w, 2) = LittleEndian(v, 2) /\ Coded("16", -1, s, v)
      BY <2>1, <2>2, TopOfLimits, SMT
    <2>4. \E v : Top(w, 3) = LittleEndian(v, 3) /\ Coded("24", -1, s, v)
      BY <2>1, <2>2, TopOfLimits, SMT
    <2> QED BY <1>1, <1>2, <2>3, <2>4, Zenon
  <1>7. (-One < s /\ s <= One) \/ s <= -One \/ s > One
    BY OneIsNat, SMT
  <1> QED BY <1>4, <1>5, <1>6, <1>7

(* What a receptor hears of the bytes of a sample. *)
LEMMA HeardIs ==
    ASSUME NEW f \in {"16", "24"}, NEW v \in Int, -Whole(f) <= v, v < Whole(f)
    PROVE  LET b == LittleEndian(v, Bytes(f)) IN
           /\ b \in [1..Bytes(f) -> Octets]
           /\ IntToFloat(b) = Step(f) * v /\ VbanToFloat(b) = Step(f) * v
           /\ Step(f) * v \in Int
           /\ -One <= Step(f) * v /\ Step(f) * v <= One
  <1> DEFINE b == LittleEndian(v, Bytes(f))
  <1>1. CASE f = "16"
    <2>1. Bytes(f) = 2 /\ Step(f) = 256
      BY <1>1, StepIs DEF Bytes
    <2>2. b \in [1..2 -> Octets] /\ Len(b) = 2 /\ SignedOf(b) = v
      BY <1>1, <2>1, TwoBytes, SignedOfTwo, SMT DEF Whole
    <2> HIDE DEF b
    <2>3. IntToFloat(b) = v * 256 /\ VbanToFloat(b) = v * 256
      BY <2>2, OneIs, SMT DEF IntToFloat, VbanToFloat
    <2>4. /\ 256 * v \in Int /\ 256 * v = v * 256
          /\ -One <= 256 * v /\ 256 * v <= One
      BY <1>1, OneIs, SMT DEF Whole
    <2>5. b \in [1..Bytes(f) -> Octets]
      BY <2>1, <2>2
    <2>6. IntToFloat(b) = Step(f) * v /\ VbanToFloat(b) = Step(f) * v
      BY <2>1, <2>3, <2>4, SMT
    <2>7. Step(f) * v \in Int /\ -One <= Step(f) * v /\ Step(f) * v <= One
      BY <2>1, <2>4, SMT
    <2> QED BY <2>5, <2>6, <2>7 DEF b
  <1>2. CASE f = "24"
    <2>1. Bytes(f) = 3 /\ Step(f) = 1
      BY <1>2, StepIs DEF Bytes
    <2>2. b \in [1..3 -> Octets] /\ Len(b) = 3 /\ SignedOf(b) = v
      BY <1>2, <2>1, ThreeBytes, SignedOfThree, SMT DEF Whole
    <2> HIDE DEF b
    <2>3. IntToFloat(b) = v /\ VbanToFloat(b) = v
      BY <2>2, SMT DEF IntToFloat, VbanToFloat
    <2>4. /\ 1 * v \in Int /\ 1 * v = v
          /\ -One <= v /\ v <= One
      BY <1>2, OneIs, SMT DEF Whole
    <2>5. b \in [1..Bytes(f) -> Octets]
      BY <2>1, <2>2
    <2>6. IntToFloat(b) = Step(f) * v /\ VbanToFloat(b) = Step(f) * v
      BY <2>1, <2>3, <2>4, SMT
    <2>7. Step(f) * v \in Int /\ -One <= Step(f) * v /\ Step(f) * v <= One
      BY <2>1, <2>4, SMT
    <2> QED BY <2>5, <2>6, <2>7 DEF b
  <1> QED BY <1>1, <1>2

LEMMA WithinTwo == \A x : x \in -2 * One .. 2 * One <=>
                            x \in Int /\ -(2 * One) <= x /\ x <= 2 * One
  BY OneIsNat, SMT

LEMMA WithinOne == \A x : x \in -One .. One <=> x \in Int /\ InRange(x)
  BY OneIsNat, SMT DEF InRange

(* The samples and the sign. *)
LEMMA SampleIs ==
    ASSUME NEW s \in Samples
    PROVE  s \in Int /\ -(2 * One) <= s /\ s <= 2 * One
  <1>1. \A m \in Magnitudes : m \in Int /\ 0 <= m /\ m <= 2 * One
    BY MagnitudesAssumption, OneIsNat, SMT
  <1>2. \E m \in Magnitudes : s = m \/ s = -m
    BY Zenon DEF Samples
  <1>3. PICK m \in Magnitudes : s = m \/ s = -m
    BY <1>2
  <1> QED BY <1>1, <1>3, OneIs, SMT

LEMMA PolarityIs ==
    /\ Polarity \in {1, -1}
    /\ Polarity = -1 <=> from = "jack" /\ format # "float"
  BY DEF Polarity

LEMMA BytesIs == \A f \in {"16", "24"} : Bytes(f) \in Nat
  BY DEF Bytes

(* Every step keeps the invariant, one by one. *)
LEMMA PathBegins == PathInit => PathInv
  <1> SUFFICES ASSUME PathInit PROVE PathInv
    OBVIOUS
  <1>1. /\ sent \in Samples
        /\ stage = "encode" /\ data = <<>> /\ heard = 0 /\ cardbuf = <<>> /\ looped = 0
        /\ from \in {"jack", "alsa"} /\ to \in {"jack", "alsa"}
        /\ format \in Formats /\ device \in Devices
    BY Zenon DEF PathInit
  <1>2. heard \in -2 * One .. 2 * One /\ looped \in Int
    BY <1>1, OneIsNat, SMT
  <1>3. PathTypeOK
    BY <1>1, <1>2, Zenon DEF PathTypeOK
  <1>4. ~Heard
    BY <1>1 DEF Heard
  <1>5. /\ "encode" # "done" /\ "encode" \in {"encode", "decode", "play", "done"}
    OBVIOUS
  <1>6. LoopIsTrue
    BY <1>1, <1>5, Zenon DEF LoopIsTrue
  <1> QED BY <1>1, <1>3, <1>4, <1>5, <1>6, Zenon DEF PathInv

LEMMA EncodeKeeps == PathInv /\ Encode => PathInv'
  <1> SUFFICES ASSUME PathInv, Encode PROVE PathInv'
    OBVIOUS
  <1>1. /\ from \in {"jack", "alsa"} /\ to \in {"jack", "alsa"}
        /\ format \in Formats /\ device \in Devices
        /\ sent \in Samples
        /\ heard \in -2 * One .. 2 * One /\ looped \in Int
        /\ stage = "encode" /\ stage' = "decode"
    BY Zenon DEF PathInv, PathTypeOK, Encode
  <1>2. /\ from' = from /\ to' = to /\ format' = format /\ device' = device
        /\ sent' = sent /\ heard' = heard /\ cardbuf' = cardbuf /\ looped' = looped
    BY Zenon DEF Encode, path
  <1>3. cardbuf = <<>>
    BY <1>1, Zenon DEF PathInv, Heard
  <1>4. Polarity' = Polarity
    BY <1>2, Zenon DEF Polarity
  <1>5. format # "float" =>
          \E v : data' = LittleEndian(v, Bytes(format)) /\ Coded(format, Polarity, sent, v)
    <2> SUFFICES ASSUME format # "float"
                 PROVE  \E v : /\ data' = LittleEndian(v, Bytes(format))
                               /\ Coded(format, Polarity, sent, v)
      OBVIOUS
    <2>1. /\ format \in {"16", "24"} /\ sent \in Int
          /\ -2 * One <= sent /\ sent <= 2 * One
      <3>1. -(2 * One) = -2 * One
        BY OneIs, SMT
      <3> QED BY <1>1, <3>1, SampleIs DEF Formats
    <2>2. CASE from = "jack"
      <3>1. data' \in FloatToInt(format, sent) /\ Polarity = -1
        BY <2>2, PolarityIs, Zenon DEF Encode
      <3> QED BY <2>1, <3>1, JackCodes, Zenon
    <2>3. CASE from = "alsa"
      <3>1. from # "jack"
        BY <2>3
      <3>2. data' = FloatToVban(format, sent) /\ Polarity = 1
        BY <3>1, Zenon DEF Encode, Polarity
      <3> QED BY <2>1, <3>2, UtilityCodes, Zenon
    <2> QED BY <1>1, <2>2, <2>3
  <1>6. IF format = "float" THEN data' = sent ELSE data' \in [1..Bytes(format) -> 0..255]
    <2>1. CASE format = "float"
      BY <2>1, Zenon DEF Encode
    <2>2. CASE format # "float"
      <3>1. format \in {"16", "24"}
        BY <1>1, <2>2 DEF Formats
      <3>2. PICK v : /\ data' = LittleEndian(v, Bytes(format))
                     /\ Coded(format, Polarity, sent, v)
        BY <1>5, <2>2
      <3>3. v \in Int /\ -Whole(format) <= v /\ v < Whole(format)
        BY <3>2, Zenon DEF Coded
      <3>4. data' \in [1..Bytes(format) -> Octets]
        BY <3>1, <3>2, <3>3, HeardIs, Zenon
      <3> QED BY <2>2, <3>4, Zenon DEF Octets
    <2> QED BY <2>1, <2>2
  <1>7. PathTypeOK'
    <2>1. ("decode" \in {"encode", "decode", "play", "capture", "done"}) /\ "decode" # "encode"
      OBVIOUS
    <2> QED BY <1>1, <1>2, <1>3, <1>6, <2>1, Zenon DEF PathTypeOK
  <1>8. ~Heard' /\ "decode" # "encode" /\ "decode" # "done"
    BY <1>1 DEF Heard
  <1>9. LoopIsTrue'
    BY <1>1, <1>8, Zenon DEF LoopIsTrue
  <1> QED BY <1>1, <1>2, <1>3, <1>4, <1>5, <1>7, <1>8, <1>9, Zenon DEF PathInv

LEMMA DecodeKeeps == PathInv /\ Decode => PathInv'
  <1> SUFFICES ASSUME PathInv, Decode PROVE PathInv'
    OBVIOUS
  <1>1. /\ from \in {"jack", "alsa"} /\ to \in {"jack", "alsa"}
        /\ format \in Formats /\ device \in Devices
        /\ sent \in Samples /\ looped \in Int
        /\ stage = "decode" /\ stage' = IF to = "alsa" THEN "play" ELSE "done"
    BY Zenon DEF PathInv, PathTypeOK, Decode
  <1>2. /\ from' = from /\ to' = to /\ format' = format /\ device' = device
        /\ sent' = sent /\ data' = data /\ cardbuf' = cardbuf /\ looped' = looped
    BY Zenon DEF Decode, path
  <1>3. stage # "encode" /\ ~Heard
    BY <1>1 DEF Heard
  <1>4. cardbuf = <<>>
    BY <1>3, Zenon DEF PathInv
  <1>5. Polarity' = Polarity
    BY <1>2, Zenon DEF Polarity
  <1>6. sent \in Int /\ -(2 * One) <= sent /\ sent <= 2 * One
    BY <1>1, SampleIs
  <1>7. /\ heard' \in Int /\ -(2 * One) <= heard' /\ heard' <= 2 * One
        /\ Alike(format, Polarity, sent, heard')
    <2>1. CASE format = "float"
      <3>1. heard' = sent /\ Polarity = 1
        BY <1>3, <2>1, Zenon DEF Decode, Polarity, PathInv, PathTypeOK
      <3>2. Alike("float", 1, sent, sent)
        BY <1>6, OneIs, StepIs, SMT DEF Alike
      <3> QED BY <1>6, <2>1, <3>1, <3>2, Zenon
    <2>2. CASE format # "float"
      <3>1. format \in {"16", "24"}
        BY <1>1, <2>2 DEF Formats
      <3>2. PICK v : /\ data = LittleEndian(v, Bytes(format))
                     /\ Coded(format, Polarity, sent, v)
        BY <1>3, <2>2, Zenon DEF PathInv
      <3>3. v \in Int /\ -Whole(format) <= v /\ v < Whole(format)
        BY <3>2, Zenon DEF Coded
      <3>4. /\ IntToFloat(data) = Step(format) * v /\ VbanToFloat(data) = Step(format) * v
            /\ Step(format) * v \in Int
            /\ -One <= Step(format) * v /\ Step(format) * v <= One
        BY <3>1, <3>2, <3>3, HeardIs, Zenon
      <3>5. heard' = Step(format) * v
        BY <2>2, <3>4, Zenon DEF Decode
      <3>6. Alike(format, Polarity, sent, heard')
        BY <3>2, <3>5, Zenon DEF Coded
      <3>7. heard' \in Int /\ -(2 * One) <= heard' /\ heard' <= 2 * One
        BY <3>4, <3>5, OneIs, SMT
      <3> QED BY <3>6, <3>7
    <2> QED BY <2>1, <2>2
  <1>8. heard' \in -2 * One .. 2 * One
    BY <1>7, WithinTwo, Zenon
  <1>9. stage' \in {"play", "done"} /\ (stage' = "done" => to # "alsa")
    BY <1>1
  <1>10. /\ stage' \in {"encode", "decode", "play", "capture", "done"}
         /\ stage' # "encode" /\ stage' \in {"encode", "decode", "play", "done"}
    BY <1>9
  <1>11. PathTypeOK'
    BY <1>1, <1>2, <1>3, <1>4, <1>8, <1>10, Zenon DEF PathTypeOK, PathInv
  <1>12. LoopIsTrue'
    BY <1>2, <1>9, Zenon DEF LoopIsTrue
  <1>13. format # "float" =>
           \E v : data = LittleEndian(v, Bytes(format)) /\ Coded(format, Polarity, sent, v)
    BY <1>3, Zenon DEF PathInv
  <1> QED
    BY <1>2, <1>4, <1>5, <1>7, <1>9, <1>10, <1>11, <1>12, <1>13, Zenon DEF PathInv

LEMMA PlayedIsInt ==
    ASSUME NEW d \in Devices, NEW s \in Int, -(2 * One) <= s, s <= 2 * One
    PROVE  Played(d, s) \in Int
  <1>1. PlayInt16(s) \in Int /\ PlayInt24(s) \in Int
    BY PlayInt16Is, PlayInt24Is, OneIs, SMT
  <1> QED BY <1>1 DEF Played

LEMMA NearIs ==
    ASSUME NEW a \in Int, NEW b \in Int, NEW d \in Int
    PROVE  Near(a, b, d) <=> -d <= a - b /\ a - b <= d
  BY SMT DEF Near

LEMMA PlayKeeps == PathInv /\ PlaySample => PathInv'
  <1> SUFFICES ASSUME PathInv, PlaySample PROVE PathInv'
    OBVIOUS
  <1>1. /\ from \in {"jack", "alsa"} /\ to \in {"jack", "alsa"}
        /\ format \in Formats /\ device \in Devices
        /\ sent \in Samples /\ looped \in Int
        /\ heard \in -2 * One .. 2 * One
        /\ stage = "play" /\ stage' = "capture"
        /\ cardbuf' = PlayFunc(device, heard)
    BY Zenon DEF PathInv, PathTypeOK, PlaySample
  <1>2. /\ from' = from /\ to' = to /\ format' = format /\ device' = device
        /\ sent' = sent /\ data' = data /\ heard' = heard /\ looped' = looped
    BY Zenon DEF PlaySample, path
  <1>3. stage # "encode" /\ Heard /\ Heard'
    BY <1>1 DEF Heard
  <1>4. Polarity' = Polarity
    BY <1>2, Zenon DEF Polarity
  <1>5. PlayFunc(device, heard) \in [1..device.width -> Octets]
    BY <1>1, WithinTwo, CardReadsBack, Zenon
  <1>6. PlayFunc(device, heard) # <<>>
    <2>1. 1 \in 1..device.width
      BY <1>1 DEF Devices
    <2>2. 1 \notin DOMAIN <<>>
      OBVIOUS
    <2> QED BY <1>5, <2>1, <2>2
  <1>7. /\ stage' # "encode" /\ stage' # "done"
        /\ stage' \in {"encode", "decode", "play", "capture", "done"}
    BY <1>1
  <1>8. PathTypeOK'
    BY <1>1, <1>2, <1>3, <1>5, <1>7, Zenon DEF PathTypeOK, PathInv, Octets
  <1>9. LoopIsTrue'
    BY <1>7, Zenon DEF LoopIsTrue
  <1>10. format # "float" =>
           \E v : data = LittleEndian(v, Bytes(format)) /\ Coded(format, Polarity, sent, v)
    BY <1>3, Zenon DEF PathInv
  <1>11. Alike(format, Polarity, sent, heard)
    BY <1>3, Zenon DEF PathInv
  <1> QED BY <1>1, <1>2, <1>3, <1>4, <1>6, <1>7, <1>8, <1>9, <1>10, <1>11, Zenon DEF PathInv

LEMMA CaptureKeeps == PathInv /\ CaptureSample => PathInv'
  <1> SUFFICES ASSUME PathInv, CaptureSample PROVE PathInv'
    OBVIOUS
  <1>1. /\ from \in {"jack", "alsa"} /\ to \in {"jack", "alsa"}
        /\ format \in Formats /\ device \in Devices
        /\ sent \in Samples /\ heard \in -2 * One .. 2 * One
        /\ cardbuf = <<>> \/ cardbuf \in [1..device.width -> 0..255]
        /\ stage = "capture" /\ stage' = "done"
        /\ looped' \in CaptFunc(device, cardbuf)
    BY Zenon DEF PathInv, PathTypeOK, CaptureSample
  <1>2. /\ from' = from /\ to' = to /\ format' = format /\ device' = device
        /\ sent' = sent /\ data' = data /\ heard' = heard /\ cardbuf' = cardbuf
    BY Zenon DEF CaptureSample, path
  <1>3. stage # "encode" /\ Heard /\ Heard' /\ stage \notin {"encode", "decode", "play", "done"}
    BY <1>1 DEF Heard
  <1>4. Polarity' = Polarity
    BY <1>2, Zenon DEF Polarity
  <1>5. cardbuf # <<>> /\ cardbuf = PlayFunc(device, heard)
    BY <1>3, Zenon DEF PathInv
  <1> DEFINE v == Played(device, heard)
             w == device.width
  <1>6. heard \in Int /\ -(2 * One) <= heard /\ heard <= 2 * One
    BY <1>1, WithinTwo, Zenon
  <1>7. v \in Int
    BY <1>1, <1>6, PlayedIsInt, Zenon
  <1>8. SignedOf(Top(Ordered(device, cardbuf), IF w = 2 THEN 2 ELSE 3)) = v
    BY <1>1, <1>5, <1>6, CardReadsBack, Zenon
  <1>9. looped' \in IF w = 2 THEN {256 * v + q : q \in Quotient(256 * v, 32767)}
                             ELSE {v + q : q \in Quotient(v, One - 1)}
    <2> HIDE DEF v
    <2>1. CASE w = 2
      <3>1. IF w = 2 THEN w = 2 ELSE w = 3
        BY <2>1
      <3> QED BY <1>1, <1>8, <2>1, SMT DEF CaptFunc
    <2>2. CASE w # 2
      BY <1>1, <1>8, <2>2, SMT DEF CaptFunc
    <2> QED BY <2>1, <2>2
  <1> DEFINE d == IF w = 2 THEN 2 ^ 8 + 1 ELSE 2
  <1>10. /\ looped' \in Int /\ d \in Int
         /\ InRange(heard) => /\ -d <= looped' - heard /\ looped' - heard <= d
                              /\ heard = 0 => looped' = 0
    <2> SUFFICES /\ looped' \in Int /\ d \in Int
                 /\ -One <= heard /\ heard <= One =>
                      /\ -d <= looped' - heard /\ looped' - heard <= d
                      /\ heard = 0 => looped' = 0
      BY Zenon DEF InRange
    <2>1. CASE w = 2
      <3>1. v = PlayInt16(heard) /\ d = 257
        BY <2>1, SMT DEF Played
      <3> HIDE DEF v, d
      <3>2. PICK q \in Quotient(256 * v, 32767) : looped' = 256 * v + q
        BY <1>9, <2>1, SMT
      <3>3. q \in Int /\ 256 * v - 32767 < 32767 * q /\ 32767 * q < 256 * v + 32767
        <4>1. 256 * v \in Int
          BY <1>7, SMT
        <4> QED BY <4>1, QuotientIs, SMT
      <3> QED BY <1>6, <1>7, <3>1, <3>2, <3>3, Loop16, SMT
    <2>2. CASE w # 2
      <3>1. v = PlayInt24(heard) /\ d = 2
        BY <2>2 DEF Played
      <3> HIDE DEF v, d
      <3>2. PICK q \in Quotient(v, One - 1) : looped' = v + q
        BY <1>9, <2>2, SMT
      <3>3. q \in Int /\ v - 8388607 < 8388607 * q /\ 8388607 * q < v + 8388607
        BY <1>7, OneIs, QuotientIs, SMT
      <3> QED BY <1>6, <1>7, <3>1, <3>2, <3>3, Loop24, SMT
    <2> QED BY <2>1, <2>2
  <1>11. InRange(heard) => Near(looped', heard, d)
    <2> HIDE DEF v, d
    <2> QED BY <1>6, <1>10, NearIs, Zenon
  <1> HIDE DEF v
  <1>12. LoopIsTrue'
    BY <1>2, <1>10, <1>11, WithinOne, Zenon DEF LoopIsTrue
  <1>13. /\ stage' # "encode"
         /\ stage' \in {"encode", "decode", "play", "capture", "done"}
    BY <1>1
  <1>14. PathTypeOK'
    BY <1>1, <1>2, <1>3, <1>10, <1>13, Zenon DEF PathTypeOK, PathInv
  <1>15. format # "float" =>
           \E u : data = LittleEndian(u, Bytes(format)) /\ Coded(format, Polarity, sent, u)
    BY <1>3, Zenon DEF PathInv
  <1>16. Alike(format, Polarity, sent, heard)
    BY <1>3, Zenon DEF PathInv
  <1> QED BY <1>2, <1>3, <1>4, <1>5, <1>12, <1>13, <1>14, <1>15, <1>16, Zenon DEF PathInv

LEMMA StandingStill == PathInv /\ UNCHANGED pathVars => PathInv'
  <1> SUFFICES ASSUME PathInv, UNCHANGED pathVars PROVE PathInv'
    OBVIOUS
  <1>1. /\ from' = from /\ to' = to /\ format' = format /\ device' = device
        /\ stage' = stage /\ sent' = sent /\ data' = data /\ heard' = heard
        /\ cardbuf' = cardbuf /\ looped' = looped
    BY Zenon DEF pathVars
  <1>2. Polarity' = Polarity /\ Heard' = Heard
    BY <1>1, Zenon DEF Polarity, Heard
  <1>3. PathTypeOK' = PathTypeOK
    BY <1>1, Zenon DEF PathTypeOK
  <1>4. LoopIsTrue' = LoopIsTrue
    BY <1>1, Zenon DEF LoopIsTrue
  <1> QED BY <1>1, <1>2, <1>3, <1>4, Zenon DEF PathInv

LEMMA PathSteps == PathInv /\ [PathNext]_pathVars => PathInv'
  BY EncodeKeeps, DecodeKeeps, PlayKeeps, CaptureKeeps, StandingStill, Zenon
  DEF PathNext, Done

(* What the invariant implies. *)
LEMMA PathHears == PathInv => HeardAsSent
  <1> SUFFICES ASSUME PathInv, Heard, sent \in -One .. One,
                      ~(Polarity = -1 /\ sent = -One)
               PROVE  Near(heard, Polarity * sent, 2 * Step(format))
    BY Zenon DEF HeardAsSent
  <1>1. InRange(sent) /\ sent \in Int /\ heard \in Int /\ format \in Formats
    BY WithinOne, WithinTwo, Zenon DEF PathInv, PathTypeOK
  <1>2. /\ -(2 * Step(format)) <= heard - Polarity * sent
        /\ heard - Polarity * sent <= 2 * Step(format)
    BY <1>1, Zenon DEF PathInv, Alike
  <1> DEFINE x == Polarity * sent
             y == Step(format)
  <1>3. x \in Int
    BY <1>1, PolarityIs, SMT
  <1>4. y \in Int
    BY <1>1, StepIs, SMT DEF Formats
  <1> HIDE DEF x, y
  <1>5. -(2 * y) <= heard - x /\ heard - x <= 2 * y
    BY <1>2, Zenon DEF x, y
  <1>6. Near(heard, x, 2 * y)
    BY <1>1, <1>3, <1>4, <1>5, SMT DEF Near
  <1> QED BY <1>6, Zenon DEF x, y

LEMMA PathDoesNotWrap == PathInv => CardDoesNotWrap
  <1> SUFFICES ASSUME PathInv, cardbuf # <<>> PROVE CardDoesNotWrap
    BY SMT DEF CardDoesNotWrap
  <1>1. /\ heard \in Int /\ -(2 * One) <= heard /\ heard <= 2 * One
        /\ device \in Devices /\ cardbuf = PlayFunc(device, heard) /\ sent \in Samples
        /\ Alike(format, Polarity, sent, heard)
    BY WithinTwo, Zenon DEF PathInv, PathTypeOK
  <1> DEFINE v == Played(device, heard)
             w == device.width
  <1>2. SignedOf(Top(Ordered(device, cardbuf), IF w = 2 THEN 2 ELSE 3)) = v
    BY <1>1, CardReadsBack, Zenon
  <1>3. v \in Int
    BY <1>1, PlayedIsInt, Zenon
  <1> DEFINE m == IF w = 2 THEN 32765 ELSE One - 600
  <1>4. /\ heard >= One - 256 => v >= m
        /\ -heard >= One - 256 => v <= -m
        /\ heard >= 0 => v >= 0
        /\ heard <= 0 => v <= 0
    <2>1. CASE w = 2
      <3>1. v = PlayInt16(heard)
        BY <2>1 DEF Played
      <3> HIDE DEF v
      <3> QED BY <1>1, <2>1, <3>1, PlayInt16Is, SMT
    <2>2. CASE w # 2
      <3>1. v = PlayInt24(heard)
        BY <2>2 DEF Played
      <3> HIDE DEF v
      <3> QED BY <1>1, <2>2, <3>1, PlayInt24Is, SMT
    <2> QED BY <2>1, <2>2
  <1>5. m \in Int /\ sent \in Int
    <2>1. m \in Int
      BY OneIs, SMT
    <2> QED BY <1>1, <2>1, SampleIs
  <1> DEFINE Turned == Polarity = -1 /\ sent <= -One
  <1>6. Wraps <=> Turned
    BY DEF Wraps
  <1> HIDE DEF v, m
  <1>7. /\ ~Turned => /\ Polarity * sent >= 0 => v >= 0
                      /\ Polarity * sent <= 0 => v <= 0
        /\ sent >= One => Polarity * v >= m
        /\ sent <= -One => Polarity * v <= -m \/ (Turned /\ v <= -m)
    <2>1. CASE Polarity = 1
      <3>1. Alike(format, 1, sent, heard)
        BY <1>1, <2>1
      <3>2. /\ (1 * sent >= 0 => heard >= 0) /\ (1 * sent <= 0 => heard <= 0)
            /\ sent >= One => 1 * heard >= One - 256
            /\ sent <= -One => 1 * heard <= -(One - 256)
        BY <3>1, SMT DEF Alike
      <3> QED BY <1>1, <1>3, <1>4, <1>5, <2>1, <3>2, OneIs, SMT
    <2>2. CASE Polarity = -1
      <3>1. Alike(format, -1, sent, heard)
        BY <1>1, <2>2
      <3>2. /\ ~(sent <= -One) => ((-1) * sent >= 0 => heard >= 0) /\ ((-1) * sent <= 0 => heard <= 0)
            /\ sent >= One => (-1) * heard >= One - 256
            /\ sent <= -One => (-1) * heard <= -(One - 256) \/ heard <= -(One - 256)
        BY <3>1, SMT DEF Alike
      <3> QED BY <1>1, <1>3, <1>4, <1>5, <2>2, <3>2, OneIs, SMT
    <2> QED BY <2>1, <2>2, PolarityIs
  <1> QED BY <1>2, <1>6, <1>7, SMT DEF CardDoesNotWrap, m

LEMMA PathWidens == PathInv => WideningIsLossless
  <1> SUFFICES ASSUME PathInv, stage = "decode", format # "float",
                      NEW dst \in {"8", "16", "24", "32"}, Bytes(dst) >= Bytes(format)
               PROVE  IntToInt(format, IntToInt(dst, data)) = data
    BY Zenon DEF WideningIsLossless
  <1>1. format \in {"16", "24"} /\ stage # "encode"
    BY DEF PathInv, PathTypeOK, Formats
  <1>2. data \in [1..Bytes(format) -> Octets]
    BY <1>1, Zenon DEF PathInv, PathTypeOK, Octets
  <1> QED BY <1>1, <1>2, WideIsLossless, Zenon

LEMMA PathInvariant == PathSpec => []PathInv
  <1>1. PathInit => PathInv
    BY PathBegins
  <1>2. PathInv /\ [PathNext]_pathVars => PathInv'
    BY PathSteps
  <1> QED BY <1>1, <1>2, PTL DEF PathSpec

(* Every sample a program can start with, not only those of the run, is    *)
(* heard as it was sent, between any two of the programs and in every      *)
(* format: but for the sign of the JACK and PipeWire emitters and less     *)
(* than two steps of the format (vban_functions.h:308-448, main.cpp:27-78).*)
THEOREM EverySampleIsHeard == PathSpec => []HeardAsSent
  BY PathInvariant, PathHears, PTL

(* For every sample: what the card plays is clipped and never wraps around,*)
(* what is captured of it is true to a step of the card, and widening a    *)
(* sample of a packet loses nothing of it (vban_functions.h:279-411,       *)
(* main.cpp:37, 46, zita-alsa-pcmi.cc:847-1086).                           *)
THEOREM EverySampleConverts == PathSpec => []ConversionInv
  <1>1. PathInv => ConversionInv
    BY PathDoesNotWrap, PathWidens, Zenon DEF PathInv, ConversionInv
  <1> QED BY <1>1, PathInvariant, PTL

=============================================================================
