------------------------------- MODULE AlsaPcm -------------------------------
(***************************************************************************)
(* The sound card of the ALSA utility: the class Alsa_pcmi                 *)
(* (src/vban_alsa_util/zita-alsa-pcmi.cc) and the audio loop of main that  *)
(* uses it (main.cpp:375-383, 608-683).  A playback and a capture stream   *)
(* are opened, usually linked, primed and started; pcm_wait waits until    *)
(* both have a period; recover starts them again after an xrun.  The loop  *)
(* takes no notice of what pcm_wait, pcm_start and capt_init return.       *)
(*                                                                         *)
(* The two streams of libasound, which are external, are a state and a     *)
(* number of periods each; the card moves whole periods.  A commit of more *)
(* than is available is refused, as in a library built with its checks.    *)
(***************************************************************************)
EXTENDS Integers

CONSTANTS
    nfrag,       \* periods of a buffer: nperiods, 3 in main
    MaxFaults    \* bound of the runs: calls of libasound that fail, streams
                 \* that stop for other reasons than an xrun

ASSUME NfragAssumption == nfrag \in Nat \ {0, 1}
ASSUME MaxFaultsAssumption == MaxFaults \in Nat

VARIABLES
    pc,
    play_handle, capt_handle,   \* the stream is open
    linked,                     \* _synced
    state,                      \* _state: "FAIL" or "OPEN"
    params,                     \* parameters set: stream, "hw" or "sw"
    play, capt,                 \* external: "setup", "prepared", "running",
                                \* or "stopped" by an xrun or otherwise
    queued,                     \* external: periods in the playback buffer
    avail,                      \* external: periods in the capture buffer
    need_play, need_capt,       \* locals of pcm_wait
    frames,                     \* its result: periods, capped at nfrag
    faults,                     \* calls that failed
    cut                         \* history: pcm_wait returned early

handles == <<play_handle, capt_handle, linked, params>>
card == <<play, capt, queued, avail>>
waiting == <<need_play, need_capt>>
vars == <<pc, play_handle, capt_handle, linked, state, params, play, capt,
          queued, avail, need_play, need_capt, frames, faults, cut>>

Streams == {"play", "capt"}
StreamStates == {"setup", "prepared", "running", "stopped"}

TypeOK ==
    /\ pc \in {"open", "ctrl", "params", "checkplay", "checkcapt", "count", "start",
               "wait", "poll", "update", "capture", "play", "exit"}
    /\ play_handle \in BOOLEAN /\ capt_handle \in BOOLEAN /\ linked \in BOOLEAN
    /\ state \in {"FAIL", "OPEN"} /\ params \subseteq Streams \X {"hw", "sw"}
    /\ play \in StreamStates /\ capt \in StreamStates
    /\ queued \in 0..nfrag /\ avail \in 0..nfrag
    /\ need_play \in BOOLEAN /\ need_capt \in BOOLEAN
    /\ frames \in 0..nfrag
    /\ faults \in 0..MaxFaults /\ cut \in BOOLEAN

Init ==
    /\ pc = "open"
    /\ play_handle = FALSE /\ capt_handle = FALSE /\ linked = FALSE
    /\ state = "FAIL" /\ params = {}
    /\ play = "setup" /\ capt = "setup" /\ queued = 0 /\ avail = 0
    /\ need_play = FALSE /\ need_capt = FALSE
    /\ frames = 0 /\ faults = 0 /\ cut = FALSE

(* A call of libasound fails. *)
Fault == faults < MaxFaults /\ faults' = faults + 1
NoFault == UNCHANGED faults

-----------------------------------------------------------------------------
(* Alsa_pcmi::initialise.  _state is FAIL until its last line, so that     *)
(* every early return leaves a device main does not use.                   *)

Opened ==
    (IF play_handle THEN {"play"} ELSE {}) \cup (IF capt_handle THEN {"capt"} ELSE {})

(* A defect used to test the properties: initialise goes on. *)
GoOn ==
    /\ pc' = CASE pc = "ctrl" -> "params" [] pc = "params" -> "checkplay"
             [] pc = "checkplay" -> "checkcapt" [] pc = "checkcapt" -> "count"
             [] OTHER -> "start"
    /\ UNCHANGED <<handles, state, card, waiting, frames, cut>>

(* initialise returns, and main gives up. *)
GiveUp ==
    /\ pc' = "exit"
    /\ UNCHANGED <<handles, state, card, waiting, frames, cut>>

(* snd_pcm_open of the two names: an empty one, or one that cannot be      *)
(* opened, leaves no handle, which is an error only if it is true of both. *)
OpenStreams ==
    /\ pc = "open"
    /\ play_handle' \in BOOLEAN /\ capt_handle' \in BOOLEAN
    /\ pc' = IF play_handle' \/ capt_handle' THEN "ctrl" ELSE "exit"
    /\ UNCHANGED <<linked, state, params, card, waiting, frames, faults, cut>>

(* The control device. *)
OpenControl ==
    /\ pc = "ctrl"
    /\ \/ Fault /\ GiveUp
       \/ /\ NoFault
          /\ pc' = "params"
          /\ UNCHANGED <<handles, state, card, waiting, frames, cut>>

(* set_hwpar and set_swpar: the first call that fails ends them. *)
SetHwpar(s) ==
    /\ <<s, "hw">> \notin params
    /\ params' = params \cup {<<s, "hw">>}
SetSwpar(s) ==
    /\ <<s, "hw">> \in params
    /\ params' = params \cup {<<s, "sw">>}

(* Of the open streams, playback first. *)
SetParams(s) ==
    /\ pc = "params"
    /\ s \in Opened /\ <<s, "sw">> \notin params
    /\ s = "capt" /\ play_handle => <<"play", "sw">> \in params
    /\ \/ Fault /\ GiveUp
       \/ /\ NoFault
          /\ SetHwpar(s) \/ SetSwpar(s)
          /\ pc' = IF params' = Opened \X {"hw", "sw"} THEN "checkplay" ELSE "params"
          /\ UNCHANGED <<play_handle, capt_handle, linked, state, card, waiting,
                         frames, cut>>

(* Rate, period, periods and format are those asked for. *)
CheckPlay ==
    /\ pc = "checkplay"
    /\ \/ play_handle /\ Fault /\ GiveUp
       \/ /\ NoFault
          /\ pc' = "checkcapt"
          /\ UNCHANGED <<handles, state, card, waiting, frames, cut>>

(* The same, and the two streams are linked if they can be. *)
CheckCapt ==
    /\ pc = "checkcapt"
    /\ \/ capt_handle /\ Fault /\ GiveUp
       \/ /\ NoFault
          /\ IF play_handle /\ capt_handle THEN linked' \in BOOLEAN
                                           ELSE linked' = FALSE
          /\ pc' = "count"
          /\ UNCHANGED <<play_handle, capt_handle, params, state, card, waiting,
                         frames, cut>>

(* There are not too many descriptors, and the device is open. *)
Ready ==
    /\ pc = "count"
    /\ \/ Fault /\ GiveUp
       \/ /\ NoFault
          /\ state' = "OPEN"
          /\ pc' = "start"
          /\ UNCHANGED <<handles, card, waiting, frames, cut>>

-----------------------------------------------------------------------------
(* pcm_start, pcm_stop, recover. *)

(* A defect used to test the properties: the buffer is not filled. *)
FillNothing == 0

(* Periods of silence in the buffer when playback starts. *)
FillAll == nfrag

(* Playback prepared, filled with silence and started; a linked capture    *)
(* stream goes with it, another one is prepared and started after it.      *)
Started ==
    /\ play' = IF play_handle THEN "running" ELSE play
    /\ queued' = IF play_handle THEN FillAll ELSE queued
    /\ capt' = IF capt_handle THEN "running" ELSE capt
    /\ avail' = IF capt_handle THEN 0 ELSE avail

(* A call fails: with playback neither running nor capture, or, if they    *)
(* are not linked, with capture alone behind.                              *)
NotStarted ==
    /\ state' = "FAIL"
    /\ avail' = 0
    /\ \/ /\ play_handle
          /\ play' \in {"setup", "prepared"} /\ queued' \in {0, FillAll}
          /\ capt' = IF linked THEN play' ELSE "setup"
       \/ /\ capt_handle /\ ~linked
          /\ play' = IF play_handle THEN "running" ELSE play
          /\ queued' = IF play_handle THEN FillAll ELSE queued
          /\ capt' \in {"setup", "prepared"}

PcmStart == \/ Started /\ NoFault /\ UNCHANGED state
            \/ NotStarted /\ Fault

(* A defect used to test the properties: the error is ignored. *)
RecoverNothing == NoFault /\ UNCHANGED <<state, card>>

(* pcm_stop fails. *)
NotStopped == Fault /\ state' = "FAIL" /\ UNCHANGED card

(* recover: pcm_stop, and pcm_start unless that failed. *)
Recover == PcmStart \/ NotStopped

(* main does not look at the result of pcm_start. *)
Start ==
    /\ pc = "start"
    /\ PcmStart
    /\ pc' = "wait"
    /\ UNCHANGED <<handles, waiting, frames, cut>>

-----------------------------------------------------------------------------
(* pcm_wait *)

Return(n) == frames' = n /\ pc' = "capture"
ReturnEarly == Return(0) /\ cut' = TRUE

(* A device that failed is not waited for. *)
WaitFailed ==
    /\ pc = "wait" /\ state # "OPEN"
    /\ ReturnEarly
    /\ UNCHANGED <<handles, state, card, waiting, faults>>

WaitBegin ==
    /\ pc = "wait" /\ state = "OPEN"
    /\ need_play' = play_handle /\ need_capt' = capt_handle
    /\ cut' = FALSE
    /\ pc' = "poll"
    /\ UNCHANGED <<handles, state, card, frames, faults>>

PlayReady == play = "running" /\ queued < nfrag
CaptReady == capt = "running" /\ avail > 0
PlayError == play # "running"
CaptError == capt # "running"

(* A defect used to test the properties: one of the streams is enough. *)
Either(p, c) == p /\ c

(* The loop goes on while one of them is needed. *)
Any(p, c) == p \/ c

(* poll wakes up for a stream that has a period or an error. *)
Poll ==
    /\ pc = "poll"
    /\ \/ need_play /\ (PlayReady \/ PlayError)
       \/ need_capt /\ (CaptReady \/ CaptError)
    /\ IF (need_play /\ PlayError) \/ (need_capt /\ CaptError)
         THEN /\ Recover
              /\ ReturnEarly
              /\ UNCHANGED waiting
         ELSE /\ need_play' = (need_play /\ ~PlayReady)
              /\ need_capt' = (need_capt /\ ~CaptReady)
              /\ pc' = IF Any(need_play', need_capt') THEN "poll" ELSE "update"
              /\ UNCHANGED <<state, card, frames, faults, cut>>
    /\ UNCHANGED handles

(* A signal, or nothing for a second. *)
PollInterrupted ==
    /\ pc = "poll"
    /\ ReturnEarly
    /\ UNCHANGED <<handles, state, card, waiting, faults>>

AtMost(a, b) == IF a < b THEN a ELSE b

(* snd_pcm_avail_update of both. *)
Update ==
    /\ pc = "update"
    /\ IF (play_handle /\ PlayError) \/ (capt_handle /\ CaptError)
         THEN Recover /\ ReturnEarly
         ELSE /\ Return(AtMost(IF capt_handle THEN avail ELSE nfrag,
                               IF play_handle THEN nfrag - queued ELSE nfrag))
              /\ UNCHANGED <<state, card, faults, cut>>
    /\ UNCHANGED <<handles, waiting>>

-----------------------------------------------------------------------------
(* The loop of main. *)

CaptTakes == capt_handle /\ CaptReady

(* capt_init, capt_chan, capt_done. *)
Capture ==
    /\ pc = "capture"
    /\ avail' = IF CaptTakes THEN avail - 1 ELSE avail
    /\ pc' = "play"
    /\ UNCHANGED <<handles, state, play, capt, queued, waiting, frames, faults, cut>>

PlayTakes == play_handle /\ play \in {"prepared", "running"} /\ queued < nfrag

(* play_init, play_chan, play_done. *)
Play ==
    /\ pc = "play"
    /\ queued' = IF PlayTakes THEN queued + 1 ELSE queued
    /\ frames' = 0
    /\ pc' = "wait"
    /\ UNCHANGED <<handles, state, play, capt, avail, waiting, faults, cut>>

Program ==
    \/ OpenStreams \/ OpenControl \/ (\E s \in Streams : SetParams(s))
    \/ CheckPlay \/ CheckCapt \/ Ready
    \/ Start
    \/ WaitFailed \/ WaitBegin \/ Poll \/ PollInterrupted \/ Update
    \/ Capture \/ Play

-----------------------------------------------------------------------------
(* External: the card. *)

(* One period of both, or of one if they are not linked.  A stream stops   *)
(* when it has nothing left to play or no room to capture; so does a       *)
(* stream linked to it.                                                    *)
Tick(streams) ==
    LET plays == "play" \in streams /\ play = "running"
        captures == "capt" \in streams /\ capt = "running"
        under == plays /\ queued = 0
        over == captures /\ avail = nfrag
        ends == under \/ over
    IN /\ plays \/ captures
       /\ play' = IF under \/ (ends /\ linked) THEN "stopped" ELSE play
       /\ capt' = IF over \/ (ends /\ linked) THEN "stopped" ELSE capt
       /\ queued' = IF plays /\ ~ends THEN queued - 1 ELSE queued
       /\ avail' = IF captures /\ ~ends THEN avail + 1 ELSE avail

(* The card goes away or is suspended. *)
Stop(streams) ==
    /\ Fault
    /\ play' = IF "play" \in streams /\ play_handle THEN "stopped" ELSE play
    /\ capt' = IF "capt" \in streams /\ capt_handle THEN "stopped" ELSE capt
    /\ UNCHANGED <<queued, avail>>

Groups == IF linked THEN {Streams} ELSE {{"play"}, {"capt"}}

CardMoves == (\E g \in Groups : Tick(g)) /\ NoFault
CardStops == \E g \in Groups : Stop(g)

Playing == pc \in {"wait", "poll", "update", "capture", "play"}
Others == <<pc, handles, state, waiting, frames, cut>>

CardNext == Playing /\ (CardMoves \/ CardStops) /\ UNCHANGED Others

(* main has left. *)
Terminated == pc = "exit" /\ UNCHANGED vars

Next == Program \/ CardNext \/ Terminated

(* The program runs, signals do not come for ever, and the card moves.     *)
Fairness ==
    /\ WF_vars(Program)
    /\ SF_vars(Poll)
    /\ WF_vars(Playing /\ CardMoves /\ UNCHANGED Others)

Spec == Init /\ [][Next]_vars /\ Fairness

-----------------------------------------------------------------------------
(* Properties. *)

(* A pcm_wait that is not cut short by a signal, an error or a failed      *)
(* device tells of a period, and capture and playback each have one when   *)
(* main comes to them: the card goes on moving, but only a stream that has *)
(* stopped can take it back (zita-alsa-pcmi.cc:173-243).                   *)
WaitedMeansReady ==
    pc \in {"capture", "play"} /\ ~cut =>
      /\ frames > 0
      /\ pc = "capture" /\ capt_handle => CaptReady \/ CaptError
      /\ play_handle => PlayReady \/ PlayError

(* The way through linked streams stays nfrag periods long, at most one    *)
(* more after a round in which a period came in between capture and        *)
(* playback: an interrupted pcm_wait, the result of which main ignores,    *)
(* does not let delay build up (main.cpp:612-683).                         *)
DelayIsBounded ==
    pc = "wait" /\ linked /\ state = "OPEN" /\ play = "running" /\ capt = "running" =>
      queued + avail \in {nfrag, nfrag + 1}

(* No early return of initialise leaves a device that main takes for open, *)
(* and an open one has all it needs (zita-alsa-pcmi.cc:379-619).           *)
OpenMeansReady ==
    state = "OPEN" => Opened # {} /\ params = Opened \X {"hw", "sw"}

(* A stream that has stopped is running again, or the device has failed,   *)
(* before long (zita-alsa-pcmi.cc:207-242, 762-789).                       *)
StoppedIsRestarted ==
    /\ (pc = "wait" /\ play_handle /\ play = "stopped") ~> (play = "running" \/ state = "FAIL")
    /\ (pc = "wait" /\ capt_handle /\ capt = "stopped") ~> (capt = "running" \/ state = "FAIL")

=============================================================================
