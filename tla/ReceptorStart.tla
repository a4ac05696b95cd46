---------------------------- MODULE ReceptorStart ----------------------------
(***************************************************************************)
(* The start of a single-stream receptor on UDP: rxThread                  *)
(* (src/vban_common/vban_functions.cpp) locks on to the first stream that  *)
(* fits the options and tells main its format; main                        *)
(* (src/vban_receptor_jack/main.cpp) waits for it on a condition variable, *)
(* then builds the resampler and the rings that rxThread uses from then    *)
(* on.  The fields of vban_stream_context_t are shared, and only the       *)
(* handshake is under cmdmutex.                                            *)
(*                                                                         *)
(* The command line is chosen by Init.  No utility allocates               *)
(* context->command, so CMD_PRESENT is never set and text packets change   *)
(* no state.                                                               *)
(***************************************************************************)
EXTENDS Integers, FiniteSets

CONSTANTS
    Senders,       \* what is on the port: [ip, name, kind, channels, rate]
    Requests,      \* command lines: [ip, name, channels], 0 and "" if absent
    Redundancies,  \* values of -n
    MidiLengths,   \* bytes of events in a serial packet
    MidiSpace      \* bytes the MIDI ring can hold

ASSUME SendersAssumption ==
    \A p \in Senders :
      /\ p.ip \in Nat \ {0} /\ p.name # ""
      /\ p.kind \in {"audio", "serial", "text"}
      /\ p.channels \in 1..256 /\ p.rate \in Nat \ {0}
ASSUME RequestsAssumption == \A q \in Requests : q.channels \in 0..256
ASSUME RedundanciesAssumption == Redundancies \subseteq 0..10
ASSUME MidiAssumption == MidiLengths \subseteq Nat /\ MidiSpace \in Nat

VARIABLES
    request, redundancy,       \* the options, constant after Init
    iprx, rx_streamname,       \* the stream the receptor listens to
    nboutputs, samplerate_resampler,
    ring,                      \* context->ringbuffer: channels it is made for, 0 if null
    resampler,                 \* context->resampler, and the format given to setup
    ringbuffer_midi,           \* bytes in the MIDI ring, NoRing if null
    mutex, waiting,            \* cmdmutex: its owner; main in pthread_cond_wait
    rpc, packet,               \* rxThread
    eventsleft,                \* what its loop has not written of a serial packet
    mpc, phase,                \* main
    first,                     \* history: the first stream that fits the request
    heard                      \* history: streams that set the format or were written to the ring

options == <<request, redundancy>>
lockVars == <<iprx, rx_streamname>>
formatVars == <<nboutputs, samplerate_resampler>>
buffers == <<ring, resampler, ringbuffer_midi>>
cmdmutex == <<mutex, waiting>>
packetVars == <<packet, eventsleft>>
rxVars == <<rpc, packetVars>>
mainVars == <<mpc, phase>>
history == <<first, heard>>
vars == <<request, redundancy, iprx, rx_streamname, nboutputs,
          samplerate_resampler, ring, resampler, ringbuffer_midi, mutex,
          waiting, rpc, packet, eventsleft, mpc, phase, first, heard>>

NoRing == -1
EventSize == 3    \* bytes of a MIDI event

Resampler(state, channels, rate) ==
    [state |-> state, channels |-> channels, rate |-> rate]
None == [ip |-> 0, name |-> ""]
StreamOf(p) == [ip |-> p.ip, name |-> p.name]
Streams == {StreamOf(p) : p \in Senders}

TypeOK ==
    /\ request \in Requests /\ redundancy \in Redundancies
    /\ iprx \in {p.ip : p \in Senders} \cup {q.ip : q \in Requests}
    /\ rx_streamname \in {p.name : p \in Senders} \cup {q.name : q \in Requests}
    /\ nboutputs \in {0} \cup {p.channels : p \in Senders} \cup {q.channels : q \in Requests}
    /\ samplerate_resampler \in Nat
    /\ ring \in 0..256
    /\ resampler \in [state : {"null", "new", "set"}, channels : 0..256, rate : Nat]
    /\ mutex \in {"free", "rx", "main"} /\ waiting \in BOOLEAN
    /\ ringbuffer_midi \in {NoRing} \cup (0 .. MidiSpace)
    /\ rpc \in {"poll", "handle", "channels", "rate", "lock", "signal", "write",
                "events"}
    /\ packet \in Senders /\ eventsleft \in Int
    /\ mpc \in {"lock", "test", "block", "wait", "unlock", "new", "setup", "ring",
                "prefill", "midi", "run"}
    /\ phase \in {"start", "serve"}
    /\ first \in Streams \cup {None} /\ heard \subseteq Streams

(* memset of the context, get_receptor_options, pthread_create. *)
Init ==
    /\ request \in Requests /\ redundancy \in Redundancies
    /\ iprx = request.ip /\ rx_streamname = request.name
    /\ nboutputs = request.channels /\ samplerate_resampler = 0
    /\ ring = 0 /\ resampler = Resampler("null", 0, 0) /\ ringbuffer_midi = NoRing
    /\ mutex = "free" /\ waiting = FALSE
    /\ rpc = "poll" /\ packet = (CHOOSE p \in Senders : TRUE) /\ eventsleft = 0
    /\ mpc = "lock" /\ phase = "start"
    /\ first = None /\ heard = {}

-----------------------------------------------------------------------------
(* rxThread. *)

Fits(p) ==
    /\ p.kind # "text"
    /\ request.ip \in {0, p.ip}
    /\ request.name \in {"", p.name}

(* Defects used to test the properties: the address left out of a test. *)
AcceptsName(p) == rx_streamname = p.name
LocksOnAnyAddress(p) ==
    \/ rx_streamname = ""
    \/ iprx = 0 /\ rx_streamname = p.name

(* The packet of the stream the receptor listens to. *)
Accepts(p) == iprx = p.ip /\ rx_streamname = p.name

(* The three cases that take the address, the name, or both from p. *)
LocksOn(p) ==
    \/ iprx = 0 /\ rx_streamname = ""
    \/ iprx = p.ip /\ rx_streamname = ""
    \/ iprx = 0 /\ rx_streamname = p.name

(* poll, udp_recv_m and the lock-on.  The packet that locks is not handled *)
(* itself; text packets are always handled.                                *)
Receive(p) ==
    /\ rpc = "poll"
    /\ first' = IF first = None /\ Fits(p) THEN StreamOf(p) ELSE first
    /\ IF p.kind = "text" \/ Accepts(p)
         THEN rpc' = "handle" /\ packet' = p /\ UNCHANGED <<lockVars, eventsleft>>
         ELSE /\ IF LocksOn(p)
                   THEN iprx' = p.ip /\ rx_streamname' = p.name
                   ELSE UNCHANGED lockVars
              /\ UNCHANGED rxVars
    /\ UNCHANGED <<options, formatVars, buffers, cmdmutex, mainVars, heard>>

(* A defect used to test the properties: the resampler pointer is tested   *)
(* instead of the ring pointer.                                            *)
HandleWhenResampler ==
    /\ rpc = "handle"
    /\ IF packet.kind = "audio" /\ resampler.state = "null"
         THEN rpc' = "channels" /\ UNCHANGED heard
         ELSE \/ /\ packet.kind = "audio"
                 /\ rpc' = "write"
                 /\ heard' = heard \cup {StreamOf(packet)}
              \/ rpc' = "poll" /\ UNCHANGED heard
    /\ UNCHANGED <<options, lockVars, formatVars, buffers, cmdmutex, packetVars,
                   mainVars, first>>

(* A defect used to test the properties: main is told of the first packet  *)
(* only if the number of channels is still open.                           *)
HandleUnlessChannels ==
    /\ rpc = "handle"
    /\ rpc' = IF packet.kind = "audio" /\ ring = 0 /\ nboutputs = 0
                THEN "channels" ELSE "poll"
    /\ UNCHANGED <<options, lockVars, formatVars, buffers, cmdmutex, packetVars,
                   mainVars, history>>

HasEvents == packet.kind = "serial" /\ ringbuffer_midi # NoRing

(* vban_rx_handle_packet: audio before the ring exists goes to main; after *)
(* that, audio of the stream is written, unless it is one of the copies    *)
(* that redundancy adds.                                                   *)
Handle ==
    /\ rpc = "handle"
    /\ IF packet.kind = "audio" /\ ring = 0
         THEN rpc' = "channels" /\ UNCHANGED heard
         ELSE \/ /\ packet.kind = "audio"
                 /\ packet.name = rx_streamname /\ packet.ip = iprx
                 /\ rpc' = "write"
                 /\ heard' = heard \cup {StreamOf(packet)}
              \/ ~HasEvents /\ rpc' = "poll" /\ UNCHANGED heard
    /\ UNCHANGED <<options, lockVars, formatVars, buffers, cmdmutex, packetVars,
                   mainVars, first>>

(* case VBAN_PROTOCOL_SERIAL, when there is a MIDI ring.                   *)
HandleSerial ==
    /\ rpc = "handle" /\ HasEvents
    /\ eventsleft' \in MidiLengths
    /\ rpc' = "events"
    /\ UNCHANGED <<options, lockVars, formatVars, buffers, cmdmutex, packet,
                   mainVars, history>>

(* A defect used to test the properties: room for the packet is awaited.   *)
RoomForAll == MidiSpace - ringbuffer_midi >= eventsleft

(* ringbuffer_write_space(context->ringbuffer_midi) >= 3 *)
RoomForEvent == MidiSpace - ringbuffer_midi >= EventSize

(* while ((eventptr + VBAN_HEADER_SIZE) < packetlen) *)
MoreEvents == eventsleft > 0

(* An event goes to the ring; while there is no room, the loop spins.  The *)
(* last event may be read beyond the end of a packet of an odd length.     *)
WriteEvent ==
    /\ rpc = "events" /\ MoreEvents
    /\ RoomForEvent
    /\ ringbuffer_midi' = ringbuffer_midi + EventSize
    /\ eventsleft' = eventsleft - EventSize
    /\ UNCHANGED <<options, lockVars, formatVars, ring, resampler, cmdmutex, rpc,
                   packet, mainVars, history>>

EventsWritten ==
    /\ rpc = "events" /\ ~MoreEvents
    /\ rpc' = "poll"
    /\ UNCHANGED <<options, lockVars, formatVars, buffers, cmdmutex, packetVars,
                   mainVars, history>>

(* nboutputs, if -c has not set it *)
SetChannels ==
    /\ rpc = "channels"
    /\ nboutputs' = IF nboutputs = 0 THEN packet.channels ELSE nboutputs
    /\ heard' = heard \cup {StreamOf(packet)}
    /\ rpc' = "rate"
    /\ UNCHANGED <<options, lockVars, samplerate_resampler, buffers, cmdmutex,
                   packetVars, mainVars, first>>

SetRate ==
    /\ rpc = "rate"
    /\ samplerate_resampler' = packet.rate
    /\ rpc' = "lock"
    /\ UNCHANGED <<options, lockVars, nboutputs, buffers, cmdmutex, packetVars,
                   mainVars, history>>

(* A defect used to test the properties: pthread_mutex_trylock, and no     *)
(* signal when main holds the mutex.                                       *)
TryLock ==
    /\ rpc = "lock"
    /\ IF mutex = "free"
         THEN mutex' = "rx" /\ rpc' = "signal"
         ELSE rpc' = "poll" /\ UNCHANGED mutex
    /\ UNCHANGED <<options, lockVars, formatVars, buffers, waiting, packetVars,
                   mainVars, history>>

(* pthread_mutex_lock(&context->cmdmutex.threadlock) *)
Lock ==
    /\ rpc = "lock"
    /\ mutex = "free"
    /\ mutex' = "rx"
    /\ rpc' = "signal"
    /\ UNCHANGED <<options, lockVars, formatVars, buffers, waiting, packetVars,
                   mainVars, history>>

(* pthread_cond_signal and pthread_mutex_unlock *)
Signal ==
    /\ rpc = "signal"
    /\ waiting' = FALSE
    /\ mutex' = "free"
    /\ rpc' = "poll"
    /\ UNCHANGED <<options, lockVars, formatVars, buffers, packetVars, mainVars,
                   history>>

(* The end of the frame loop: rpc is "write" while ringbuffer_write runs. *)
WriteDone ==
    /\ rpc = "write"
    /\ rpc' = "poll"
    /\ UNCHANGED <<options, lockVars, formatVars, buffers, cmdmutex, packetVars,
                   mainVars, history>>

-----------------------------------------------------------------------------
(* main. *)

(* What main waits for; once it serves commands it waits for CMD_PRESENT.  *)
Known ==
    /\ rx_streamname # ""
    /\ nboutputs # 0
    /\ samplerate_resampler # 0

(* pthread_mutex_lock, at first and on the way out of pthread_cond_wait. *)
MainLock ==
    /\ mpc = "lock"
    /\ mutex = "free"
    /\ mutex' = "main"
    /\ mpc' = "test"
    /\ UNCHANGED <<options, lockVars, formatVars, buffers, waiting, rxVars,
                   phase, history>>

(* The loop condition, read while rxThread may store the fields. *)
MainTest ==
    /\ mpc = "test"
    /\ mpc' = IF phase = "start" /\ Known THEN "unlock" ELSE "block"
    /\ UNCHANGED <<options, lockVars, formatVars, buffers, cmdmutex, rxVars,
                   phase, history>>

(* pthread_cond_wait gives the mutex up and waits in one step. *)
CondWait ==
    /\ mpc = "block"
    /\ waiting' = TRUE
    /\ mutex' = "free"
    /\ mpc' = "wait"
    /\ UNCHANGED <<options, lockVars, formatVars, buffers, rxVars, phase,
                   history>>

(* Back from the wait after a signal. *)
MainWake ==
    /\ mpc = "wait"
    /\ ~waiting
    /\ mpc' = "lock"
    /\ UNCHANGED <<options, lockVars, formatVars, buffers, cmdmutex, rxVars,
                   phase, history>>

(* pthread_cond_wait may return without a signal. *)
SpuriousWake ==
    /\ mpc = "wait"
    /\ waiting
    /\ waiting' = FALSE
    /\ UNCHANGED <<options, lockVars, formatVars, buffers, mutex, rxVars,
                   mainVars, history>>

MainUnlock ==
    /\ mpc = "unlock"
    /\ mutex' = "free"
    /\ mpc' = "new"
    /\ UNCHANGED <<options, lockVars, formatVars, buffers, waiting, rxVars,
                   phase, history>>

(* stream.resampler = new VResampler() *)
NewResampler ==
    /\ mpc = "new"
    /\ resampler' = Resampler("new", 0, 0)
    /\ mpc' = "setup"
    /\ UNCHANGED <<options, lockVars, formatVars, ring, ringbuffer_midi, cmdmutex,
                   rxVars, phase, history>>

(* setup, and the call of process that fills the filter *)
SetupResampler ==
    /\ mpc = "setup"
    /\ resampler' = Resampler("set", nboutputs, samplerate_resampler)
    /\ mpc' = "ring"
    /\ UNCHANGED <<options, lockVars, formatVars, ring, ringbuffer_midi, cmdmutex,
                   rxVars, phase, history>>

(* vban_compute_rx_buffer, and vban_compute_rx_ringbuffer up to the store  *)
(* of *ringbuffer; mpc is "prefill" while ringbuffer_write adds the zeros. *)
PublishRing ==
    /\ mpc = "ring"
    /\ ring' = nboutputs
    /\ mpc' = IF redundancy > 0 THEN "prefill" ELSE "midi"
    /\ UNCHANGED <<options, lockVars, formatVars, resampler, ringbuffer_midi,
                   cmdmutex, rxVars, phase, history>>

PrefillDone ==
    /\ mpc = "prefill"
    /\ mpc' = "midi"
    /\ UNCHANGED <<options, lockVars, formatVars, buffers, cmdmutex, rxVars,
                   phase, history>>

(* stream.ringbuffer_midi = ringbuffer_create(300) *)
CreateMidiRing ==
    /\ mpc = "midi"
    /\ ringbuffer_midi' = 0
    /\ mpc' = "run"
    /\ UNCHANGED <<options, lockVars, formatVars, ring, resampler, cmdmutex,
                   rxVars, phase, history>>

(* jack_run_rx_stream, and on to the command loop. *)
Run ==
    /\ mpc = "run"
    /\ mpc' = "lock"
    /\ phase' = "serve"
    /\ UNCHANGED <<options, lockVars, formatVars, buffers, cmdmutex, rxVars,
                   history>>

-----------------------------------------------------------------------------
(* on_rx_process, once the client is active: the events of the ring are    *)
(* passed on.                                                              *)
ReadEvent ==
    /\ phase = "serve"
    /\ ringbuffer_midi >= EventSize
    /\ ringbuffer_midi' = ringbuffer_midi - EventSize
    /\ UNCHANGED <<options, lockVars, formatVars, ring, resampler, cmdmutex,
                   rxVars, mainVars, history>>

-----------------------------------------------------------------------------
Rx ==
    Handle \/ HandleSerial \/ WriteEvent \/ EventsWritten \/ SetChannels
      \/ SetRate \/ Lock \/ Signal \/ WriteDone

Main ==
    MainLock \/ MainTest \/ CondWait \/ MainWake \/ MainUnlock \/ NewResampler
      \/ SetupResampler \/ PublishRing \/ PrefillDone \/ CreateMidiRing \/ Run

Next ==
    (\E p \in Senders : Receive(p)) \/ Rx \/ Main \/ SpuriousWake \/ ReadEvent

Spec == Init /\ [][Next]_vars

(* Both threads are scheduled, and a thread that keeps asking for the      *)
(* mutex gets it (each holds it for a bounded time, the other one asks     *)
(* again only after a packet).  JACK goes on calling on_rx_process.        *)
(* Nothing is assumed of the network.                                      *)
ThreadSpec ==
    /\ Spec
    /\ WF_vars(Rx) /\ SF_vars(Lock)
    /\ WF_vars(Main) /\ SF_vars(MainLock)
    /\ WF_vars(ReadEvent)

(* Every sender goes on sending, and not all of it is lost. *)
NetworkDelivers == \A p \in Senders : SF_vars(Receive(p))

FairSpec == ThreadSpec /\ NetworkDelivers

-----------------------------------------------------------------------------
(* Properties. *)

(* The receptor listens to the first stream that fits the options and to   *)
(* no other one ever after, and takes over what the options leave open     *)
(* (README.md:12-14).                                                      *)
LocksFirstMatch ==
    IF first = None
      THEN iprx = request.ip /\ rx_streamname = request.name
      ELSE iprx = first.ip /\ rx_streamname = first.name

(* Neither the format nor a sample comes from another stream, although     *)
(* packets before lock-on and text packets run through the same handler.   *)
HearsOneStream == heard \subseteq {first}

(* rxThread converts and writes audio only when the ring and a resampler   *)
(* set up for the same channels and rate exist (vban_functions.h:956: the  *)
(* ring pointer stands for all of them).                                   *)
ReadyBeforeWrite ==
    rpc = "write" =>
      /\ ring = nboutputs /\ ring # 0
      /\ resampler = Resampler("set", nboutputs, samplerate_resampler)

(* When rxThread is done with the packet that completed the format, main   *)
(* starts, whether or not another packet ever comes: no wakeup is lost     *)
(* between main's test and its wait.                                       *)
NoLostWakeup == (Known /\ rpc = "poll") ~> (phase = "serve")

HasAudio(s) == \E p \in Senders : p.kind = "audio" /\ StreamOf(p) = s

(* If senders go on sending, an audio stream the receptor has locked on to *)
(* is started: the packet that locks is lost, and a later one tells main   *)
(* (vban_functions.cpp:277-286, vban_functions.h:956-965).                 *)
AudioStarts == NetworkDelivers => (HasAudio(first) ~> (phase = "serve"))

(* rxThread does not stay in the loop that spins on a full MIDI ring,      *)
(* however long the packet, even if it fills the ring before main has      *)
(* started the callback that empties it (vban_functions.h:1030-1035,       *)
(* jack_backend.cpp:625-629).                                              *)
MidiEnds == (rpc = "events") ~> (rpc = "poll")

(* "If you give IP only - it will start receiving the 1st stream from this *)
(* IP, which found" (README.md:13), and so for the other cases.            *)
FirstStreamStarts == (first # None) ~> (phase = "serve")

=============================================================================
