------------------------- MODULE ReceptorStartProofs -------------------------
(***************************************************************************)
(* Proofs about ReceptorStart, for any senders on the port and any command *)
(* lines.                                                                  *)
(***************************************************************************)
EXTENDS ReceptorStart, TLAPS

(* A packet of audio or MIDI that is handled is of the first stream that   *)
(* fits: it is accepted only after the lock-on.                            *)
Handling == {"handle", "channels", "rate", "lock", "signal", "write", "events"}
OfFirst ==
    /\ rpc \in Handling /\ packet.kind # "text" =>
         first # None /\ StreamOf(packet) = first
    /\ rpc \in Handling \ {"handle", "events"} => packet.kind = "audio"

StreamTypes ==
    /\ packet \in Senders
    /\ first \in Streams \cup {None}
    /\ heard \subseteq Streams
    /\ rpc \in Handling \cup {"poll"}

StartInv == StreamTypes /\ LocksFirstMatch /\ OfFirst /\ HearsOneStream

-----------------------------------------------------------------------------
LEMMA StreamsAreNamed ==
    /\ None \notin Streams
    /\ \A p \in Senders :
         StreamOf(p) \in Streams /\ StreamOf(p).ip = p.ip /\ StreamOf(p).name = p.name
    /\ \A s \in Streams : s.ip # 0 /\ s.name # ""
  <1>1. \A p \in Senders : p.ip # 0 /\ p.name # ""
    BY SendersAssumption
  <1>2. \A p \in Senders : StreamOf(p).ip = p.ip /\ StreamOf(p).name = p.name
    BY DEF StreamOf
  <1>3. \A p \in Senders : StreamOf(p) \in Streams
    BY DEF Streams
  <1>4. \A s \in Streams : s.ip # 0 /\ s.name # ""
    <2> SUFFICES ASSUME NEW s \in Streams PROVE s.ip # 0 /\ s.name # ""
      OBVIOUS
    <2>1. PICK p \in Senders : s = StreamOf(p)
      BY DEF Streams
    <2> QED BY <1>1, <1>2, <2>1
  <1>5. None.ip = 0
    BY DEF None
  <1>6. None \notin Streams
    BY <1>4, <1>5
  <1> QED BY <1>2, <1>3, <1>4, <1>6

LEMMA StartInitHolds == Senders # {} /\ Init => StartInv
  <1> SUFFICES ASSUME Senders # {}, Init PROVE StartInv
    OBVIOUS
  <1>1. packet \in Senders
    BY DEF Init
  <1> QED
    BY <1>1 DEF Init, StartInv, StreamTypes, LocksFirstMatch, OfFirst,
                HearsOneStream, Handling

(* The lock-on: the first packet that fits, and no other one, sets address *)
(* and name, or finds them set to its own.                                 *)
LEMMA ReceiveLocks ==
    ASSUME StartInv, NEW p \in Senders, Receive(p)
    PROVE  StartInv'
  <1> USE DEF StartInv
  <1>1. /\ StreamOf(p) \in Streams /\ StreamOf(p).ip = p.ip
        /\ StreamOf(p).name = p.name /\ p.ip # 0 /\ p.name # ""
    BY StreamsAreNamed
  <1>2. UNCHANGED <<options, heard>> /\ rpc = "poll"
    BY DEF Receive
  <1>3. StreamTypes'
    <2>1. packet' \in Senders /\ rpc' \in Handling \cup {"poll"}
      BY DEF Receive, StreamTypes, Handling, rxVars, packetVars
    <2>2. first' \in Streams \cup {None}
      BY <1>1 DEF Receive, StreamTypes
    <2>3. heard' \subseteq Streams
      BY <1>2 DEF StreamTypes
    <2>4. Streams' = Streams
      BY DEF Streams, StreamOf
    <2> QED BY <2>1, <2>2, <2>3, <2>4 DEF StreamTypes
  <1>4. LocksFirstMatch'
    <2>1. CASE first = None
      <3>1. iprx = request.ip /\ rx_streamname = request.name
        BY <2>1 DEF LocksFirstMatch
      <3>2. CASE Fits(p)
        <4>1. first' = StreamOf(p) /\ p.kind # "text"
          BY <2>1, <3>2 DEF Receive, Fits
        <4>2. Accepts(p) \/ LocksOn(p)
          BY <3>1, <3>2 DEF Fits, Accepts, LocksOn
        <4>3. iprx' = p.ip /\ rx_streamname' = p.name
          BY <4>1, <4>2 DEF Receive, Accepts, lockVars
        <4> QED BY <1>1, <4>1, <4>3, StreamsAreNamed DEF LocksFirstMatch
      <3>3. CASE ~Fits(p)
        <4>1. first' = None
          BY <2>1, <3>3 DEF Receive
        <4>2. p.kind = "text" \/ ~LocksOn(p)
          BY <3>1, <3>3 DEF Fits, LocksOn
        <4>3. UNCHANGED lockVars
          BY <4>2 DEF Receive
        <4> QED BY <1>2, <3>1, <4>1, <4>3 DEF LocksFirstMatch, lockVars, options
      <3> QED BY <3>2, <3>3
    <2>2. CASE first # None
      <3>1. /\ first' = first /\ iprx = first.ip /\ rx_streamname = first.name
            /\ iprx # 0 /\ rx_streamname # ""
        BY <2>2, StreamsAreNamed DEF Receive, LocksFirstMatch, StreamTypes
      <3>2. UNCHANGED lockVars
        BY <3>1 DEF Receive, LocksOn
      <3> QED BY <2>2, <3>1, <3>2 DEF LocksFirstMatch, lockVars
    <2> QED BY <2>1, <2>2
  <1>5. OfFirst'
    <2>1. CASE p.kind = "text"
      BY <2>1 DEF Receive, OfFirst, Handling
    <2>2. CASE p.kind # "text" /\ Accepts(p)
      <3>1. /\ rpc' = "handle" /\ packet' = p
            /\ iprx' = p.ip /\ rx_streamname' = p.name
        BY <2>2 DEF Receive, Accepts, lockVars
      <3>2. first' # None
        <4>1. CASE first = None
          <5>1. Fits(p)
            BY <2>2, <4>1 DEF LocksFirstMatch, Accepts, Fits
          <5> QED BY <1>1, <4>1, <5>1, StreamsAreNamed DEF Receive
        <4>2. CASE first # None
          BY <4>2 DEF Receive
        <4> QED BY <4>1, <4>2
      <3>3. first'.ip = p.ip /\ first'.name = p.name /\ first' \in Streams
        BY <1>3, <1>4, <3>1, <3>2 DEF LocksFirstMatch, StreamTypes
      <3>4. StreamOf(p) = first'
        BY <3>3 DEF Streams, StreamOf
      <3> QED BY <3>1, <3>2, <3>4 DEF OfFirst, Handling
    <2>3. CASE p.kind # "text" /\ ~Accepts(p)
      BY <1>2, <2>3 DEF Receive, OfFirst, Handling, rxVars, packetVars
    <2> QED BY <2>1, <2>2, <2>3
  <1>6. HearsOneStream'
    <2>1. first # None => first' = first
      BY DEF Receive
    <2>2. first = None => heard = {}
      BY StreamsAreNamed DEF HearsOneStream, StreamTypes
    <2> QED BY <1>2, <2>1, <2>2 DEF HearsOneStream
  <1> QED BY <1>3, <1>4, <1>5, <1>6

LEMMA StartStepHolds == StartInv /\ [Next]_vars => StartInv'
  <1> SUFFICES ASSUME StartInv, [Next]_vars PROVE StartInv'
    OBVIOUS
  <1>1. CASE \E p \in Senders : Receive(p)
    BY <1>1, ReceiveLocks
  <1> USE DEF StartInv, StreamTypes, LocksFirstMatch, OfFirst, HearsOneStream,
              Handling, options, lockVars, history
  <1>2. CASE Handle
    <2>1. StreamOf(packet) \in Streams
      BY StreamsAreNamed
    <2> QED BY <1>2, <2>1 DEF Handle, packetVars
  <1>3. CASE SetChannels
    <2>1. StreamOf(packet) \in Streams
      BY StreamsAreNamed
    <2> QED BY <1>3, <2>1 DEF SetChannels, packetVars
  <1>4. CASE SetRate \/ Lock \/ Signal \/ WriteDone
    BY <1>4 DEF SetRate, Lock, Signal, WriteDone, packetVars
  <1>6. CASE HandleSerial \/ WriteEvent \/ EventsWritten
    BY <1>6 DEF HandleSerial, WriteEvent, EventsWritten, packetVars
  <1>5. CASE Main \/ SpuriousWake \/ ReadEvent \/ UNCHANGED vars
    <2>1. UNCHANGED <<options, lockVars, rxVars, history>>
      BY <1>5 DEF Main, MainLock, MainTest, CondWait, MainWake, MainUnlock,
                  NewResampler, SetupResampler, PublishRing, PrefillDone,
                  CreateMidiRing, Run, SpuriousWake, ReadEvent, vars, rxVars,
                  packetVars
    <2> QED BY <2>1 DEF rxVars, packetVars
  <1> QED BY <1>1, <1>2, <1>3, <1>4, <1>5, <1>6 DEF Next, Rx

LEMMA StartHolds == Senders # {} => (Spec => []StartInv)
  BY StartInitHolds, StartStepHolds, PTL DEF Spec

-----------------------------------------------------------------------------
(* Address and name come from the first stream that fits the command line, *)
(* and never change after it, whatever else is on the port                 *)
(* (vban_functions.cpp:275-286).                                           *)
THEOREM FirstMatchIsLocked == Senders # {} => (Spec => []LocksFirstMatch)
  <1>1. StartInv => LocksFirstMatch
    BY DEF StartInv
  <1> QED BY <1>1, StartHolds, PTL

(* No format and no sample is taken from another stream                    *)
(* (vban_functions.h:956-972).                                             *)
THEOREM OneStreamIsHeard == Senders # {} => (Spec => []HearsOneStream)
  <1>1. StartInv => HearsOneStream
    BY DEF StartInv
  <1> QED BY <1>1, StartHolds, PTL

-----------------------------------------------------------------------------
(* That the buffers fit needs that a stream keeps its rate: rxThread       *)
(* stores the rate of every audio packet it handles while there is no ring *)
(* (vban_functions.h:961), also between setup of the resampler and the     *)
(* store of the ring.                                                      *)
OneRate ==
    \A p, q \in Senders :
      p.kind = "audio" /\ q.kind = "audio" /\ StreamOf(p) = StreamOf(q) => p.rate = q.rate

FormatIsOfFirst ==
    samplerate_resampler # 0 =>
      \E p \in Senders :
        p.kind = "audio" /\ StreamOf(p) = first /\ samplerate_resampler = p.rate

(* How far main has come. *)
Serving == phase = "serve"
Building == mpc \in {"unlock", "new", "setup", "ring", "prefill", "midi", "run"}
HasResampler == mpc \in {"ring", "prefill", "midi", "run"} \/ Serving
HasRing == mpc \in {"prefill", "midi", "run"} \/ Serving

BuiltInOrder ==
    /\ Serving => mpc \in {"lock", "test", "block", "wait"}
    /\ Building \/ Serving => nboutputs # 0 /\ samplerate_resampler # 0
    /\ HasResampler => resampler = Resampler("set", nboutputs, samplerate_resampler)
    /\ HasRing => ring = nboutputs
    /\ ring # 0 => HasRing

ChannelsFirst ==
    /\ rpc = "rate" => nboutputs # 0
    /\ rpc = "write" => ring # 0

FormatInv == FormatIsOfFirst /\ BuiltInOrder /\ ChannelsFirst

LEMMA FormatInitHolds == Init => FormatInv
  BY DEF Init, FormatInv, FormatIsOfFirst, BuiltInOrder, ChannelsFirst, Serving,
         Building, HasResampler, HasRing

LEMMA FormatStepHolds ==
    OneRate /\ StartInv /\ FormatInv /\ [Next]_vars => FormatInv'
  <1> SUFFICES ASSUME OneRate, StartInv, FormatInv, [Next]_vars PROVE FormatInv'
    OBVIOUS
  <1> USE DEF FormatInv, BuiltInOrder, ChannelsFirst, Serving, Building,
              HasResampler, HasRing
  <1>1. CASE \E p \in Senders : Receive(p)
    <2>1. PICK p \in Senders : Receive(p)
      BY <1>1
    <2>2. FormatIsOfFirst'
      <3>1. CASE samplerate_resampler = 0
        BY <2>1, <3>1 DEF FormatIsOfFirst, Receive, formatVars
      <3>2. CASE samplerate_resampler # 0
        <4>1. first # None
          BY <3>2, StreamsAreNamed DEF FormatIsOfFirst
        <4> QED BY <2>1, <4>1 DEF FormatIsOfFirst, Receive, formatVars, StreamOf
      <3> QED BY <3>1, <3>2
    <2> QED BY <2>1, <2>2 DEF Receive, formatVars, buffers, mainVars, rxVars, packetVars
  <1>2. CASE Handle
    BY <1>2 DEF Handle, packetVars, FormatIsOfFirst, formatVars, buffers, mainVars, StreamOf
  <1>3. CASE SetChannels
    <2>1. packet.channels # 0
      <3>1. packet.channels \in 1..256
        BY SendersAssumption, Zenon DEF StartInv, StreamTypes
      <3> QED BY <3>1
    <2>2. nboutputs' # 0 /\ (nboutputs # 0 => nboutputs' = nboutputs)
      BY <1>3, <2>1 DEF SetChannels
    <2>3. UNCHANGED <<samplerate_resampler, ring, resampler, mpc, phase, first>>
            /\ rpc' = "rate" /\ rpc = "channels"
      BY <1>3 DEF SetChannels, buffers, mainVars
    <2>4. ring # 0 => nboutputs # 0
      OBVIOUS
    <2> QED BY <2>2, <2>3, <2>4 DEF FormatIsOfFirst, StreamOf
  <1>4. CASE SetRate
    <2>1. packet \in Senders /\ packet.kind = "audio" /\ StreamOf(packet) = first
      BY <1>4 DEF SetRate, StartInv, StreamTypes, OfFirst, Handling
    <2>2. samplerate_resampler' = packet.rate /\ packet.rate # 0
      BY <1>4, <2>1, SendersAssumption DEF SetRate
    <2>3. samplerate_resampler # 0 => samplerate_resampler' = samplerate_resampler
      BY <2>1, <2>2 DEF OneRate, FormatIsOfFirst
    <2>4. UNCHANGED <<nboutputs, ring, resampler, mpc, phase, first>> /\ rpc' = "lock"
      BY <1>4 DEF SetRate, buffers, mainVars, history
    <2>5. FormatIsOfFirst'
      BY <2>1, <2>2, <2>4 DEF FormatIsOfFirst, StreamOf
    <2> QED BY <2>2, <2>3, <2>4, <2>5
  <1>7. CASE HandleSerial \/ WriteEvent \/ EventsWritten
    BY <1>7 DEF HandleSerial, WriteEvent, EventsWritten, FormatIsOfFirst,
                formatVars, buffers, mainVars, history, StreamOf
  <1>5. CASE Lock \/ Signal \/ WriteDone
    BY <1>5 DEF Lock, Signal, WriteDone, FormatIsOfFirst, formatVars, buffers,
                mainVars, history, StreamOf
  <1>6. CASE Main \/ SpuriousWake \/ ReadEvent \/ UNCHANGED vars
    <2>1. UNCHANGED <<nboutputs, samplerate_resampler, rpc, first>>
      BY <1>6 DEF Main, MainLock, MainTest, CondWait, MainWake, MainUnlock,
                  NewResampler, SetupResampler, PublishRing, PrefillDone,
                  CreateMidiRing, Run, SpuriousWake, ReadEvent, vars, formatVars,
                  rxVars, packetVars, history
    <2>2. FormatIsOfFirst'
      BY <2>1 DEF FormatIsOfFirst, StreamOf
    <2>3. CASE MainTest
      BY <2>1, <2>2, <2>3 DEF MainTest, Known, buffers
    <2>4. CASE NewResampler \/ SetupResampler
      BY <2>1, <2>2, <2>4 DEF NewResampler, SetupResampler
    <2>5. CASE PublishRing
      BY <2>1, <2>2, <2>5 DEF PublishRing
    <2>6. CASE MainLock \/ CondWait \/ MainWake \/ MainUnlock \/ PrefillDone
                 \/ CreateMidiRing \/ Run
      BY <2>1, <2>2, <2>6 DEF MainLock, CondWait, MainWake, MainUnlock,
                              PrefillDone, CreateMidiRing, Run, buffers
    <2>7. CASE SpuriousWake \/ ReadEvent \/ UNCHANGED vars
      BY <2>1, <2>2, <2>7 DEF SpuriousWake, ReadEvent, vars, buffers, mainVars
    <2> QED BY <1>6, <2>3, <2>4, <2>5, <2>6, <2>7 DEF Main
  <1> QED BY <1>1, <1>2, <1>3, <1>4, <1>5, <1>6, <1>7 DEF Next, Rx

(* With it, no packet is converted before everything it is converted with  *)
(* exists and fits the stream, although the ring pointer alone says so     *)
(* (vban_functions.h:956).                                                 *)
THEOREM BuffersFitBeforeWrite ==
    Senders # {} /\ OneRate => (Spec => []ReadyBeforeWrite)
  <1> SUFFICES ASSUME Senders # {}, OneRate PROVE Spec => []ReadyBeforeWrite
    OBVIOUS
  <1>1. FormatInv => ReadyBeforeWrite
    BY DEF FormatInv, BuiltInOrder, ChannelsFirst, HasRing, HasResampler,
           Serving, ReadyBeforeWrite
  <1>2. StartInv /\ FormatInv /\ [Next]_vars => FormatInv'
    BY FormatStepHolds
  <1>3. Spec => []StartInv
    BY StartHolds
  <1> QED BY <1>1, <1>2, <1>3, FormatInitHolds, PTL DEF Spec

-----------------------------------------------------------------------------
(* The types need what the code relies on as well: an event is written     *)
(* only into a ring that exists, and one is taken out only after Run.      *)
TypeInv ==
    /\ TypeOK
    /\ rpc = "events" => ringbuffer_midi # NoRing

LEMMA TypeInitHolds == Senders # {} /\ Init => TypeInv
  <1> SUFFICES ASSUME Senders # {}, Init PROVE TypeInv
    OBVIOUS
  <1>1. packet \in Senders
    BY DEF Init
  <1>3. resampler \in [state : {"null", "new", "set"}, channels : 0..256, rate : Nat]
    BY DEF Init, Resampler
  <1>4. /\ request \in Requests /\ redundancy \in Redundancies
        /\ iprx \in {p.ip : p \in Senders} \cup {q.ip : q \in Requests}
        /\ rx_streamname \in {p.name : p \in Senders} \cup {q.name : q \in Requests}
        /\ nboutputs \in {0} \cup {p.channels : p \in Senders} \cup {q.channels : q \in Requests}
    BY DEF Init
  <1>5. /\ samplerate_resampler \in Nat /\ ring \in 0..256 /\ eventsleft \in Int
        /\ ringbuffer_midi \in {NoRing} \cup (0 .. MidiSpace)
    BY DEF Init
  <1>6. /\ mutex \in {"free", "rx", "main"} /\ waiting \in BOOLEAN
        /\ rpc = "poll" /\ mpc = "lock" /\ phase = "start"
        /\ first \in Streams \cup {None} /\ heard \subseteq Streams
    BY DEF Init
  <1> QED BY <1>1, <1>3, <1>4, <1>5, <1>6 DEF TypeInv, TypeOK

LEMMA TypeStepHolds == TypeInv /\ [Next]_vars => TypeInv'
  <1> SUFFICES ASSUME TypeInv, [Next]_vars PROVE TypeInv'
    OBVIOUS
  <1> USE DEF TypeInv, TypeOK
  <1>1. CASE \E p \in Senders : Receive(p)
    <2>1. PICK p \in Senders : Receive(p)
      BY <1>1
    <2>2. StreamOf(p) \in Streams
      BY DEF Streams
    <2>3. UNCHANGED <<options, formatVars, buffers, cmdmutex, mainVars, heard>>
      BY <2>1 DEF Receive
    <2>4. first' \in Streams' \cup {None}' /\ heard' \subseteq Streams'
      BY <2>1, <2>2, <2>3 DEF Receive, Streams, StreamOf, None
    <2>5. /\ iprx' \in {q.ip : q \in Senders} \cup {q.ip : q \in Requests}
          /\ rx_streamname' \in {q.name : q \in Senders} \cup {q.name : q \in Requests}
      BY <2>1 DEF Receive, lockVars
    <2>6. /\ rpc' \in {"poll", "handle"} /\ packet' \in Senders /\ eventsleft' \in Int
      BY <2>1 DEF Receive, rxVars, packetVars
    <2> QED BY <2>3, <2>4, <2>5, <2>6
            DEF options, formatVars, buffers, cmdmutex, mainVars
  <1>2. CASE Rx
    <2>1. StreamOf(packet) \in Streams /\ packet.rate \in Nat
            /\ packet.channels \in {q.channels : q \in Senders}
      BY SendersAssumption DEF Streams
    <2>2. UNCHANGED <<options, lockVars, mainVars, first>>
      BY <1>2 DEF Rx, Handle, HandleSerial, WriteEvent, EventsWritten, SetChannels,
                  SetRate, Lock, Signal, WriteDone, history
    <2> USE DEF options, lockVars, formatVars, buffers, cmdmutex, packetVars,
                mainVars, history
    <2>3. CASE Handle
      BY <2>1, <2>2, <2>3 DEF Handle, Streams, StreamOf
    <2>4. CASE HandleSerial
      BY <2>2, <2>4, MidiAssumption DEF HandleSerial, HasEvents, Streams, StreamOf
    <2>5. CASE WriteEvent
      BY <2>2, <2>5, MidiAssumption
         DEF WriteEvent, RoomForEvent, EventSize, NoRing, Streams, StreamOf
    <2>6. CASE EventsWritten \/ Lock \/ Signal \/ WriteDone
      <3>1. waiting' \in BOOLEAN
        BY <2>6 DEF EventsWritten, Lock, Signal, WriteDone
      <3> QED BY <2>2, <2>6, <3>1
              DEF EventsWritten, Lock, Signal, WriteDone, Streams, StreamOf
    <2>7. CASE SetChannels
      BY <2>1, <2>2, <2>7 DEF SetChannels, Streams, StreamOf
    <2>8. CASE SetRate
      BY <2>1, <2>2, <2>8 DEF SetRate, Streams, StreamOf
    <2> QED BY <1>2, <2>3, <2>4, <2>5, <2>6, <2>7, <2>8 DEF Rx
  <1>3. CASE Main
    <2>1. UNCHANGED <<options, lockVars, formatVars, rxVars, history>>
      BY <1>3 DEF Main, MainLock, MainTest, CondWait, MainWake, MainUnlock,
                  NewResampler, SetupResampler, PublishRing, PrefillDone,
                  CreateMidiRing, Run
    <2>2. nboutputs \in 0..256
      <3>1. 0 \in 0..256 /\ \A n \in 1..256 : n \in 0..256
        OBVIOUS
      <3>2. \A p \in Senders : p.channels \in 0..256
        BY <3>1, SendersAssumption, Zenon
      <3>3. \A q \in Requests : q.channels \in 0..256
        BY RequestsAssumption, Zenon
      <3>4. nboutputs \in {0} \cup {p.channels : p \in Senders} \cup {q.channels : q \in Requests}
        OBVIOUS
      <3> HIDE DEF TypeInv, TypeOK
      <3>5. CASE nboutputs = 0
        BY <3>1, <3>5, Zenon
      <3>6. CASE \E p \in Senders : nboutputs = p.channels
        BY <3>2, <3>6, Zenon
      <3>7. CASE \E q \in Requests : nboutputs = q.channels
        BY <3>3, <3>7, Zenon
      <3> QED BY <3>4, <3>5, <3>6, <3>7
    <2> USE DEF options, lockVars, formatVars, buffers, cmdmutex, rxVars,
                packetVars, mainVars, history
    <2>3. CASE NewResampler \/ SetupResampler
      BY <2>1, <2>2, <2>3 DEF NewResampler, SetupResampler, Resampler, Streams, StreamOf
    <2>4. CASE PublishRing
      BY <2>1, <2>2, <2>4 DEF PublishRing, Streams, StreamOf
    <2>5. CASE CreateMidiRing
      BY <2>1, <2>5, MidiAssumption DEF CreateMidiRing, NoRing, Streams, StreamOf
    <2>6. CASE MainLock \/ MainTest \/ CondWait \/ MainWake \/ MainUnlock
      <3>1. waiting' \in BOOLEAN
        BY <2>6 DEF MainLock, MainTest, CondWait, MainWake, MainUnlock
      <3> QED BY <2>1, <2>6, <3>1
              DEF MainLock, MainTest, CondWait, MainWake, MainUnlock, Streams, StreamOf
    <2>7. CASE PrefillDone \/ Run
      BY <2>1, <2>7 DEF PrefillDone, Run, Streams, StreamOf
    <2> QED BY <1>3, <2>3, <2>4, <2>5, <2>6, <2>7 DEF Main
  <1>4. CASE SpuriousWake
    <2>1. waiting' \in BOOLEAN
      BY <1>4 DEF SpuriousWake
    <2> QED BY <1>4, <2>1
            DEF SpuriousWake, Streams, StreamOf, options, lockVars, formatVars,
                buffers, rxVars, packetVars, mainVars, history
  <1>5. CASE ReadEvent
    BY <1>5, MidiAssumption
       DEF ReadEvent, EventSize, NoRing, Streams, StreamOf, options, lockVars,
           formatVars, cmdmutex, rxVars, packetVars, mainVars, history
  <1>6. CASE UNCHANGED vars
    BY <1>6 DEF vars, Streams, StreamOf
  <1> QED BY <1>1, <1>2, <1>3, <1>4, <1>5, <1>6 DEF Next

(* Every field keeps its type; the MIDI ring never holds more bytes than   *)
(* it has, and none is taken out that is not there                         *)
(* (vban_functions.h:1028-1033, jack_backend.cpp:626-629).                 *)
THEOREM StartTypeCorrect == Senders # {} => (Spec => []TypeOK)
  <1>1. TypeInv => TypeOK
    BY DEF TypeInv
  <1> QED BY <1>1, TypeInitHolds, TypeStepHolds, PTL DEF Spec

=============================================================================
