# A TLA+ model of vban_utils

`vban_utils` sends and receives audio and MIDI over the network with the VBAN
protocol, on JACK, PipeWire and ALSA.  This directory holds a model of its
core, from the ring buffer to the sound card, the TLC runs that check it on
small instances, and TLAPS proofs of the most important properties for every
value of the constants.

Paths are relative to `src/`; `F.h` is `vban_common/vban_functions.h`, `F.cpp`
is `vban_common/vban_functions.cpp`.

## 1. Inventory of the system

### 1.1 Parts, state and operations

| part | state | operations | what is hard | module |
|---|---|---|---|---|
| ring buffer, `vban_common/ringbuffer.h` | storage, `read_ptr`, `write_ptr` | `ringbuffer_read`, `ringbuffer_write`, the two spaces | lock-free use by two threads, the wrap, full against empty | VbanRing, ByteFifo |
| multistream server, `vban_receptor_*/main.cpp`, F.cpp `timerThread`, `vban_client_list.cpp`, `popen2.h` | client list, `active_clients_num`, idle timers, child processes | a packet finds or creates its client; the reaper kills an idle one | two threads, a list and a counter without a lock, a blocking `waitpid` | Multistream |
| single-stream receptor start, `rxThread` and `main` | `iprx`, `rx_streamname`, `nboutputs`, ring pointers, resampler pointer, `cmdmutex` | lock-on to a stream, the handshake over a condition variable, building of resampler and rings | which stream is taken, lost wakeups, publication order | ReceptorStart |
| reception, F.h `vban_rx_handle_packet` | `nu_frame`, ring, MIDI ring | deduplicate, convert, write frame by frame, wait for MIDI room, answer questions | redundant copies, loss, full rings, a wait in the middle of a packet | Transport, JitterBuffer, ReceptorStart, Discovery |
| audio callback reader, F.h `read_from_ringbuffer_async*` | `rxbuf`, `lost_pac_cnt` | read frames, conceal the missing ones, silence a dead source | indices in samples and in frames, a period that ends in a hole | AudioReader |
| sample conversion, F.h `vban_sample_convert`, `convert*` of the ALSA utility | - | float and integer formats of four widths, both byte orders | signs, clipping, three scales for one format | SamplePath |
| buffer sizes, F.h `vban_compute_*`, F.cpp `tune_tx_packets` | sizes of packets, slices, rings and prefill | split a period into packets and slices, size the ring | truncation to 16 bits, odd sizes | TxPackets, JitterBuffer |
| sender, F.h `vban_send_txbuffer`, `vban_send_t32_fragment` | `nuFrame` | send R+1 copies, resend on ICMP errors | copies against the receptor's duplicate test | Transport |
| slice timer, `vban_emitter_jack/main.cpp`, `jack_backend.cpp` | `txdata_ind`, timer, `txbuf` | the callback restarts the timer, its thread sends slices | late slices, restart against a slice under way, change of the period | SlicedTx |
| discovery, F.cpp `scan_receptor` | `iptx`, the socket's `c_addr` | ask every network, read the answers | retries, late answers, one address field for two purposes | Discovery |
| ALSA utility, incoming stream, `vban_alsa_util/main.cpp` | `rxip`, `rxResetTimer`, resampler | the network thread opens and feeds a stream, the audio loop closes it | heap objects shared without a lock | AlsaStream |
| ALSA utility, outgoing stream | `txip`, `_tx_addr`, `srchTimer` | search, send, answer questions | two threads aim one socket | AlsaUtility |
| sound card, `vban_alsa_util/zita-alsa-pcmi.cc` | streams, `_state`, linked or not | open, set parameters, start, wait, recover, transfer | early returns, ignored results, xruns | AlsaPcm, SamplePath |
| rate correction, F.h `cfmed`, `calc_*`, `correct_samplerate`, `MedianFilterInt.h` | filters, `rratio` | measure and set the ratio | a floating-point control loop | not modelled |
| JACK and PipeWire back ends | ports, streams | audio callbacks, change of the period, shutdown | buffers replaced while other threads use them | callbacks in AudioReader, SlicedTx, ReceptorStart |
| option parsing, help, build files, old ALSA back end | - | - | plain input and output, or not built | not modelled |

Vendored and out of scope: `zita-resampler`.

### 1.2 How the parts interact

* Receptor: `rxThread` is the only producer of the rings, the audio callback the
  only consumer, once `main` has published the ring pointers.  `main` and
  `rxThread` exchange the stream's format under `cmdmutex`.
* Multistream receptor: `main` of the server owns the socket and writes packets
  to the pipes of its children; `timerThread` ages and removes clients.  Each
  child is a single-stream receptor in pipe mode.
* Emitter: `scan_receptor` aims the socket, then the audio callback fills `txbuf`
  and either sends it at once or arms a timer, whose thread sends it in slices.
  Redundant and resent copies meet the duplicate test of the receptor.
* ALSA utility: one process is emitter and receptor.  The network thread and the
  audio loop share the resampler, the address of the incoming stream, the silence
  counter and the target address of the one socket they send on; the audio loop
  is paced by the sound card.

### 1.3 What makes each part correct

| part | correct when | properties of the runs |
|---|---|---|
| ring | it is a bounded FIFO for one writer and one reader, with no race and no access outside the storage | `RingInv` `NoDataRace` `ImplementsFifo` `EverythingIsRead` |
| multistream server | the list stays a chain of live clients, no child is forgotten and none killed by mistake, the count is that of the clients, only silent clients are removed, and a silent one is removed in the end | `ServerInv` `NoOrphanChild` `CountIsExact` `SilentClientsOnly` `IdleClientIsReaped` `SearchStaysInList` |
| receptor start | it takes the first stream that fits and no other, uses nothing that is not ready, starts, and does not hang on MIDI | `LocksFirstMatch` `HearsOneStream` `ReadyBeforeWrite` `NoLostWakeup` `AudioStarts` `MidiEnds` `FirstStreamStarts` |
| transport and search | audio goes to a receptor that was found; a packet is heard at most once and in order, and one copy is enough | `AudioGoesToFound` `SearchEnds` `PlayedOnceInOrder` `OneCopyIsEnough` |
| reader, ring size and prefill | lateness and loss within the prefill are not heard; whatever is missing, what was received is played once, in order and on its channel | `NoStarvation` `NoOverflow` `PlayedInOrder` `BufferInv` `DeadIsSilent` |
| packets and slices | packets stay in the buffer, a plain period is sent whole, in slices once and in order before it is overwritten | `ReadsInsideTxbuf` `PlainPeriodIsSent` `LoopEnds` `SliceInv` `PeriodIsSentOnce` |
| ALSA utility | a stream is closed for its silence only, a dead one released, the resampler neither lost nor used after its end; audio reaches the receptor found, and one is found | `ClosedForSilence` `DeadStreamReleased` `OneResampler` `ResamplerAlive` `TargetInv` `ReceptorIsFound` |
| sound card | an open device has all its parameters, the loop never transfers what is not there, the delay does not grow, an xrun is recovered from | `OpenMeansReady` `WaitedMeansReady` `DelayIsBounded` `StoppedIsRestarted` |
| samples | a sample is heard as it was sent, nothing wraps around but what the JACK emitter has no integer for | `HeardAsSent` `ConversionInv` |

Six of these are conjunctions of named parts, each with a comment of its own:

* `RingInv` = `TypeOK`, `OutsideACall`, `Geometry`, `Contents`, `InOrder`
* `ServerInv` = `TypeOK`, `ListIsChain`
* `BufferInv` = `ReaderTypeOK`, `EverySlotWritten`, `ChannelsKept`
* `SliceInv` = `SliceTypeOK`, `SliceInsideTxbuf`, `SlicesCoverPeriod`
* `TargetInv` = `SenderTypeOK`, `AudioReachesReceptor`, `NobodyElseIsHeard`
* `ConversionInv` = `PathTypeOK`, `CardDoesNotWrap`, `LoopIsTrue`, `WideningIsLossless`

Some properties are proved without a run of their own: `CopiesInBounds`,
`PointersTellFill`, `ReservationsHold` and `UnreadIntact` of the ring follow from
`RingInv`, which a run checks; `OnlyLongLossHides` of the transport and the type
invariants of the other proved modules are theorems (section 5).

The hazards of the code, each at its line with the properties that would catch
it, are listed in `PROJECT.json`; those without a property say why.

## 2. Modules and how they correspond to the code

`PROJECT.json` "map" gives the source lines of every definition.  A variable has
the name of the field or local it models; variables marked *history* in a module
exist only for the properties, those marked *external* are of a library.

**ByteFifo** - the abstract specification: a bounded FIFO with atomic `Put` and
`Get`.  No code; `VbanRing` implements it.

**VbanRing** - one thread in `ringbuffer_write`, one in `ringbuffer_read`.  A
step is one read of the other side's pointer (`WriteBegin`, `ReadBegin`, with the
computation of both parts), the copy of one byte by `memcpy` (`WriteCopy`,
`ReadCopy`), or the store of the own pointer (`WritePublish`, `ReadRelease`), so
a wrapped call publishes twice, as the code does.  Bytes are named by their
position in the stream.  Single accesses to a pointer are taken as atomic and in
program order: the header has `volatile` pointers and no fences, which on x86
(TSO) is enough for one producer and one consumer; weaker machines are not
modelled.

**Multistream** - `main`'s MULTISTREAM branch and `timerThread`, one access to
shared memory per step.  Of `main`: the walk over the list (`LoopTest`, `Visit`,
`Refresh`, `Forward`), the decision (`Decide`, `Choose`, `Room`), the walk to the tail
(`Start`, `TailTest`, `Advance`), and the creation of a client through
`client->next` of that old tail, up to the end of the fork: `Link` (the `malloc`),
`Fill`, `Popen`, `StorePid`, `Report`, then the load and store of
`active_clients_num++`.  Of `timerThread`: its pass (`Tick`, `TimerCount`,
`TimerTest`, `TimerVisit`, the load and store of `client->timer++`, `TimerAdvance`),
the pid and the removal of an idle client - `pop` is a load, a `free` and a store
(`PopLoad`, `PopFree`, `PopHead`), `remove_by_index` a walk, a load, a store and a
`free` (`Walk`, `Unlink`, `Relink`, `FreeNode`) - then `Kill`, `Wait`, and the load and
store of the decrement.  A client is named by the order of its `malloc` and a freed
name is not reused (an allocator may reuse it, which could only hide the access).
An access through a null or freed pointer, or to a client `memset` has not cleared
yet, leaves both threads "dead": what the program does then is not defined.  The
histories `lost` (clients linked behind one being removed), `late` (clients whose
reset `timerThread` overlooks), `miscounted` (an increment and a decrement
overlapped) and `age` name the windows the properties speak of.

**ReceptorStart** - `rxThread`'s lock-on and the start of `main` in UDP mode.
`Receive` is one round of `rxThread`'s loop up to the handler; `Handle` and the
steps after it are the audio branch that tells the format (`nboutputs`, then
`samplerate_resampler`, then lock, signal and unlock) or writes to the ring;
`main`'s steps are lock, test, wait, unlock, `new`, `setup`, ring and prefill,
each a store `rxThread` can observe.  A MIDI packet (`HandleSerial`) writes its
events byte by byte into the MIDI ring once `CreateMidiRing` has made it, and
`WriteEvent` waits where the code spins for room; `ReadEvent` is the JACK callback
that empties it.  The command line is chosen by `Init`.  A stream keeps one
rate where a property needs it (`OneRate`); pipe mode and JACK's calls are left out.

**Transport** - `vban_send_txbuffer` / `vban_send_t32_fragment` as a sequence of
copies, an order-keeping network that loses and doubles copies, and the duplicate
test of `vban_rx_handle_packet`.  A restart of the emitter begins again with
number 0.  `NuMod` stands for 2^32.

**Discovery** (extends Transport) - `scan_receptor` on the socket the audio is
sent on afterwards, so that its `c_addr` is both the sender of the last datagram
read and the target of the next one sent: `Ask` one network, `Read` an answer, and
go on to the next network after a match or after `PollTimeout`.  The receptors
answer from what `vban_fill_receptor_info` wrote before a stream was known.
`Audio` is the emitter of `Transport`, whose copies reach `Hearer` if the socket
is aimed at it.  Every behaviour of the composition is one of Transport.

**JitterBuffer** - `vban_compute_rx_ringbuffer`, the space test of the frame loop
and the reader's choice between a frame and concealment, in frames.  The network
is an assumption, with parameters chosen by `Init`: at most `late` periods of delay and
`mayVanish` lost frames; the properties suppose both together within the prefill.

**AudioReader** (extends JitterBuffer) - both readers, `backend` "jack" and
"pipewire", one round of their loop per step: a frame of the ring (`Present`) or
one that is missing (`Missing`: two in a row are predicted, more are left out); the
last round is also the end of the callback, with its `memmove`, its copies to the
ports and the counter of dead periods; PipeWire is handed the whole line of
`rxbuflen` samples, the `Lagrange` frames behind the period included.  `rxbuf` is an
array of samples as in the code; a sample is named
by the position of its frame and its channel, so that a value in the wrong place
or on the wrong channel shows.  What the interpolation computes does not matter.

**TxPackets** - `tune_tx_packets` with the widths of the fields (`Word` is a
`uint16_t`).  `Tune` is the code up to the loop, `Halve` one round, `Finish` the
slices.  The call may come again with another period at any time, as the backends
do.  `txbuf` is its length; `header.format_nbs` and the allocation are left out.

**SlicedTx** (extends TxPackets) - the callback that fills `txbuf` and restarts
the timer, and `tx_timer_thread`: `Wake`, `Send` one slice, and the load and the
store of `txdata_ind`.  Time passes in `Tick`s, `Units` of them a slice; a callback
is up to `jitter` units early or late and the thread up to `latency` units late.
A callback may bring another period, which calls `tune_tx_packets` while the
thread is anywhere.

**AlsaStream** - the network thread and the audio loop of the ALSA utility, one
access to a shared variable per step.  `new` returns any address that is not
live, also the one just freed.  A use or a delete of a dead object sets `fault`
and ends the behaviour.  `rxResetTimer` starts with any value, since an atomic
has no initial value before C++20.  The history `overtaken` says that a packet has
been processed since `main` looked at the counter for the last time before it closes
the stream.  The option `iprx` is not modelled.

**AlsaUtility** (extends AlsaStream) - the rest of that program: main's look at
`txip` and its search (`Look`, `SendPeriod`, `List`, `Aim`, `Ask`), and the texts the network
thread gets: a `Question` aims the socket at the asker until `Restore`, an `Answer`
stores `txip`, and `Found` aims the socket.  While `main` assigns the vector `ips`
(stage "list"), a `Question` reads it: the program may die, or the question be
dropped.  `AlsaStream` supplies the output half.
`setTxTarget` is atomic because it holds `_tx_mutex`; the pair of aiming and
sending is not.

**AlsaPcm** - `Alsa_pcmi` and the loop of `main` that uses it: `initialise` with all
its early returns, priming, `pcm_start`, `pcm_wait` with its two needs, `recover`,
and the transfers.  libasound's two streams are a state and a number of periods
each, linked or not; any call may fail, up to `MaxFaults` times, and the card may
stop for other reasons than an xrun.

**SamplePath** - one sample from the float of an emitter to the sound card:
`vban_sample_convert` of the JACK and PipeWire programs, `convertFloatToVban` and
`convertVbanToFloat` of the ALSA utility, and the play and capture functions of
`Alsa_pcmi`, with bytes as bytes.  A float is counted in units of 2^-23, and the
rounding of a product to 24 bits of mantissa is computed where it decides about a
whole unit (`Units16`, `Units24`).  A scaled sample is clamped where the code clamps
it, before or after the scaling.  What is undefined in C++
(a float that is no `int32_t`) is a choice between the outcomes.

**VbanRingProofs, JitterBufferProofs, TxPacketsProofs, AlsaStreamProofs,
TransportProofs, ReceptorStartProofs, SoundCardProofs, MultistreamProofs** - the
theorems (section 5); those about `Discovery`, `AudioReader`, `SlicedTx` and
`AlsaUtility` are with those of the modules they extend, and SoundCardProofs has
those of both `AlsaPcm` and `SamplePath`, whose definitions are named apart
(`PathInit`, `PathSpec`, ...).
**MCVbanRing, MCMultistream, MCReceptorStart, MCDiscovery** -
values of constants that a `.cfg` cannot write.

The compositions are those that extend another module: the search and the
audio that follows it, the ring's fill and the buffers of the reader, sizes and
slices, the two halves of the ALSA utility.  The remaining interfaces are: the
ring of `JitterBuffer` and the MIDI ring of `ReceptorStart` are the FIFO `VbanRing`
implements, in frames and bytes; `ReceptorStart` ends where `JitterBuffer` begins
(ring built, prefill written); `AlsaPcm` paces the loop of `AlsaUtility`, which
takes whatever periods come.

## 3. Runs

Every run is `tlc -config <cfg> <module>`; `PROJECT.json` "runs" has the names.

| run | checks | bounds, and why they are enough |
|---|---|---|
| `vban_ring` (MCVbanRing.cfg) | the ring's invariant, of which the order of the bytes is a part, races, the refinement of `ByteFifo`, and that all is read | `Size` 5, writes of 1, 3, 5 and reads of 2, 3, 6 bytes, 16 bytes offered: requests smaller than, equal to and larger than what fits, three laps, every alignment of the two pointers at the wrap |
| `multistream` (MCMultistream.cfg) | list, orphans, the count, who is removed, and that the silent are | 3 streams, 3 clients ever created, `ClientsMax` 3, idle after 2 ticks: a client may be first, middle or last when it is removed; the next may be linked behind it, behind its neighbour or through a freed tail, and the two updates of the count may overlap (1.6 million states) |
| `multistream_search` (MCMultistreamCrash.cfg) | **violation** of `SearchStaysInList` | `ClientsMax` 2, idle after 4 ticks as in the code |
| `receptor_start` (MCReceptorStart.cfg) | lock-on, publication order, wakeups, start, the end of a MIDI packet | 6 senders on 2 addresses (audio, MIDI and text, equal names on both, different channels and rates), requests with and without address, name and channels, with and without prefill; MIDI packets of 1, 3 and 10 bytes on a ring of 7, so that one packet is larger than the ring |
| `receptor_midi_first` (MCReceptorStartMidi.cfg) | **violation** of `FirstStreamStarts` | the same |
| `discovery` (MCDiscovery.cfg) | search, then order, no repetition, one copy is enough | 1 or 2 networks; 5 receptors: the one wanted, another stream, a multistream server, one whose name the wanted one begins with, one on this host; 2 answers in the socket; `Redundancy` 1, numbers modulo 3, 6 packets, 3 copies in flight, 2 restarts: the number wraps twice and old copies meet a restarted emitter; an emitter that searches sends one packet, the others the rest |
| `audio_reader` (AudioReader.cfg) | buffers, no starvation, no overflow, order of what is played, silence | periods of 6 frames, 2 channels, `-n 1`, up to 3 periods late, 1 frame lost, 24 frames sent: every pattern of missing frames within a period, more than half and all of it, dead for 2 periods and alive again |
| `sliced_tx` (SlicedTx.cfg) | packets and slices within the buffer, completeness, end of the loop, slices against the callback | periods of 16 to 1024 frames with the odd 441, 1 to 256 channels, three sample sizes, three rates; 8 units a slice, jitter of 1 and latency up to 2: both within the half slice of slack and beyond it; any sequence of changes of the period |
| `alsa_utility` (AlsaUtility.cfg) | stream closed for silence and released, one resampler, target of the socket, receptor found | 2 hosts, a limit of 1 silent period, which a packet may reset at every place between the tests, the increment and the close, 2 heap addresses so that one may be used again, with and without the option `iptx`, one network, search at every second period, 1 answer on the way |
| `alsa_stream_fault` (AlsaStreamFault.cfg) | **violation** of `ResamplerAlive` | 2 hosts, a limit of 2 silent periods, 2 heap addresses |
| `alsa_pcm` (AlsaPcm.cfg) | opening, waiting, delay, recovery | `nfrag` 3 as in `main`, 2 failing calls or stops in any places: an xrun, a failed recovery, and failures of both streams |
| `sample_path` (SamplePath.cfg) | what is heard, clipping, loop, widening | both programs at both ends, 3 formats, 6 formats of the card; magnitudes at every boundary of 8, 16 and 24 bits, where the rounding of a product decides (8356095 and 8388352 of 2^23), at one half and around 1.0, where the clamps differ, and 2.0 |

`CHECK_DEADLOCK FALSE` stands where a behaviour ends: at the bound of the bytes,
frames, packets, clients or indices, or after a fault that leaves the program
undefined.  The runs of `ReceptorStart`, `AlsaPcm` and `SamplePath` check deadlock as well.

Every property of a passing run has a mutant in `PROJECT.json`: a plausible
defect, written beside the definition it replaces and marked "A defect used to
test the properties", under which TLC finds the property violated.

## 4. Fairness

* `VbanRing!FairSpec`: the audio callback runs for ever (weak fairness of
  `Read`), and a call of `ringbuffer_write`, once begun, runs to its end.  The
  network owes nothing: `WriteBegin` has no fairness.
* `Multistream!FairSpec`: `timerThread` is scheduled and a child exits on the
  signal it gets (weak fairness of `Timer`); `main` goes on with the packet it has
  (`MainWork`), since a client it has linked and not counted is out of
  `timerThread`'s sight.  No packet has to come (`Receive`),
  and `main` may wait for ever on the pipe of a child that does not read (`Forward`).
* `ReceptorStart!ThreadSpec`: both threads are scheduled, and JACK goes on calling
  `on_rx_process` once it is started; strong fairness of `Lock` and `MainLock` says
  that a thread that asks for `cmdmutex` again and again gets it - each side holds
  it for a bounded time, and asks again only after a packet or a wakeup.
  `NetworkDelivers` (every sender is heard again and again) is a hypothesis of
  `AudioStarts`, and part of the specification only in the run of
  `FirstStreamStarts`, where it makes the counterexample stronger: the receptor
  does not start although everybody goes on sending.
* `DiscoverySpec`: the emitter runs (weak fairness of `Scan`).  Of the broadcasts
  and answers of a search that does not end, not all are lost: strong fairness
  of a request that reaches a matching receptor and of its answer.  The audio has
  no fairness.
* `JitterBuffer` and `AudioReader` state safety only and have none.
* `SliceSpec`: the call of `tune_tx_packets`, once begun, runs (`TuneStep`).
* `AlsaStream!Spec`: the sound card asks for period after period.
* `UtilitySpec`: the same for the whole audio loop; the network thread goes on
  with what it has begun; of the questions asked again and again one is answered
  and the answer arrives.  `QuestionsEnd` (others stop asking some day) is a
  hypothesis of `ReceptorIsFound`: each question may turn the socket away
  between the two calls of the search.
* `AlsaPcm!Spec`: the program runs, a `poll` is not interrupted by signals for ever,
  and the card moves.

## 5. Theorems

All proofs are checked by TLAPS from the ASSUMEs of the modules only; they hold
for every value of the constants, but for the two whose hypotheses the table names
(the period of `FramesArePlayedInOrder`, the rate of `BuffersFitBeforeWrite`).

| module | theorem | what it says |
|---|---|---|
| VbanRingProofs | `RingInvHolds`, and from it `TypeCorrect` `CopiesStayInBounds` `PointersNeverAmbiguous` `ReservationsAlwaysHold` `DataRaceFreedom` `UnreadBytesIntact` | all safety invariants of the ring, for every size of at least 2 and any requests |
| VbanRingProofs | `RingImplementsFifo` | the ring is the bounded FIFO `ByteFifo`, for every size of at least 2 and any requests |
| JitterBufferProofs | `JitterTypeCorrect` `PrefillCoversLateness` `RingHoldsTheBurst` | the sizes of `vban_compute_rx_ringbuffer` are enough for every period and redundancy 1 to 10 |
| JitterBufferProofs | `BuffersArePlaced` `DeadSourceIsSilenced` `ReadersNeverStarve` | both audio callback readers, for every period, number of channels, Lagrange and number of dead periods |
| JitterBufferProofs | `FramesArePlayedInOrder` | what both readers play and keep is what was received, once and in order, on every channel, for every period of at least `Lagrange` + 3 frames |
| TxPacketsProofs | `TxTypeCorrect` `PacketsStayInTxbuf` | packets and slices never reach past `txbuf`, for every period, channel count, sample size and rate |
| TxPacketsProofs | `PlainPeriodLeavesWhole` `SlicesLeaveNothing` | a period that is a power of two leaves completely, in packets and in slices, for every such period, channel count, sample size and rate |
| TxPacketsProofs | `EachSliceIsInside` `SlicesStayInTxbuf` `TimerThreadIsSafe` | the timer thread of `SlicedTx`, for any delays and unit of time |
| TxPacketsProofs | `RegularPeriodIsSentOnce` | every regular period leaves slice by slice, once, in order and in time, for any number of slices, unit of time, jitter and latency |
| AlsaStreamProofs | `AlsaTypeCorrect` `StreamIsClosedForSilence` `AtMostOneResampler` | for every limit of silent periods, hosts and heap addresses |
| AlsaStreamProofs | `SocketIsAimed` `UtilityKeepsStreamSafe` | the whole utility, for any hosts, networks, options and search interval |
| TransportProofs | `TransportTypeCorrect` `HeardOnceInOrder` `CopyIsHeard` `LossMustBeLong` | for every redundancy, width of the number, loss, duplication and number of restarts |
| TransportProofs | `DiscoveryTypeCorrect` `SearchAimsAtFound` `DiscoveryImplementsTransport` | for any receptors, networks and command lines; the third makes the theorems of Transport hold of an emitter that searches first |
| ReceptorStartProofs | `StartTypeCorrect` `FirstMatchIsLocked` `OneStreamIsHeard` `BuffersFitBeforeWrite` | for any senders and command lines, and any size of the MIDI ring; the last one if a stream keeps its rate |
| SoundCardProofs | `AlsaPcmTypeCorrect` `OpenIsReady` `WaitedIsReady` `DelayStaysBounded` | for every number of periods of the buffer and of failures |
| SoundCardProofs | `EverySampleIsHeard` `EverySampleConverts` | the conversions between any two of the programs and the integer formats of the card, for every multiple of 2^-23 from -2.0 to 2.0 |
| MultistreamProofs | `ListStaysAChain` `NoChildIsForgotten` `PlacesAreCounted` `ClientsGrowOld` | for any streams, limit of clients, idle time and number of clients created |

**The ring.**  None of the properties is inductive: that a call does not
overwrite unread bytes depends on the space it computed from a pointer that has
moved since.  `RingInv` adds `Geometry` - the pointers are `Fill` cells apart,
what the writer has reserved fits in the free space, what the reader has
reserved is stored, a part never crosses the end, and a second part starts at
cell 0 - and `Contents`, which extends `UnreadIntact` over the bytes already
copied but not published.  A stale pointer of the other side only ever
understates the space, so `Geometry` survives the other side's steps.  The
lemmas `ModWrap`, `SpacesTellFill`, `PartsOfARequest` and `AdvanceWraps` do the
modular arithmetic; `WriteCopyKeepsContents` and `ReleaseKeepsContents` the two
steps that touch the bytes.

The refinement needs nothing more: under `RingInv` the bytes pending are the
`Fill` numbers that follow those received, and the output is 1 to `received`, so
that the publication of a part is `Put` of its length (`PublishIsPut`), the release
of a part is `Get` (`ReleaseIsGet`), and every other step stutters.

**The jitter buffer.**  `JitterInv` adds `Balance` (fill = prefill + arrived -
asked), `Clocks` (emitter and callback are at most a period apart) and
`Lateness` (the network's promise for the callback in progress).  `SizesFit`
shows what the arithmetic of the code gives: prefill covers lateness and loss,
and two more periods fit above it.

**The packets.**  `TxInv` adds `PacketsFit` (count times length within `txbuf`,
kept by every halving because both truncation and rounding only lose bytes,
lemma `HalvingLosesOnly`) and `SlicesFit` (slices times packets per slice at most
the packets of the period: the product of the two quotients is at most the
quotient of the product, lemma `SlicesAddNothing`).  The width of the fields
enters only as a number greater than 1.

That nothing of a period is left behind needs more, since a division that leaves a
remainder loses frames for good.  `PlainInv` says `WholeFrames`: packets times frames
of a packet are the frames of the period, and both are powers of two.  Of two
powers of two the smaller divides the larger (`PowersDivide`), and half of one that
is not 1 is another (`PowersHalve`), so that every halving is exact, and so is the
division into slices.

**The readers.**  `ReaderInv` adds `LineOK` and `PortOK` (each sample of `rxbuf` and
of the output is on its channel, and nothing the sound server left reaches
`rxbuf`), `Positioned` (the frames in the ring are those that came and were not
read, so that the next one has a position), `Rounds` (unless three frames in a row
were missing, as many frames are written as rounds are done) and `Silence` (the
counter of the code is at least the dead periods in a row).  The memmove keeps the
channels because its distance is whole frames (`SameChannel`), and its source lies
inside `rxbuf` because fewer than half of the frames are there (`MoveSource`).

`PlayedInOrder` compares a whole period with the history of the ring; `OrderInv`
carries it through the rounds.  While no gap has begun, `Flowing` says that `rxbuf`
is a head of older frames and behind it the frames read since some position `c`,
strictly increasing and complete up to the next one to read (`Run`), with equal
positions on all channels (`Uniform`); if the last period was complete too, head and
body are one such run.  A frame read or predicted makes it one longer
(`WriteFlows`), the last round makes its tail the next head (`EndFlows`,
`TailBecomesHead`).  The step that needs the hypothesis on the period is the last
one: what was played last decides where the kept frames go on, and with at most two
predicted in a row and `Lagrange` kept, a period of `Lagrange` + 3 frames always
plays one that was received.  With 5 frames and a `Lagrange` of 3 TLC finds a period
that plays none, after which `PlayedInOrder` fails; the receptors use 3, and no
sound server offers so short a period.

**The slices.**  `SliceRound` says that a thread which waits when the callback comes
starts the period at slice 0 and never counts beyond the last one, and that nothing
can wake it while the callback computes new sizes.

`PeriodIsSentOnce` is about time.  In a period that began with the thread waiting,
`SlicesOnTime` ties the clock to the slots of the timer: the slices sent are as many
as the timer has expired, without a gap, but for the one that waits for the thread or
is in its hands, which is `lag` units late.  The last slot is half a slice before the
end of the period.  The callback may be early by `jitter` after one that was late by
as much, and the thread is late by at most `latency`; `KeepsUp` puts all three
together below that half slice, so that every slice is out when the callback comes
(`CallbackFindsAllSent`), the thread waits, and the next period begins like this one.

**The ALSA stream.**  `AlsaInv` adds `Counting` (the counter never claims more
silence than there has been, is below its limit when it is incremented, and was
found at its limit before the close, since when only a packet can have reset it) and
`Owner` (the only live object is the one the pointer tells; between `delete` and
the assignment of `nullptr` nobody allocates, because whoever tries has met a
fault before).  `AtMostOneResampler` therefore holds up to and including the step
of a fault; that faults happen is finding 3 below.

**The ALSA utility.**  `Aimed` ties the target of the socket to `txip` when the
network thread is idle; it needs that a search which goes on although a receptor
is known is one in which it was found.  Each step of the utility is a step of
`AlsaStream`, or leaves it alone, or is the death of the program over `ips`
(`Misread`; lemma `UtilityStepIsStreamStep`).

**The transport.**  `PlayedOnceInOrder` needs that the copies on the way and the
ones the emitter still owes are sorted by packet, and none is older than the
packet heard last: the parts of `TransportInv` say this, across restarts too.
`CopyIsHeard` and `LossMustBeLong` need the second invariant, `HidingInv`: a packet
that arrived and is not heard has the number of the one heard before it, and an
emitter that is not restarted counts, so that equal numbers mean a whole turn.

**The search.**  `Aimed` says what `c_addr` may hold at each step of the search and
`Settled` what it holds, with one network, once `iptx` is set.
`DiscoveryImplementsTransport` is a step simulation: the search stutters, a
restart is a restart, and an emitter aimed elsewhere loses its copies.

**The receptor's start.**  `StartInv` ties `iprx` and `rx_streamname` to the history
`first` at every step between the lock-on and the handler.  `FormatInv`, under
`OneRate`, says that `nboutputs` and `samplerate_resampler` are those of the first
stream from the moment `main` is told, so that the resampler and the ring it
builds fit what `rxThread` writes.  `TypeInv` bounds the MIDI ring.

**The sound card.**  `ReadyInOrder` says which parts of a device are ready at each
place of `initialise`; `WaitedInOrder` what `pcm_wait` has established of each stream
while the other one is waited for - only a stop takes it back, and a stop shows
as an error; `DelayInv` that the periods queued and captured in linked streams
add up to `nfrag`, one less between capture and playback, one more if a period
came in between.

**The samples.**  `PathInv` says of every stage that it holds one number: the packet
the bytes of a `v` with `Coded` (within two steps of the float sent, and at the end
of the range if that is clipped), the receptor `Step` times that number, the card
the bytes of `Played`.  It needs that bytes and numbers are one to one
(`SignedOfTwo`, `SignedOfThree`, `CardReadsBack`, with `TopBytes` and `TurnedTwice`
for the words of 32 bits and the byte order) and, of each scaling, clipping and
rounding, an inequality over all integers of the range (`Units16Is`, `PlayInt16Is`,
`PlayedNear`, `Loop16`, `Coded16Is`, ...), which TLC can only sample.  `HalfPlaceIs`
bounds what the rounding of a product can add to it.

**The multistream server.**  `ListIsChain` speaks of the list as `timerThread` leaves
it: `Members`, `Head` and `Succ` are the clients, the head and the links once the
removal under way is done.  It is not inductive.  `ReaperInv` adds

* `Allocation` and `Creation`: a freed client has no successor, a successor is newer,
  and what `main` writes through while it creates a client is that client, a null or
  a freed pointer;
* `Chain`, the list link by link and without gaps, so that an append and a removal
  each touch one or two links (`ChainWithTail`, `ChainWithoutHead`,
  `ChainWithoutNext`);
* `Round`: the place of each pointer of `timerThread` in the list is what its index
  counts (`Scan`, lemmas `NextPlace` and `WalkNears`), so that the walk of
  `remove_by_index` ends before the client found idle (`Removal`), and the loads
  that its stores rely on are still good (`Cut`).  Only `main` changes a link
  meanwhile, and only a null one: if that of the client to be removed, its client
  is `lost`;
* `Ages`: a timer never shows more passes than the client has been silent for, but
  after a reset that is overlooked; `Counting`: what a thread has loaded of the count
  is still there unless the updates overlap; `Killing`: the pid is that of the client
  freed, and never that of the client `main` is about to start.

**Only model-checked**: everything temporal under fairness (`EverythingIsRead`,
`IdleClientIsReaped`, `NoLostWakeup`, `AudioStarts`, `MidiEnds`, `SearchEnds`,
`LoopEnds`, `DeadStreamReleased`, `ReceptorIsFound`, `StoppedIsRestarted`), which
is beyond the prover as ENABLED is.  Every other property of a passing run is stated
by a theorem.

## 6. Where the code departs from what it says

Shown by a run, with the quotation in `PROJECT.json` "findings":

1. `multistream_search`: a client leaves the list before `active_clients_num` is
   decremented (F.cpp:220-239), with a blocking `waitpid` in between; the next
   unknown stream makes `main` follow a null client, against "they will receive
   all the streams" (README.md:10).
2. `receptor_midi_first`: a MIDI packet locks the receptor on to a stream that
   never tells a sample rate, against "it will start receiving the 1st stream"
   (README.md:13).
3. `alsa_stream_fault`: a packet that passed the test of `rxip` uses the resampler
   the audio loop deletes, against the comment of
   vban_alsa_util/main.cpp:698-702.

Met while modelling, without a run of their own.  Receptor and sender:

* The prefill is written into a ring already published to `rxThread` (F.h:599-607),
  against "There may only be a single reader and single writer thread"
  (ringbuffer.h:45-46).
* 1024 frames of 16 float channels are 65536 bytes: `pacdatalen`, a `uint16_t`,
  becomes 0 and no audio is sent, against "nb channel (1 to 256)" (vban.h:37).
  `PlainPeriod` leaves such periods out.
* An odd period such as 441 frames is halved to packets of a fraction of a frame;
  a period shorter than a slice has no slices at all (F.cpp:152), so sliced
  sending needs `nframes >= tx_nframes`, the hypothesis of two parts of `SliceInv`.
* A sender that changes its rate between `setup` of the resampler and the store of
  the ring leaves a resampler for the old rate (F.h:961); `OneRate` is the
  hypothesis of `BuffersFitBeforeWrite`.
* Multistream server: an unlocked update of `active_clients_num` that is lost leaves
  the count too high or too low (main.cpp:262 against F.cpp:239), which
  `CountIsExact` excludes with `miscounted`.
* A client that `main` links behind one that is being removed is lost with its child
  (main.cpp:228 against vban_client_list.cpp:45-47 and 84-86), and what `main` writes
  into the new client it reaches through the old tail, which may be freed by then
  (main.cpp:228-257): the windows of `Intact`.
* A reset of `client->timer` between the load and the store of `timer++`, or after
  the client was found idle, has no effect (main.cpp:173 against F.cpp:219-242): the
  exception of `SilentClientsOnly`.
* `popen2` that fails returns -1; it is stored, and `kill(-1, SIGINT)` is for every
  process of the user (popen2.h:12, F.cpp:234).
* The PipeWire receptor writes the `Lagrange` frames behind the period into the
  server's buffer as well, past its end if all of it was requested
  (pipewire_backend.cpp:363-365).
* The period may change while `rxThread` is in `ringbuffer_write`: the ring is
  freed under it (jack_backend.cpp:615).
* In pipe mode only the header of a SERIAL packet is read, and its data is taken
  for the next header (F.cpp:310); the MIDI packet of the emitter is written to a
  pipe short of its last 28 bytes (jack_backend.cpp:581).
* An emitter with neither name nor address sends to 255.255.255.255.
* The emitters of JACK and PipeWire turn the sign of integer samples, the
  receptors do not (`Polarity`, F.h:342).  At and below -1.0 they have no `int32_t`:
  where the conversion gives INT_MIN, the sample wraps around (`Wraps`).  The ALSA
  emitter clamps after scaling and sends -32768 below -1.0000153 (main.cpp:37).

Search and answers:

* With two or more networks the search reads on after a match, and `c_addr` ends
  at whoever answered last (F.cpp:58-86): `AudioGoesToFound` promises the receptor
  found only for one network.
* Names are compared over the length of the one in the answer, so an answer with an
  empty name matches any stream.
* A multistream server never answers a search: it compares the length of a request
  with that of an audio packet first.  With `-m` the search does not end:
  the branch that would compare the name of the server is empty (F.cpp:73-76).
* What a receptor answers is fixed before it is locked on to a stream.

ALSA utility:

* A question between the two calls of the search turns a broadcast to the asker,
  and the end of a search leaves the socket aimed at a network even if a receptor
  was found meanwhile (main.cpp:655): the hypotheses of `AudioReachesReceptor`.
* A packet processed after `main`'s last test of the counter and before `rxip = 0`
  (main.cpp:694-696) does not keep the stream: `overtaken` in `ClosedForSilence`.
* `rxResetTimer` has no initial value before C++20; if it starts above the limit, a
  stream that sends one packet only is never released (main.cpp:294, 694): the
  hypothesis of `DeadStreamReleased`.
* The vector `ips` is read at main.cpp:556 by the network thread while `main` assigns
  it at 652.
* `iplocal` is never assigned; a full address in the option `iptx` is reset to 0.
* `convertFloatToVban` is called for `nframes` samples instead of
  `nframes * nbinputs` (main.cpp:634).
* `main` ignores what `pcm_start`, `pcm_wait` and `capt_init` return, and compares
  `state()` with an enumerator of another type; after `STATE_FAIL` it loops without
  waiting.  With an empty `ctrldev`, `initialise` fails.

## 7. Assumptions

* The ring: single accesses of pointers are atomic and in program order (x86).
* `Multistream`: at least one stream may send; freed names are not used again;
  `popen2` succeeds.  Left out: the text branch, the bytes through the pipes, the
  emitter of a client in duplex mode (`txpid`), and `remove_last`, which is never
  called, as `index < active_clients_num` there.
* `ReceptorStart`: UDP mode; commands change no state, since no utility allocates
  `context->command`.
* `Transport`: a network that keeps the order, as the duplicate test assumes; the
  history of packets is unbounded only up to `MaxPackets`.
* `Discovery`: one second of sleep and 100 ms of waiting are steps that take any
  time; a receptor does not change what it answers; nobody but receptors answers.
* `JitterBuffer`, `AudioReader`: emitter and receptor at one rate and one period;
  a callback is not interrupted by a change of either.  The first period begins with
  the first callback: what arrives in the start-up window before it is not modelled.
* `SlicedTx`: the callback takes no time; a timer that expires twice before the
  thread looks wakes it once, as `epoll_wait` does; the sizes of a late slice are
  those in the fields when it is sent.  Nothing is promised of a period outside
  `KeepsUp`, with a change of the period under way, or shorter than a slice.
* `AlsaUtility`: no packets of this host are received; `iprx` is not given.
  `AudioReachesReceptor` supposes that no receptor was found during a search
  (`searched`): it does not hold of the rest of such a behaviour.
* `AlsaPcm`: the card moves whole periods, and a commit of more than is available
  is refused; linked streams stop together.
* `SamplePath`: the floats sent are multiples of 2^-23 from -2.0 to 2.0.  The rounding
  of their products is the one of single precision to nearest; a quotient in a
  capture may be either neighbour.  The order of the samples in a packet, its
  padding, and the float formats of the card, which `initialise` asks for first, are
  not modelled.

## 8. Not modelled, and what would come next

* **Change of the period** (jack_backend.cpp:600-620, pipewire_backend.cpp:302-310,
  350-356, 402-435, 491-493): rings, line buffers and `txbuf` are freed while other
  threads use them, without a lock, so that nothing holds of it beyond what
  `AudioReader` and `SlicedTx` show for each period.  A model would carry the
  lifetime of every buffer and show the faults.
* **Rate correction** (`calc_input_samplerate`, `calc_ratio_correction`,
  `correct_samplerate`, `cfmed`, `MedianFilterInt`): a floating-point control loop
  outside what TLC can compute.  The incremental median filters could be checked
  against a sorted window.
* **Pipe mode** (F.cpp:308-322, `vban_send_*` on a FIFO): the framing of packets in
  a byte stream; a child of the multistream server reads that way.
* The MIDI events the emitter sends, and PipeWire's start, stop and change of the
  quantum.
* The `ringbuffer_*` functions nobody calls (peek, vectors, advance, reset,
  mlock), `parse_passport`, and the old ALSA back end, which no utility is built
  with.
* `zita-resampler` (vendored arithmetic), creation and connection of ports, option
  parsing, help and build files: input and output without state of their own.

Next would be the change of the period: its theorem is that the buffers of a period
outlive the threads that use them, which needs a lock the code does not have; until
then the pipe mode is the part most worth a module.
