------------------------------ MODULE TxPackets ------------------------------
(***************************************************************************)
(* How an emitter cuts a period of audio into packets, and packets into    *)
(* slices: tune_tx_packets (src/vban_common/vban_functions.cpp), called    *)
(* when the client is created and whenever the period changes, with the    *)
(* integer widths of vban_stream_context_t.                                *)
(*                                                                         *)
(* The options are chosen by Init; the period is chosen at every call.     *)
(***************************************************************************)
EXTENDS Integers

CONSTANTS
    Periods,       \* values of nframes
    Channels,      \* values of nbinputs (-c)
    SampleSizes,   \* bytes of a sample: VBanBitResolutionSize of -f
    Rates          \* sample rates of the audio server

UINT16 == 65536                \* values of a uint16_t
VBAN_CHANNELS_MAX_NB == 256

ASSUME PeriodsAssumption == Periods \subseteq 1 .. UINT16 - 1
ASSUME ChannelsAssumption == Channels \subseteq 1..VBAN_CHANNELS_MAX_NB
ASSUME SampleSizesAssumption == SampleSizes \subseteq {2, 3, 4}
ASSUME RatesAssumption == Rates \subseteq Nat \ {0}

VBAN_DATA_MAX_SIZE == 1464 - 28
VBAN_SAMPLES_MAX_NB == 256

VARIABLES
    nbinputs, size, samplerate,   \* the options, constant after Init
    slicing,                      \* flags & SLICING
    nframes, txbuflen,
    pacdatalen, vban_nframes_pac, pacnum,
    max_packet_frames,            \* local of tune_tx_packets
    tx_nframes, tx_transactions, pacnum_t32, slice_period,
    pc                            \* "call", "loop" in tune_tx_packets, or "ready"

options == <<nbinputs, size, samplerate>>
packets == <<pacdatalen, vban_nframes_pac, pacnum>>
slices == <<tx_transactions, pacnum_t32, slice_period>>
vars == <<nbinputs, size, samplerate, slicing, nframes, txbuflen, pacdatalen,
          vban_nframes_pac, pacnum, max_packet_frames, tx_nframes,
          tx_transactions, pacnum_t32, slice_period, pc>>

(* uint16_t *)
Word(n) == n % UINT16

TypeOK ==
    /\ nbinputs \in Channels /\ size \in SampleSizes /\ samplerate \in Rates
    /\ slicing \in BOOLEAN
    /\ nframes \in Periods \cup {0} /\ txbuflen \in Nat
    /\ pacdatalen \in 0 .. UINT16 - 1 /\ vban_nframes_pac \in Nat
    /\ pacnum \in 0 .. UINT16 - 1
    /\ max_packet_frames \in {0, 64, 128, 256}
    /\ tx_nframes \in {32, 64, 128, 256}
    /\ tx_transactions \in 0 .. UINT16 - 1 /\ pacnum_t32 \in 0 .. UINT16 - 1
    /\ slice_period \in Nat
    /\ pc \in {"call", "loop", "ready"}

(* main of the emitter, get_emitter_options. *)
Init ==
    /\ nbinputs \in Channels /\ size \in SampleSizes /\ samplerate \in Rates
    /\ slicing \in BOOLEAN
    /\ nframes = 0 /\ txbuflen = 0
    /\ pacdatalen = 0 /\ vban_nframes_pac = 0 /\ pacnum = 0
    /\ max_packet_frames = 0
    /\ tx_nframes = 32 /\ tx_transactions = 0 /\ pacnum_t32 = 0
    /\ slice_period = 0
    /\ pc = "call"

(* Frames of a slice: between 0.6 and 1.5 ms. *)
SliceFrames ==
    IF samplerate < 88200 THEN 64
    ELSE IF samplerate < 176400 THEN 128
    ELSE 256

TooFast == samplerate >= 352800

(* tune_tx_packets up to its loop: one packet for the whole period. *)
Tune(n) ==
    /\ pc \in {"call", "ready"}
    /\ n # nframes
    /\ nframes' = n
    /\ txbuflen' = n * nbinputs * size
    /\ pacnum' = 1
    /\ vban_nframes_pac' = n
    /\ pacdatalen' = Word(n * nbinputs * size)
    /\ IF slicing
         THEN /\ tx_nframes' = SliceFrames
              /\ max_packet_frames' = SliceFrames
              /\ slicing' = ~TooFast
         ELSE /\ max_packet_frames' = VBAN_SAMPLES_MAX_NB
              /\ UNCHANGED <<slicing, tx_nframes>>
    /\ pc' = "loop"
    /\ UNCHANGED <<options, slices>>

(* A defect used to test the properties: the limit of 256 samples          *)
(* forgotten.                                                              *)
TooLongInBytesOnly == pacdatalen > VBAN_DATA_MAX_SIZE

TooLong ==
    \/ pacdatalen > VBAN_DATA_MAX_SIZE
    \/ vban_nframes_pac > max_packet_frames

(* A defect used to test the properties: rounding up. *)
HalfUp(n) == (n + 1) \div 2

Half(n) == n \div 2

(* A defect used to test the properties: the frames are not halved. *)
HalveBytesOnly ==
    /\ pc = "loop"
    /\ TooLong
    /\ pacnum' = Word(pacnum * 2)
    /\ pacdatalen' = Half(pacdatalen)
    /\ UNCHANGED <<options, slicing, nframes, txbuflen, vban_nframes_pac,
                   max_packet_frames, tx_nframes, slices, pc>>

(* Twice as many packets of half the size. *)
Halve ==
    /\ pc = "loop"
    /\ TooLong
    /\ pacnum' = Word(pacnum * 2)
    /\ vban_nframes_pac' = Half(vban_nframes_pac)
    /\ pacdatalen' = Half(pacdatalen)
    /\ UNCHANGED <<options, slicing, nframes, txbuflen, max_packet_frames,
                   tx_nframes, slices, pc>>

(* pacnum * tx_nframes / nframes *)
PacketsPerSlice(p) == Word((p * tx_nframes) \div nframes)

(* n * 1000000000 / samplerate, in steps that fit TLC's integers. *)
Nanoseconds(n) ==
    ((n * 1000000) \div samplerate) * 1000
      + (((n * 1000000) % samplerate) * 1000) \div samplerate

(* The slices, if the period is sent in slices. *)
Finish ==
    /\ pc = "loop"
    /\ ~TooLong
    /\ IF slicing
         THEN /\ tx_transactions' = nframes \div tx_nframes
              /\ pacnum_t32' = PacketsPerSlice(pacnum)
              /\ slice_period' = Nanoseconds(tx_nframes) + 1
         ELSE UNCHANGED slices
    /\ pc' = "ready"
    /\ UNCHANGED <<options, slicing, nframes, txbuflen, packets,
                   max_packet_frames, tx_nframes>>

Next == (\E n \in Periods : Tune(n)) \/ Halve \/ Finish

Spec == Init /\ [][Next]_vars

FairSpec == Spec /\ WF_vars(Halve \/ Finish)

-----------------------------------------------------------------------------
(* Properties. *)

(* What leaves the emitter, in bytes from the start of txbuf: all packets  *)
(* (vban_send_txbuffer), or the packets of one slice times the slices      *)
(* (vban_send_t32_fragment and tx_timer_thread).                           *)
SentAtOnce == pacnum * pacdatalen
SentInSlices == tx_transactions * pacnum_t32 * pacdatalen

PowersOfTwo == {2 ^ k : k \in 0..15}
PlainPeriod == nframes \in PowersOfTwo /\ txbuflen < 65536

(* The packets never reach past the period in txbuf, whatever its length:  *)
(* rounding and the 16 bits of the fields only ever lose bytes             *)
(* (vban_functions.h:678 and 712).                                         *)
ReadsInsideTxbuf ==
    pc = "ready" =>
      /\ SentAtOnce <= txbuflen
      /\ slicing => SentInSlices <= txbuflen

(* A period that is a power of two, of less than 64 KiB, leaves in whole   *)
(* frames and completely, in packets the header can describe               *)
(* (vban_functions.cpp:145-150).                                           *)
PlainPeriodIsSent ==
    pc = "ready" /\ PlainPeriod =>
      /\ SentAtOnce = txbuflen
      /\ pacdatalen = vban_nframes_pac * nbinputs * size
      /\ vban_nframes_pac \in 1..VBAN_SAMPLES_MAX_NB

(* The same in slices, as long as the period is at least one slice: every  *)
(* slice has packets, and together they are all the packets                *)
(* (vban_functions.cpp:152-156).                                           *)
SlicesCoverPeriod ==
    pc = "ready" /\ PlainPeriod /\ slicing /\ nframes >= tx_nframes =>
      SentInSlices = txbuflen

(* The loop ends, for every period and number of channels.  *)
LoopEnds == (pc = "loop") ~> (pc = "ready")

=============================================================================
