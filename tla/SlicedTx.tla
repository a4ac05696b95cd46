------------------------------ MODULE SlicedTx ------------------------------
(***************************************************************************)
(* The slicing mode of the JACK emitter (-e): on_tx_process fills txbuf    *)
(* and restarts a timer, tx_timer_thread sends one slice of txbuf whenever *)
(* it expires (src/vban_emitter_jack/main.cpp, jack_backend.cpp,           *)
(* vban_send_t32_fragment).  TxPackets tells the sizes; the two threads    *)
(* share txdata_ind, txbuf and the sizes without any lock.                 *)
(*                                                                         *)
(* Time passes in units of which a slice has Units.  A callback may be     *)
(* jitter units early or late, and the thread ends its work at most        *)
(* latency units after the timer expired.  The callback itself takes no    *)
(* time.                                                                   *)
(***************************************************************************)
EXTENDS TxPackets

CONSTANTS
    Units,                    \* units of time of a slice
    MaxJitter, MaxLatency,    \* bounds of the runs
    MaxIndex                  \* bound of the runs: txdata_ind

ASSUME UnitsAssumption == Units \in Nat \ {0} /\ Units % 2 = 0
ASSUME BoundsAssumption == MaxJitter \in Nat /\ MaxLatency \in Nat /\ MaxIndex \in Nat

VARIABLES
    jitter, latency,   \* what the scheduler does to the two threads
    clock,       \* units since the last callback, -1 before the first one
    offset,      \* how late that callback was
    pending,     \* the timer has expired, the thread has not seen it
    lag,         \* units since then
    tpc,         \* tx_timer_thread: "wait", "send", "load" or "store"
    txdata_ind,
    loaded,      \* the value of txdata_ind the thread has read
    covered,     \* history: bytes of the period sent, from its start
    disorder,    \* history: a slice was sent twice or out of turn
    calm         \* history: the thread was waiting when the callback came

timing == <<jitter, latency>>
timer == <<clock, offset>>
thread == <<pending, lag, tpc, txdata_ind, loaded>>
history == <<covered, disorder, calm>>
slicer == <<jitter, latency, clock, offset, pending, lag, tpc, txdata_ind,
            loaded, covered, disorder, calm>>
svars == <<vars, slicer>>

SliceTypeOK ==
    /\ TypeOK
    /\ jitter \in 0..MaxJitter /\ latency \in 0..MaxLatency
    /\ clock \in Int /\ clock >= -1 /\ offset \in -MaxJitter .. MaxJitter
    /\ pending \in BOOLEAN /\ lag \in 0 .. MaxLatency
    /\ tpc \in {"wait", "send", "load", "store"}
    /\ txdata_ind \in 0 .. MaxIndex + 1 /\ loaded \in 0 .. MaxIndex + 1
    /\ covered \in Nat /\ disorder \in BOOLEAN /\ calm \in BOOLEAN

SliceInit ==
    /\ Init
    /\ jitter \in 0..MaxJitter /\ latency \in 0..MaxLatency
    /\ clock = -1 /\ offset = 0
    /\ pending = FALSE /\ lag = 0 /\ tpc = "wait"
    /\ txdata_ind = 0 /\ loaded = 0
    /\ covered = 0 /\ disorder = FALSE /\ calm = TRUE

(* Units from one callback to the next, and to its earliest and latest     *)
(* moment.                                                                 *)
PeriodUnits == (nframes * Units) \div tx_nframes
Due(late) == clock = PeriodUnits - offset + late

-----------------------------------------------------------------------------
(* jack_init_tx_stream, and the callbacks of an emitter without slices.    *)
Retune(n) ==
    /\ pc = "call" \/ ~slicing
    /\ Tune(n)
    /\ UNCHANGED slicer

(* A defect used to test the properties: txdata_ind is left as it is.      *)
CallbackKeepsIndex(n, late) ==
    /\ slicing /\ pc = "ready"
    /\ clock = -1 \/ Due(late)
    /\ clock' = 0 /\ offset' = late
    /\ pending' = FALSE
    /\ covered' = 0 /\ disorder' = FALSE /\ calm' = (tpc = "wait")
    /\ IF n # nframes THEN Tune(n) ELSE UNCHANGED vars
    /\ UNCHANGED <<timing, lag, tpc, txdata_ind, loaded>>

(* on_tx_process: the timer starts again, which drops an expiration nobody *)
(* has read, and txbuf is filled with the new period.                      *)
Callback(n, late) ==
    /\ slicing /\ pc = "ready"
    /\ clock = -1 \/ Due(late)
    /\ clock' = 0 /\ offset' = late
    /\ pending' = FALSE
    /\ txdata_ind' = 0
    /\ covered' = 0 /\ disorder' = FALSE /\ calm' = (tpc = "wait")
    /\ IF n # nframes THEN Tune(n) ELSE UNCHANGED vars
    /\ UNCHANGED <<timing, lag, tpc, loaded>>

(* The loop of tune_tx_packets, inside the callback. *)
TuneStep == (Halve \/ Finish) /\ UNCHANGED slicer

(* A defect used to test the properties: the first slice after a whole one.*)
ExpiresWhole(t) == t > 0 /\ t % Units = 0

(* slice_period >> 1 to the first expiration, slice_period to each other.  *)
Expires(t) == t % Units = Units \div 2

Busy == pending \/ tpc # "wait"

Tick ==
    /\ slicing /\ pc = "ready"
    /\ clock \in 0 .. PeriodUnits - offset + jitter - 1
    /\ Busy => lag < latency
    /\ clock' = clock + 1
    /\ pending' = (pending \/ Expires(clock'))
    /\ lag' = IF Busy THEN lag + 1 ELSE 0
    /\ UNCHANGED <<vars, timing, offset, tpc, txdata_ind, loaded, history>>

-----------------------------------------------------------------------------
(* tx_timer_thread. *)

(* epoll_wait and read: however often the timer expired, it is one wake-up.*)
Wake ==
    /\ tpc = "wait" /\ pending
    /\ txdata_ind <= MaxIndex
    /\ pending' = FALSE
    /\ tpc' = "send"
    /\ UNCHANGED <<vars, timing, timer, lag, txdata_ind, loaded, history>>

SliceBytes == pacnum_t32 * pacdatalen

(* vban_send_t32_fragment: the packets of slice txdata_ind. *)
Send ==
    /\ tpc = "send"
    /\ IF txdata_ind * SliceBytes = covered
         THEN covered' = covered + SliceBytes /\ UNCHANGED disorder
         ELSE disorder' = TRUE /\ UNCHANGED covered
    /\ tpc' = "load"
    /\ UNCHANGED <<vars, timing, timer, pending, lag, txdata_ind, loaded, calm>>

(* txdata_ind++ and txdata_ind = 0 are a load and a store. *)
Load ==
    /\ tpc = "load"
    /\ loaded' = txdata_ind
    /\ tpc' = "store"
    /\ UNCHANGED <<vars, timing, timer, pending, lag, txdata_ind, history>>

Store ==
    /\ tpc = "store"
    /\ txdata_ind' = IF loaded = tx_transactions - 1 THEN 0 ELSE loaded + 1
    /\ lag' = 0 /\ loaded' = 0
    /\ tpc' = "wait"
    /\ UNCHANGED <<vars, timing, timer, pending, history>>

-----------------------------------------------------------------------------
SliceNext ==
    \/ \E n \in Periods : Retune(n)
    \/ \E n \in Periods, late \in -jitter .. jitter : Callback(n, late)
    \/ TuneStep
    \/ Tick \/ Wake \/ Send \/ Load \/ Store

SliceSpec == SliceInit /\ [][SliceNext]_svars /\ WF_svars(TuneStep)

-----------------------------------------------------------------------------
(* Properties. *)

(* The half slice before the first slice is what both threads may lose.    *)
KeepsUp == 2 * jitter + latency < Units \div 2

(* A period that a number of slices of whole packets makes up. *)
Regular == KeepsUp /\ slicing /\ PlainPeriod /\ nframes >= tx_nframes

(* The callback that ends a period. *)
Restarted == clock > 0 /\ clock' = 0

(* While both threads together are less than half a slice late, each byte  *)
(* of a period leaves once and in order before the next period overwrites  *)
(* it, also when the period has just changed (jack_backend.cpp:520-521,    *)
(* emitter main.cpp:50-66): the timer is periodic and nobody stops it      *)
(* after the last slice.  Then the thread also waits when the callback     *)
(* comes, so that tune_tx_packets may free txbuf and txdata_ind may be     *)
(* reset (vban_functions.cpp:124-127), and so from period to period.       *)
PeriodIsSentOnce ==
    [][Restarted /\ Regular /\ calm =>
         covered = txbuflen /\ ~disorder /\ calm']_svars

(* A slice is copied from inside txbuf, for every period of at least one   *)
(* slice, whatever the period before was (vban_functions.h:711-713).       *)
SliceInsideTxbuf ==
    tpc = "send" /\ slicing /\ pc = "ready" /\ KeepsUp /\ calm /\ nframes >= tx_nframes =>
      (txdata_ind + 1) * SliceBytes <= txbuflen

(* What the timer thread relies on.                                        *)
SliceInv == SliceTypeOK /\ SliceInsideTxbuf /\ SlicesCoverPeriod

=============================================================================
