----------------------------- MODULE AudioReader -----------------------------
(***************************************************************************)
(* What the audio callback of a receptor makes of the frames it finds, and *)
(* of those it does not: read_from_ringbuffer_async_non_interleaved for    *)
(* JACK, read_from_ringbuffer_async for PipeWire                           *)
(* (src/vban_common/vban_functions.h), with the parts of on_rx_process     *)
(* around them.  JitterBuffer tells when the ring is empty; here are the   *)
(* line buffer rxbuf, the buffers handed to the sound server, and the      *)
(* counter of dead periods.                                                *)
(*                                                                         *)
(* A sample is known by the position of its frame in the stream (prefill   *)
(* included, from 1) and its channel; the value smoothing and prediction   *)
(* compute for it does not matter.  rxbuf is an array of samples, as in    *)
(* the code, since memmove and memcpy work on samples and not on frames.   *)
(***************************************************************************)
EXTENDS JitterBuffer

CONSTANTS
    Channels,    \* context->nboutputs
    Lagrange,    \* context->lagrange_num, 3 in both receptors
    DeadPeriods  \* lost_pac_cnt that silences the output: 9 in the code

ASSUME ChannelsAssumption == Channels \in Nat \ {0}
ASSUME LagrangeAssumption == Lagrange \in Nat
ASSUME DeadPeriodsAssumption == DeadPeriods \in Nat \ {0}

VARIABLES
    backend,         \* "jack" or "pipewire"
    rxbuf,           \* context->rxbuf
    out,             \* what is written for the sound server, before muting
    muted,           \* zeros are handed over instead of it
    lframe, llost, lost,   \* locals of the callback
    lost_pac_cnt,
    owed,            \* history: last position of the periods before
    gap,             \* history: three frames in a row missed, this period
    gapBefore,       \* ... the period before
    dead             \* history: complete periods missed in a row

locals == <<lframe, llost, lost>>
history == <<owed, gap, gapBefore, dead>>
reader == <<backend, rxbuf, out, muted, lframe, llost, lost, lost_pac_cnt,
            owed, gap, gapBefore, dead>>
rvars == <<vars, reader>>

(* What a sample can be other than a position of the stream: zero, a value *)
(* predicted from its predecessors, the contents of fresh memory, and, in  *)
(* a port buffer, whatever the server left there.                          *)
Zero == 0
Guess == -1
Fresh == -2
Unwritten == -3
Sample == (Nat \cup {Zero, Guess, Fresh, Unwritten}) \X (0 .. Channels - 1)

(* The samples of rxbuf, rxbuflen of them, and those of them in a period.  *)
(* A JACK port has no place behind the period.                             *)
Line == 0 .. Channels * (NFrames + Lagrange) - 1
Period == 0 .. Channels * NFrames - 1

Fill(indices, value) == [p \in indices |-> <<value, p % Channels>>]

ReaderTypeOK ==
    /\ TypeOK
    /\ backend \in {"jack", "pipewire"}
    /\ rxbuf \in [Line -> Sample] /\ out \in [Line -> Sample]
    /\ muted \in BOOLEAN
    /\ lframe \in 0..NFrames /\ llost \in 0..NFrames /\ lost \in 0..NFrames
    /\ lost_pac_cnt \in 0 .. DeadPeriods + 1
    /\ owed \in Nat /\ gap \in BOOLEAN /\ gapBefore \in BOOLEAN
    /\ dead \in 0..DeadPeriods

(* vban_compute_rx_buffer allocates rxbuf and does not clear it. *)
ReaderInit ==
    /\ Init
    /\ backend \in {"jack", "pipewire"}
    /\ rxbuf = Fill(Line, Fresh) /\ out = Fill(Line, Unwritten)
    /\ muted = FALSE
    /\ lframe = 0 /\ llost = 0 /\ lost = 0
    /\ lost_pac_cnt = 0
    /\ owed = 0 /\ gap = FALSE /\ gapBefore = FALSE /\ dead = 0

-----------------------------------------------------------------------------
(* Operations on the buffers. *)

(* A defect used to test the properties: the tail is not kept. *)
TailStays(buf) == buf

(* memcpy: the Lagrange frames behind the period become its head. *)
TailToHead(buf) ==
    [p \in Line |-> IF p < Lagrange * Channels THEN buf[NFrames * Channels + p]
                                               ELSE buf[p]]

PutFrame(buf, frame, value) ==
    [p \in Line |-> IF p \div Channels = frame THEN <<value, p % Channels>>
                                               ELSE buf[p]]

(* buffers[channel][frame] = the frame of rxbuf with the same number *)
CopyFrames(buffers, buf, frames) ==
    [p \in Line |-> IF p \div Channels \in frames THEN buf[p] ELSE buffers[p]]

(* memmove of the n frames behind the n-th to the end; the Lagrange frames *)
(* of the head are counted as samples.                                     *)
MoveUp(buf, n) ==
    LET dst == Channels * (NFrames - 1 - n) + Lagrange
        src == Channels * n + Lagrange
    IN [p \in Line |-> IF p \in dst .. dst + Channels * n - 1
                         THEN buf[p - dst + src] ELSE buf[p]]

-----------------------------------------------------------------------------
(* The end of a callback: buf and port are the buffers after its loop,     *)
(* done the frames written, missed the frames lost.                        *)

(* A defect used to test the properties: the counter stops too early. *)
CountDeadShort(missed) ==
    IF missed = NFrames /\ lost_pac_cnt < DeadPeriods - 1
      THEN lost_pac_cnt + 1 ELSE lost_pac_cnt

CountDead(missed) ==
    IF missed = NFrames /\ lost_pac_cnt < DeadPeriods + 1
      THEN lost_pac_cnt + 1 ELSE lost_pac_cnt

(* lost_pac_cnt is never cleared in this variant. *)
FinishJack(buf, port, done, missed) ==
    LET few == done < NFrames \div 2
        moved == IF few THEN MoveUp(buf, done) ELSE buf
    IN /\ rxbuf' = moved
       /\ out' = IF few
                   THEN CopyFrames(port, moved, NFrames - 1 - done .. NFrames - 1)
                   ELSE port
       /\ lost_pac_cnt' = CountDead(missed)
       /\ muted' = (missed = NFrames /\ lost_pac_cnt' >= DeadPeriods)

(* rxbuf is zeroed once, on_rx_process looks at the counter again.  Its    *)
(* memcpy, like the memset when muted, is of rxbuflen samples: the line    *)
(* with the frames behind the period, which end up behind the period in    *)
(* the server's buffer, and behind the buffer when the server asks for all *)
(* it holds.  chunk->size counts the period.                               *)
FinishPipewire(buf, done, missed) ==
    LET moved == IF done < NFrames \div 2 THEN MoveUp(buf, done) ELSE buf
    IN /\ lost_pac_cnt' = IF missed = 0 THEN 0 ELSE CountDead(missed)
       /\ rxbuf' = IF missed = NFrames /\ lost_pac_cnt' = DeadPeriods
                     THEN Fill(Line, Zero) ELSE moved
       /\ out' = rxbuf'
       /\ muted' = (lost_pac_cnt' >= DeadPeriods)

(* The buffers after a round of the loop; the last round ends the call. *)
After(buf, port, done, missed) ==
    /\ lframe' = done /\ lost' = missed
    /\ IF left > 1
         THEN rxbuf' = buf /\ out' = port /\ UNCHANGED <<lost_pac_cnt, muted, dead>>
         ELSE /\ IF backend = "jack" THEN FinishJack(buf, port, done, missed)
                                     ELSE FinishPipewire(buf, done, missed)
              /\ dead' = IF missed < NFrames THEN 0
                         ELSE IF dead < DeadPeriods THEN dead + 1 ELSE dead

(* A frame behind those already there, and for JACK the frame Lagrange     *)
(* before it to the ports.                                                 *)
Write(value, missed) ==
    LET buf == PutFrame(rxbuf, lframe + Lagrange, value)
        port == IF backend = "jack" THEN CopyFrames(out, buf, {lframe}) ELSE out
    IN After(buf, port, lframe + 1, missed)

(* The position of the frame the ring returns next. *)
NextPosition == Prefill + arrived - dropped - fill + 1

-----------------------------------------------------------------------------
(* The largest position played so far. *)
LastPlayed ==
    LET played == {out[p][1] : p \in Period}
        Newest(n) == n > owed /\ \A m \in played : m <= n
    IN IF \E n \in played : Newest(n) THEN CHOOSE n \in played : Newest(n)
                                      ELSE owed

(* on_rx_process before the read: the period does not change, so neither   *)
(* rxbuf nor the ring is built again.                                      *)
Begin ==
    /\ CallbackBegin
    /\ rxbuf' = TailToHead(rxbuf)
    /\ lframe' = 0 /\ llost' = 0 /\ lost' = 0
    /\ owed' = LastPlayed /\ gap' = FALSE /\ gapBefore' = gap
    /\ UNCHANGED <<backend, muted, lost_pac_cnt, dead>>

(* jack_port_get_buffer: what is in a port buffer is not known. *)
BeginJack ==
    /\ backend = "jack"
    /\ Begin
    /\ out' = Fill(Line, Unwritten)

(* pw_stream_dequeue_buffer: without a buffer the callback returns, which  *)
(* is a callback that does not begin.  The buffer is written at the end.   *)
BeginPipewire ==
    /\ backend = "pipewire"
    /\ Begin
    /\ UNCHANGED out

(* A frame of the ring. *)
Present ==
    /\ ReadFrame
    /\ fill > 0
    /\ llost' = 0
    /\ Write(NextPosition, lost)
    /\ UNCHANGED <<backend, owed, gap, gapBefore>>

(* A defect used to test the properties: a predicted frame is kept in      *)
(* rxbuf and the port is not written.                                      *)
PredictUnheard ==
    /\ ReadFrame
    /\ fill = 0
    /\ llost' = llost + 1
    /\ gap' = (gap \/ llost' >= 3)
    /\ IF llost' < 3
         THEN After(PutFrame(rxbuf, lframe + Lagrange, Guess), out, lframe + 1, lost + 1)
         ELSE After(rxbuf, out, lframe, lost + 1)
    /\ UNCHANGED <<backend, owed, gapBefore>>

(* The ring is empty: two frames in a row are predicted, more are left out.*)
Missing ==
    /\ ReadFrame
    /\ fill = 0
    /\ llost' = llost + 1
    /\ gap' = (gap \/ llost' >= 3)
    /\ IF llost' < 3 THEN Write(Guess, lost + 1)
                     ELSE After(rxbuf, out, lframe, lost + 1)
    /\ UNCHANGED <<backend, owed, gapBefore>>

ReaderNext ==
    \/ (Emit \/ Vanish \/ Deliver) /\ UNCHANGED reader
    \/ BeginJack \/ BeginPipewire \/ Present \/ Missing

ReaderSpec == ReaderInit /\ [][ReaderNext]_rvars

-----------------------------------------------------------------------------
(* Properties, at the end of a callback. *)

Ended == left = 0 /\ asked > 0

(* The position at a frame of the period or of those kept behind it.       *)
At(frame, channel) ==
    (IF frame < NFrames THEN out ELSE rxbuf)[Channels * frame + channel][1]

(* Prediction fills holes and nothing else: unless three frames in a row   *)
(* were missing in this period or the one before, the period played and    *)
(* the frames kept for the next one hold all frames read from the ring, in *)
(* order and once, from the one after the last played before, on every     *)
(* channel (vban_functions.h:749, 820-848).                                *)
PlayedInOrder ==
    Ended /\ ~gap /\ ~gapBefore =>
      \A c \in 0 .. Channels - 1 :
        LET held == {i \in 0 .. NFrames + Lagrange - 1 : At(i, c) > 0}
        IN /\ {At(i, c) : i \in held} = owed + 1 .. NextPosition - 1
           /\ \A i, j \in held : i < j => At(i, c) < At(j, c)

(* Unless three frames in a row were missing, every sample of the period   *)
(* is written: the server plays nothing it finds in its buffer             *)
(* (vban_functions.h:833-848).                                             *)
EverySlotWritten ==
    Ended /\ ~gap => \A p \in Period : out[p][1] # Unwritten

(* However many frames are missing and moved, a sample is played on its    *)
(* channel: the offset memmove counts in samples is the same on both sides *)
(* (vban_functions.h:776-779, 851-857).                                    *)
ChannelsKept ==
    \A p \in Line : out[p][2] = p % Channels

(* What the buffers hold at any time.                                      *)
BufferInv == ReaderTypeOK /\ EverySlotWritten /\ ChannelsKept

(* A source that has been dead for DeadPeriods periods in a row is         *)
(* silenced, one that delivers a complete period is heard at once, however *)
(* often it was dead before (vban_functions.h:794-807, 860-872).           *)
DeadIsSilent ==
    Ended => /\ dead = DeadPeriods => muted
             /\ lost = 0 => ~muted

=============================================================================
