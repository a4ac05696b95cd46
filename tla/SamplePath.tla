----------------------------- MODULE SamplePath -----------------------------
(***************************************************************************)
(* What becomes of one sample on its way from an emitter to the sound card *)
(* of a receptor: vban_sample_convert (src/vban_common/vban_functions.h)   *)
(* of the JACK and PipeWire programs, convertFloatToVban and               *)
(* convertVbanToFloat of the ALSA utility (src/vban_alsa_util/main.cpp),   *)
(* and the play and capt functions of Alsa_pcmi (zita-alsa-pcmi.cc), with  *)
(* bytes as bytes.                                                         *)
(*                                                                         *)
(* A float is counted in units of 2^-23; a quotient between two of them    *)
(* may be either.  A product is rounded to 24 bits before it is rounded or *)
(* cut to a whole number, which for some samples decides about a unit.     *)
(***************************************************************************)
EXTENDS Integers, Sequences

CONSTANT Magnitudes   \* of the floats to send

One == 2 ^ 23      \* 1.0f

ASSUME MagnitudesAssumption == Magnitudes \subseteq 0 .. 2 * One

Samples == Magnitudes \cup {-m : m \in Magnitudes}

VARIABLES
    from, to,    \* the two programs: "jack" (or PipeWire) or "alsa"
    format,      \* of the stream: "16", "24" or "float"
    device,      \* format of the card: [width, big], width 4 or "float"
    stage,
    sent,        \* the float the emitter starts with
    data,        \* the sample in the packet: a float or a sequence of bytes
    heard,       \* the float of the receptor
    cardbuf,     \* the sample in the buffer of the sound card
    looped       \* what a capture from a looped back card reads

path == <<from, to, format, device>>
pathVars == <<from, to, format, device, stage, sent, data, heard, cardbuf, looped>>

Bytes(f) == CASE f = "8" -> 1 [] f = "16" -> 2 [] f = "24" -> 3 [] OTHER -> 4

-----------------------------------------------------------------------------
(* Bytes, least significant first. *)

Weight == <<1, 256, 65536>>
LittleEndian(v, n) == [i \in 1..n |-> (v \div Weight[i]) % 256]

(* A defect used to test the properties: the top byte is not signed. *)
UnsignedOf(b) == b[1] + 256 * b[2] + (IF Len(b) > 2 THEN 65536 * b[3] ELSE 0)

(* int8_t, int16_t, or three bytes with the sign extended. *)
SignedOf(b) ==
    LET n == Len(b)
        high == IF b[n] >= 128 THEN b[n] - 256 ELSE b[n]
    IN CASE n = 1 -> high
         [] n = 2 -> b[1] + 256 * high
         [] OTHER -> b[1] + 256 * b[2] + 65536 * high

BigEndian(b) == [i \in 1..Len(b) |-> b[Len(b) + 1 - i]]

Top(b, n) == SubSeq(b, Len(b) - n + 1, Len(b))
Zeros(n) == [i \in 1..n |-> 0]

(* The floats next to a/b, and a/b rounded to a number. *)
Quotient(a, b) ==
    IF a % b = 0 THEN {a \div b} ELSE {a \div b, (a \div b) + 1}
Rounded(a, b) ==
    IF a >= 0 THEN (2 * a + b) \div (2 * b) ELSE -((b - 2 * a) \div (2 * b))

-----------------------------------------------------------------------------
(* vban_sample_convert. *)

(* (int32_t)roundf((float)(1 << 31) * s): the factor is negative.  What is *)
(* not an int32_t is undefined: INT_MIN, or the nearest int32_t.           *)
Times1Shl31(s) ==
    IF -s \in -One .. One - 1
      THEN {<<0>> \o LittleEndian(-s, 3)}
      ELSE {<<0, 0, 0, 128>>,
            IF s < 0 THEN <<255, 255, 255, 127>> ELSE <<0, 0, 0, 128>>}

FloatToInt(dst, s) ==
    IF dst = "8" THEN {LittleEndian(Rounded(s, 2 ^ 16), 1)}
                 ELSE {Top(b, Bytes(dst)) : b \in Times1Shl31(s)}

(* A narrower sample is its top bytes, a wider one has zeros below. *)
IntToInt(dst, b) ==
    IF Bytes(dst) <= Len(b) THEN Top(b, Bytes(dst))
                            ELSE Zeros(Bytes(dst) - Len(b)) \o b

(* The byte of 8 bits is unsigned, and of 32 bits the sign is turned, as   *)
(* the factor above; its low byte is below the unit.                       *)
IntToFloat(b) ==
    CASE Len(b) = 1 -> b[1] * 2 ^ 16
      [] Len(b) = 2 -> SignedOf(b) * 2 ^ 8
      [] Len(b) = 3 -> SignedOf(b)
      [] OTHER -> -SignedOf(Top(b, 3))

-----------------------------------------------------------------------------
(* Products of single precision: of a float of m units, 0 <= m <= 2^24.    *)

(* Half the last place of the float 32767 * m: a power of 2, at most m/512.*)
Places == {1, 2, 4, 8, 16, 32, 64, 128, 256, 512, 1024, 2048, 4096, 8192, 16384, 32768}
HalfPlace(m) ==
    IF m < 512 THEN 0 ELSE CHOOSE h \in Places : 512 * h <= m /\ m < 1024 * h

(* The whole numbers in 32767 * m / 2^23 and half (0 or 1) halves: for     *)
(* m = 256 * a + b it is a and (2^15 * b - m) / 2^23.  A product that is   *)
(* less than half a place below such a number is rounded up to it.         *)
Units16(m, half) ==
    (m \div 256)
      + (((m % 256) * 2 ^ 15 - m) + HalfPlace(m) + half * 2 ^ 22) \div One

(* 8388607 * m / 2^23 rounded: m less a fraction, which the float has in   *)
(* halves above 2^22 and counts as 1 from 3/4 on.                          *)
Units24(m) == IF 4 * m < 3 * One THEN m ELSE m - 1

Magnitude(s) == IF s < 0 THEN -s ELSE s
WithSignOf(s, m) == IF s < 0 THEN -m ELSE m

-----------------------------------------------------------------------------
(* The ALSA utility. *)

(* A defect used to test the properties: the clamp is forgotten. *)
Unclamped(v, whole) == v

(* The clamp to whole numbers makes the same of the scaled sample as of    *)
(* the rounded one.                                                        *)
Clamp(v, whole) ==
    IF v > whole - 1 THEN whole - 1 ELSE IF v < -whole THEN -whole ELSE v

(* convertFloatToVban: scale, clamp, round.                                *)
FloatToVban(f, s) ==
    LET m == Magnitude(s)
    IN IF f = "16"
         THEN LittleEndian(Clamp(WithSignOf(s, Units16(m, 1)), 2 ^ 15), 2)
         ELSE LittleEndian(Clamp(WithSignOf(s, Units24(m)), One), 3)

(* convertVbanToFloat *)
VbanToFloat(b) == IF Len(b) = 2 THEN SignedOf(b) * 2 ^ 8 ELSE SignedOf(b)

-----------------------------------------------------------------------------
(* Alsa_pcmi: the functions initialise chooses for a format. *)

(* 0x7fff * s without the fraction, or 0x7fff and 0x8001 for a clipped one *)
PlayInt16(s) ==
    IF s > One THEN 32767 ELSE IF s < -One THEN -32767
    ELSE WithSignOf(s, Units16(Magnitude(s), 0))

(* The same with 0x7fffff: a unit less than the float, but for zero. *)
PlayInt24(s) ==
    IF s > One THEN One - 1 ELSE IF s < -One THEN 1 - One
    ELSE IF s > 0 THEN s - 1 ELSE IF s < 0 THEN s + 1 ELSE 0

(* play_16, play_24 and play_32: 32 bits are 24 and a byte of zeros. *)
PlayBytes(width, s) ==
    CASE width = 2 -> LittleEndian(PlayInt16(s), 2)
      [] width = 3 -> LittleEndian(PlayInt24(s), 3)
      [] OTHER -> <<0>> \o LittleEndian(PlayInt24(s), 3)

Ordered(d, b) == IF d.big THEN BigEndian(b) ELSE b

PlayFunc(d, s) == Ordered(d, PlayBytes(d.width, s))

(* capt_16, capt_24 and capt_32, which does not read the lowest byte. *)
CaptFunc(d, b) ==
    LET little == Ordered(d, b)
        v == SignedOf(Top(little, IF d.width = 2 THEN 2 ELSE 3))
    IN IF d.width = 2 THEN {256 * v + q : q \in Quotient(256 * v, 32767)}
                      ELSE {v + q : q \in Quotient(v, One - 1)}

-----------------------------------------------------------------------------
(* The formats of the programs: -f of the emitters, format= of the utility,*)
(* and what set_hwpar asks the card for.                                   *)
Formats == {"16", "24", "float"}
Devices == [width : {2, 3, 4}, big : BOOLEAN]

PathTypeOK ==
    /\ from \in {"jack", "alsa"} /\ to \in {"jack", "alsa"}
    /\ format \in Formats /\ device \in Devices
    /\ stage \in {"encode", "decode", "play", "capture", "done"}
    /\ sent \in Samples
    /\ CASE stage = "encode" -> data = <<>>
         [] stage # "encode" /\ format = "float" -> data = sent
         [] OTHER -> data \in [1..Bytes(format) -> 0..255]
    /\ heard \in -2 * One .. 2 * One
    /\ cardbuf = <<>> \/ cardbuf \in [1..device.width -> 0..255]
    /\ looped \in Int

PathInit ==
    /\ from \in {"jack", "alsa"} /\ to \in {"jack", "alsa"}
    /\ format \in Formats /\ device \in Devices
    /\ stage = "encode"
    /\ sent \in Samples
    /\ data = <<>> /\ heard = 0 /\ cardbuf = <<>> /\ looped = 0

Encode ==
    /\ stage = "encode"
    /\ IF format = "float" THEN data' = sent
       ELSE IF from = "jack" THEN data' \in FloatToInt(format, sent)
       ELSE data' = FloatToVban(format, sent)
    /\ stage' = "decode"
    /\ UNCHANGED <<path, sent, heard, cardbuf, looped>>

Decode ==
    /\ stage = "decode"
    /\ heard' = IF format = "float" THEN data
                ELSE IF to = "jack" THEN IntToFloat(data) ELSE VbanToFloat(data)
    /\ stage' = IF to = "alsa" THEN "play" ELSE "done"
    /\ UNCHANGED <<path, sent, data, cardbuf, looped>>

(* The sound card of the ALSA utility. *)
PlaySample ==
    /\ stage = "play"
    /\ cardbuf' = PlayFunc(device, heard)
    /\ stage' = "capture"
    /\ UNCHANGED <<path, sent, data, heard, looped>>

(* A capture of the same buffer. *)
CaptureSample ==
    /\ stage = "capture"
    /\ looped' \in CaptFunc(device, cardbuf)
    /\ stage' = "done"
    /\ UNCHANGED <<path, sent, data, heard, cardbuf>>

Done == stage = "done" /\ UNCHANGED pathVars

PathNext == Encode \/ Decode \/ PlaySample \/ CaptureSample \/ Done

PathSpec == PathInit /\ [][PathNext]_pathVars

-----------------------------------------------------------------------------
(* Properties. *)

Near(a, b, d) == a - b \in -d .. d
Heard == stage \in {"play", "capture", "done"}
Step(f) == CASE f = "16" -> 2 ^ 8 [] f = "24" -> 1 [] OTHER -> 0

(* The emitters of JACK and PipeWire turn the sign of an integer sample,   *)
(* the receptors do not (vban_functions.h:342, 377, 431, 436).             *)
Polarity == IF from = "jack" /\ format # "float" THEN -1 ELSE 1

(* Whichever programs are at the two ends, a sample is heard as it was     *)
(* sent, but for the sign and less than two steps of its format, although  *)
(* they scale by 32767, 32768 and -32768; the lowest sample of the JACK    *)
(* emitter is not among those (vban_functions.h:342, main.cpp:36, 64).     *)
HeardAsSent ==
    Heard /\ sent \in -One .. One /\ ~(Polarity = -1 /\ sent = -One) =>
      Near(heard, Polarity * sent, 2 * Step(format))

(* The samples for which a JACK or PipeWire emitter has no int32_t.        *)
Wraps == Polarity = -1 /\ sent <= -One

(* No sample wraps around but those: what the card plays has the sign the  *)
(* emitter gives it, and a sample beyond 1.0 is about as loud as 1.0.  At  *)
(* and below -1.0 a JACK or PipeWire emitter sends the loudest sample, of  *)
(* the wrong sign where INT_MIN stands for what does not fit               *)
(* (vban_functions.h:342; main.cpp:37, 46; zita-alsa-pcmi.cc:855-856,      *)
(* 933-934).                                                               *)
CardDoesNotWrap ==
    cardbuf # <<>> =>
      LET played == SignedOf(Top(Ordered(device, cardbuf), IF device.width = 2 THEN 2 ELSE 3))
          loud == IF device.width = 2 THEN 32765 ELSE One - 600
      IN /\ ~Wraps => /\ Polarity * sent >= 0 => played >= 0
                      /\ Polarity * sent <= 0 => played <= 0
         /\ sent >= One => Polarity * played >= loud
         /\ sent <= -One => Polarity * played <= -loud \/ (Wraps /\ played <= -loud)

(* Capturing what was played, on a card of any format and byte order, is   *)
(* true to a step of 16 bits or two of 24, within a unit; silence          *)
(* stays silence (zita-alsa-pcmi.cc:847-1086).                             *)
LoopIsTrue ==
    stage = "done" /\ to = "alsa" /\ heard \in -One .. One =>
      /\ Near(looped, heard, IF device.width = 2 THEN 2 ^ 8 + 1 ELSE 2)
      /\ heard = 0 => looped = 0

(* A packet sample made wider by vban_sample_convert and narrow again is   *)
(* the same sample (vban_functions.h:290-421).                             *)
WideningIsLossless ==
    stage = "decode" /\ format # "float" =>
      \A dst \in {"8", "16", "24", "32"} :
        Bytes(dst) >= Bytes(format) => IntToInt(format, IntToInt(dst, data)) = data

(* What every conversion keeps.                                            *)
ConversionInv == PathTypeOK /\ CardDoesNotWrap /\ LoopIsTrue /\ WideningIsLossless

=============================================================================
