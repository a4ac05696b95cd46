---------------------------- MODULE JitterBuffer ----------------------------
(***************************************************************************)
(* How long the ring of a receptor carries the audio callback over a       *)
(* network that is late: vban_compute_rx_ringbuffer sizes the ring and     *)
(* fills part of it with silence, vban_rx_handle_packet drops a frame that *)
(* does not fit, and read_from_ringbuffer_async conceals a frame that is   *)
(* missing (all in src/vban_common/vban_functions.h).                      *)
(*                                                                         *)
(* Everything is counted in frames, since both sides move whole frames.    *)
(* Emitter and receptor run at one rate and have one period.  The network  *)
(* has two parameters chosen at the start: when a callback starts, all     *)
(* frames emitted late periods before have arrived or are lost, and        *)
(* mayVanish frames are lost at most.                                      *)
(***************************************************************************)
EXTENDS Integers

CONSTANTS
    NFrames,       \* frames of a period: context->nframes
    Redundancy,    \* context->redundancy (-n)
    MaxLate,       \* bounds of the runs: late and mayVanish
    MaxVanished,
    MaxSent        \* bound of the runs: frames emitted

VARIABLES
    late,       \* periods a frame may be late
    mayVanish,  \* frames of which no copy may arrive
    sent,       \* frames emitted
    arrived,    \* frames handed to the handler
    vanished,   \* frames lost by the network
    fill,       \* frames in the ring
    left,       \* frames the callback in progress has still to read
    asked,      \* frames the callbacks have tried to read
    starved,    \* of these, the missing ones: "samples lost"
    dropped     \* frames that arrived at a full ring

network == <<late, mayVanish>>
vars == <<late, mayVanish, sent, arrived, vanished, fill, left, asked, starved,
          dropped>>

(* Defects used to test the properties: a prefill of one shift too many,   *)
(* and a ring without the factor 2.                                        *)
PrefillEighth == NFrames \div 2
RingFramesHalf == NFrames * (Redundancy + 1) - 1

(* 2 * nframes * (redundancy + 1) frames, one byte of which stays free, so *)
(* that the last frame never fits.                                         *)
RingFrames == 2 * NFrames * (Redundancy + 1) - 1

(* size >> div: a quarter of the ring for -n 1, half of it for more. *)
Prefill ==
    IF Redundancy = 1 THEN NFrames
    ELSE IF Redundancy > 1 THEN NFrames * (Redundancy + 1)
    ELSE 0

ASSUME NFramesAssumption == NFrames \in Nat \ {0}
(* -n 0 leaves the ring empty and makes no promise.                        *)
ASSUME RedundancyAssumption == Redundancy \in 1..10
ASSUME MaxLateAssumption == MaxLate \in Nat
ASSUME MaxVanishedAssumption == MaxVanished \in Nat
ASSUME MaxSentAssumption == MaxSent \in Nat
(* What -n is meant to cover: late and lost frames share the prefill. *)
WithinPrefill ==
    late * NFrames + mayVanish <=
      (IF Redundancy = 1 THEN NFrames ELSE NFrames * (Redundancy + 1))

TypeOK ==
    /\ late \in 0..MaxLate /\ mayVanish \in 0..MaxVanished
    /\ sent \in Nat /\ arrived \in Nat /\ vanished \in 0..mayVanish
    /\ fill \in 0..RingFrames
    /\ left \in 0..NFrames /\ asked \in Nat
    /\ starved \in Nat /\ dropped \in Nat

(* The ring as vban_compute_rx_ringbuffer leaves it. *)
Init ==
    /\ late \in 0..MaxLate /\ mayVanish \in 0..MaxVanished
    /\ sent = 0 /\ arrived = 0 /\ vanished = 0
    /\ fill = Prefill
    /\ left = 0 /\ asked = 0 /\ starved = 0 /\ dropped = 0

-----------------------------------------------------------------------------
(* The emitter's callback: at most one period ahead of the receptor's.     *)
Emit ==
    /\ sent <= asked + left
    /\ sent + NFrames <= MaxSent
    /\ sent' = sent + NFrames
    /\ UNCHANGED <<network, arrived, vanished, fill, left, asked, starved,
                   dropped>>

(* No copy of the next frame arrives. *)
Vanish ==
    /\ arrived + vanished < sent
    /\ vanished < mayVanish
    /\ vanished' = vanished + 1
    /\ UNCHANGED <<network, sent, arrived, fill, left, asked, starved, dropped>>

(* The frame loop of vban_rx_handle_packet: write_space >= outframesize. *)
Deliver ==
    /\ arrived + vanished < sent
    /\ arrived' = arrived + 1
    /\ IF fill < RingFrames
         THEN fill' = fill + 1 /\ UNCHANGED dropped
         ELSE dropped' = dropped + 1 /\ UNCHANGED fill
    /\ UNCHANGED <<network, sent, vanished, left, asked, starved>>

(* on_rx_process starts: the frames of late periods ago are there. *)
CallbackBegin ==
    /\ left = 0
    /\ asked + NFrames <= sent
    /\ asked + NFrames <= arrived + vanished + late * NFrames
    /\ left' = NFrames
    /\ UNCHANGED <<network, sent, arrived, vanished, fill, asked, starved, dropped>>

(* One round of the loop over bframe: a frame of the ring, or concealment. *)
ReadFrame ==
    /\ left > 0
    /\ left' = left - 1
    /\ asked' = asked + 1
    /\ IF fill > 0
         THEN fill' = fill - 1 /\ UNCHANGED starved
         ELSE starved' = starved + 1 /\ UNCHANGED fill
    /\ UNCHANGED <<network, sent, arrived, vanished, dropped>>

Next == Emit \/ Vanish \/ Deliver \/ CallbackBegin \/ ReadFrame

Spec == Init /\ [][Next]_vars

-----------------------------------------------------------------------------
(* Properties. *)

(* The prefill covers lateness and loss together: the callback never has   *)
(* to conceal a frame while they stay within it (vban_functions.h:602-609).*)
NoStarvation == WithinPrefill => starved = 0

(* The ring has room for the burst that follows: no frame that arrives is  *)
(* dropped (vban_functions.h:595, 1008).                                   *)
NoOverflow == WithinPrefill => dropped = 0

(* The inductive invariant. *)
Balance == fill = Prefill + arrived - asked
Clocks ==
    /\ arrived + vanished <= sent
    /\ asked + left <= sent /\ sent <= asked + left + NFrames
Lateness ==
    left > 0 => asked + left <= arrived + vanished + late * NFrames

JitterInv ==
    /\ TypeOK
    /\ NoStarvation /\ NoOverflow
    /\ WithinPrefill => Balance /\ Clocks /\ Lateness

=============================================================================
