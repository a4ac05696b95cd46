------------------------------ MODULE Transport ------------------------------
(***************************************************************************)
(* One audio stream from emitter to receptor over UDP.  The emitter        *)
(* (vban_send_txbuffer and vban_send_t32_fragment of                       *)
(* src/vban_common/vban_functions.h) sends every packet redundancy + 1     *)
(* times, and sends a copy again when the kernel reports that the port was *)
(* unreachable; the receptor (vban_rx_handle_packet) plays a packet unless *)
(* it carries the number of the packet played last.                        *)
(*                                                                         *)
(* The network keeps the order and may lose or double any copy.  A packet  *)
(* is named by its place in the emitter's stream, over all restarts.       *)
(***************************************************************************)
EXTENDS Integers, Sequences, SequencesExt

CONSTANTS
    Redundancy,    \* context->redundancy
    NuMod,         \* numbers of the field nuFrame: 2^32
    MaxPackets,    \* bound of the runs: packets of all emitters
    MaxInFlight,   \* bound of the runs: copies in the network
    MaxRestarts    \* bound of the runs: restarts of the emitter

ASSUME RedundancyAssumption == Redundancy \in 0..10
ASSUME NuModAssumption == NuMod \in Nat \ {0, 1}
ASSUME BoundsAssumption ==
    MaxPackets \in Nat /\ MaxInFlight \in Nat /\ MaxRestarts \in Nat

Attempts == 2   \* copies sent again at most after one ICMP error

VARIABLES
    spc,        \* the emitter: between packets, before a copy, after a copy
    sent,       \* packets begun
    nuFrame,    \* txpacket.header.nuFrame
    red, icnt,  \* locals of the emitter: copies done, copies sent again
    net,        \* copies in flight, oldest first
    nu_frame,   \* the receptor's context->nu_frame
    restarts,
    nuOf,       \* history: the number each packet was sent under
    arrived,    \* history: packets of which a copy reached the receptor
    played      \* history: packets written to the ring

emitter == <<spc, sent, nuFrame, red, icnt>>
vars == <<spc, sent, nuFrame, red, icnt, net, nu_frame, restarts, nuOf,
          arrived, played>>

Numbers == 0 .. NuMod - 1
Copies == [id : 1..MaxPackets, nu : Numbers]

TypeOK ==
    /\ spc \in {"idle", "send", "check"}
    /\ sent \in 0..MaxPackets /\ nuFrame \in Numbers
    /\ red \in 0..Redundancy /\ icnt \in 0..Attempts
    /\ net \in Seq(Copies) /\ nu_frame \in Numbers
    /\ restarts \in 0..MaxRestarts
    /\ nuOf \in [1..sent -> Numbers]
    /\ arrived \subseteq 1..sent /\ played \in Seq(1..sent)

(* Both contexts are cleared by memset: the first number is 0 on both      *)
(* sides.                                                                  *)
Init ==
    /\ spc = "idle" /\ sent = 0 /\ nuFrame = 0 /\ red = 0 /\ icnt = 0
    /\ net = << >> /\ nu_frame = 0 /\ restarts = 0
    /\ nuOf = << >> /\ arrived = {} /\ played = << >>

-----------------------------------------------------------------------------
(* The emitter. *)

(* The callback, or the slice timer, has a packet of samples ready. *)
NewPacket ==
    /\ spc = "idle"
    /\ sent < MaxPackets
    /\ sent' = sent + 1
    /\ nuOf' = Append(nuOf, nuFrame)
    /\ spc' = "send"
    /\ UNCHANGED <<nuFrame, red, icnt, net, nu_frame, restarts, arrived, played>>

(* udp_send: the copy enters the network, or is lost at once. *)
Transmit ==
    \/ net' = Append(net, [id |-> sent, nu |-> nuFrame])
    \/ UNCHANGED net

SendCopy ==
    /\ spc = "send"
    /\ Len(net) < MaxInFlight
    /\ Transmit
    /\ spc' = "check"
    /\ UNCHANGED <<sent, nuFrame, red, icnt, nu_frame, restarts, nuOf, arrived,
                   played>>

(* check_send_status reports ECONNREFUSED: the copy is sent again. *)
SendAgain ==
    /\ spc = "check"
    /\ icnt < Attempts
    /\ Len(net) < MaxInFlight
    /\ Transmit
    /\ icnt' = icnt + 1
    /\ UNCHANGED <<spc, sent, nuFrame, red, nu_frame, restarts, nuOf, arrived,
                   played>>

(* A defect used to test the properties: a new number for every copy. *)
NextNumberPerCopy ==
    /\ spc = "check"
    /\ icnt' = 0
    /\ red' = IF red = Redundancy THEN 0 ELSE red + 1
    /\ nuFrame' = (nuFrame + 1) % NuMod
    /\ spc' = IF red = Redundancy THEN "idle" ELSE "send"
    /\ UNCHANGED <<sent, net, nu_frame, restarts, nuOf, arrived, played>>

(* No error: the next copy, or the next number after the last copy. *)
CopyDone ==
    /\ spc = "check"
    /\ icnt' = 0
    /\ IF red = Redundancy
         THEN /\ red' = 0
              /\ nuFrame' = (nuFrame + 1) % NuMod
              /\ spc' = "idle"
         ELSE /\ red' = red + 1
              /\ spc' = "send"
              /\ UNCHANGED nuFrame
    /\ UNCHANGED <<sent, net, nu_frame, restarts, nuOf, arrived, played>>

(* The emitter is stopped at any point and started again. *)
Restart ==
    /\ restarts < MaxRestarts
    /\ restarts' = restarts + 1
    /\ spc' = "idle" /\ nuFrame' = 0 /\ red' = 0 /\ icnt' = 0
    /\ UNCHANGED <<sent, net, nu_frame, nuOf, arrived, played>>

-----------------------------------------------------------------------------
(* The network. *)

Lose ==
    /\ \E i \in 1..Len(net) : net' = RemoveAt(net, i)
    /\ UNCHANGED <<emitter, nu_frame, restarts, nuOf, arrived, played>>

Double ==
    /\ Len(net) < MaxInFlight
    /\ \E i \in 1..Len(net) : net' = InsertAt(net, i, net[i])
    /\ UNCHANGED <<emitter, nu_frame, restarts, nuOf, arrived, played>>

-----------------------------------------------------------------------------
(* The receptor. *)

(* A defect used to test the properties: a test of order, which does not   *)
(* survive a restart or the wrap of the number.                            *)
FreshIfNewer(nu) == nu > nu_frame

(* vban_packet->header.nuFrame != context->nu_frame *)
Fresh(nu) == nu # nu_frame

(* vban_rx_handle_packet of a packet of the stream. *)
Receive ==
    /\ net # << >>
    /\ LET p == Head(net)
       IN  /\ arrived' = arrived \cup {p.id}
           /\ IF Fresh(p.nu)
                THEN played' = Append(played, p.id) /\ nu_frame' = p.nu
                ELSE UNCHANGED <<played, nu_frame>>
    /\ net' = Tail(net)
    /\ UNCHANGED <<emitter, restarts, nuOf>>

-----------------------------------------------------------------------------
Next ==
    \/ NewPacket \/ SendCopy \/ SendAgain \/ CopyDone \/ Restart
    \/ Lose \/ Double \/ Receive

Spec == Init /\ [][Next]_vars

-----------------------------------------------------------------------------
(* Properties. *)

(* No packet is heard twice and none after a later one, whatever copies    *)
(* are lost, sent again or doubled, and wherever the emitter restarts.     *)
PlayedOnceInOrder ==
    \A i \in 1 .. Len(played) - 1 : played[i] < played[i + 1]

(* The packet played before id, and the number the receptor compares with. *)
Before(id) == {p \in ToSet(played) : p < id}
NumberBefore(id) == IF Before(id) = {} THEN 0 ELSE nuOf[Max(Before(id))]

(* One copy of a packet is enough to hear it; the only exception is a      *)
(* packet that happens to have the number of the one heard before it,      *)
(* which takes a restart, NuMod - 1 lost packets, or the first packet of   *)
(* all (nu_frame starts at 0, like nuFrame).                               *)
OneCopyIsEnough ==
    \A id \in arrived : id \in ToSet(played) \/ nuOf[id] = NumberBefore(id)

(* Without restarts, that is at most the first packet until NuMod - 1      *)
(* packets in a row have been lost.                                        *)
OnlyLongLossHides ==
    restarts = 0 =>
      \A id \in arrived \ ToSet(played) :
        \/ id = 1
        \/ \A p \in 1 .. id - 1 : id - p < NuMod => p \notin ToSet(played)

=============================================================================
