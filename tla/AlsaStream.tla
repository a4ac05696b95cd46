----------------------------- MODULE AlsaStream -----------------------------
(***************************************************************************)
(* The life of an incoming stream in the ALSA utility                      *)
(* (src/vban_alsa_util/main.cpp): the network thread opens a stream on its *)
(* first packet and resamples the following ones, the audio loop of main   *)
(* counts periods and closes a stream that has been silent for too long.   *)
(* The resampler is a heap object both threads reach through one plain     *)
(* pointer; rxip and rxResetTimer are atomics.                             *)
(*                                                                         *)
(* A step is one access to a shared variable.  Packets are those of the    *)
(* configured stream name; the ring between the threads is VbanRing.  The  *)
(* option iprx is not given (the socket would be bound to that address).   *)
(***************************************************************************)
EXTENDS Integers, FiniteSets

CONSTANTS
    Hosts,             \* addresses a stream of that name may come from
    rxResetTimerMax,   \* silent periods until a stream is closed
    Objects            \* addresses a VResampler may be allocated at

ASSUME HostsAssumption == Hosts \subseteq Nat \ {0}
ASSUME MaxAssumption == rxResetTimerMax \in Nat \ {0}
ASSUME ObjectsAssumption == Objects \subseteq Nat \ {0} /\ IsFiniteSet(Objects)

VARIABLES
    rxip, receiving, rxResetTimer,   \* receiving: flags & RECEIVING
    resampler,     \* the pointer, 0 for nullptr
    alive,         \* objects allocated and not deleted
    npc, from_ip, nuFrame, rxNuFrame, used,   \* the network thread
    mpc,           \* main
    fault,         \* an object has been used or deleted that is not alive
    quiet,         \* history: periods counted since the last packet
    fed,           \* history: a packet has followed the one that opened
    overtaken      \* history: one has been processed since main decided to
                   \* close the stream, which it has not yet done

shared == <<rxip, receiving, rxResetTimer>>
heap == <<resampler, alive>>
packet == <<from_ip, nuFrame>>
net == <<npc, from_ip, nuFrame, rxNuFrame, used>>
history == <<quiet, fed, overtaken>>
vars == <<rxip, receiving, rxResetTimer, resampler, alive, npc, from_ip,
          nuFrame, rxNuFrame, used, mpc, fault, quiet, fed, overtaken>>

(* Values of the field nuFrame that matter to the test of a duplicate. *)
Numbers == 0..1
(* A count of periods; everything above the limit is alike. *)
Capped(n) == IF n > rxResetTimerMax THEN rxResetTimerMax + 1 ELSE n
Periods == 0 .. rxResetTimerMax + 1

TypeOK ==
    /\ rxip \in Hosts \cup {0} /\ receiving \in BOOLEAN
    /\ rxResetTimer \in Periods
    /\ resampler \in Objects \cup {0} /\ alive \subseteq Objects
    /\ npc \in {"poll", "match", "open", "use", "process", "test", "delete",
                "new", "setup", "lock", "announce"}
    /\ from_ip \in Hosts /\ nuFrame \in Numbers /\ rxNuFrame \in Numbers
    /\ used \in Objects \cup {0}
    /\ mpc \in {"period", "active", "count", "bump", "limit", "clear", "zero",
                "pointer", "delete", "null", "ratio", "correct"}
    /\ fault \in BOOLEAN
    /\ quiet \in Periods /\ fed \in BOOLEAN /\ overtaken \in BOOLEAN

(* rxResetTimer has no initial value before C++20: any value may be in it. *)
Init ==
    /\ rxip = 0 /\ receiving = FALSE /\ rxResetTimer \in Periods
    /\ resampler = 0 /\ alive = {}
    /\ npc = "poll" /\ from_ip \in Hosts /\ nuFrame = 0 /\ rxNuFrame = 0
    /\ used = 0
    /\ mpc = "period"
    /\ fault = FALSE
    /\ quiet = 0 /\ fed = FALSE /\ overtaken = FALSE

-----------------------------------------------------------------------------
(* The network thread. *)

(* A step that dereferences or deletes o: it must be alive. *)
Touch(o) == fault' = (o \notin alive)

Receive(ip, nu) ==
    /\ npc = "poll"
    /\ from_ip' = ip /\ nuFrame' = nu
    /\ npc' = "match"
    /\ UNCHANGED <<shared, heap, rxNuFrame, used, mpc, fault, history>>

(* A packet of the open stream that is not a copy of the last one. *)
Match ==
    /\ npc = "match"
    /\ npc' = IF rxip = from_ip /\ nuFrame # rxNuFrame THEN "use" ELSE "open"
    /\ UNCHANGED <<shared, heap, packet, rxNuFrame, used, mpc, fault, history>>

(* rxip is read again: no stream is open. *)
Open ==
    /\ npc = "open"
    /\ npc' = IF rxip = 0 THEN "test" ELSE "poll"
    /\ UNCHANGED <<shared, heap, packet, rxNuFrame, used, mpc, fault, history>>

(* resampler->inp_count = ... *)
Use ==
    /\ npc = "use"
    /\ used' = resampler
    /\ Touch(resampler)
    /\ npc' = "process"
    /\ UNCHANGED <<shared, heap, packet, rxNuFrame, mpc, history>>

(* A packet has been processed; it may be too late to keep the stream. *)
Heard ==
    /\ quiet' = 0 /\ fed' = TRUE
    /\ overtaken' = (mpc = "clear")

(* A defect used to test the properties: the packet does not count as life.*)
ProcessSilently ==
    /\ npc = "process"
    /\ Touch(used)
    /\ Heard
    /\ rxNuFrame' = nuFrame
    /\ used' = 0
    /\ npc' = "poll"
    /\ UNCHANGED <<rxip, receiving, rxResetTimer, heap, packet, mpc>>

(* The end of process(), the frames into the ring, rxResetTimer = 0. *)
Process ==
    /\ npc = "process"
    /\ Touch(used)
    /\ rxResetTimer' = 0
    /\ Heard
    /\ rxNuFrame' = nuFrame
    /\ used' = 0
    /\ npc' = "poll"
    /\ UNCHANGED <<rxip, receiving, heap, packet, mpc>>

(* A defect used to test the properties: the old object is forgotten. *)
OpenTestNever ==
    /\ npc = "test"
    /\ npc' = "new"
    /\ UNCHANGED <<shared, heap, packet, rxNuFrame, used, mpc, fault, history>>

(* if (resampler != nullptr) *)
OpenTest ==
    /\ npc = "test"
    /\ npc' = IF resampler # 0 THEN "delete" ELSE "new"
    /\ UNCHANGED <<shared, heap, packet, rxNuFrame, used, mpc, fault, history>>

(* delete resampler: of a null pointer it does nothing. *)
Delete ==
    /\ fault' = (resampler # 0 /\ resampler \notin alive)
    /\ alive' = alive \ {resampler}

OpenDelete ==
    /\ npc = "delete"
    /\ Delete
    /\ npc' = "new"
    /\ UNCHANGED <<shared, resampler, packet, rxNuFrame, used, mpc, history>>

(* resampler = new VResampler *)
OpenNew ==
    /\ npc = "new"
    /\ \E o \in Objects \ alive :
         /\ resampler' = o
         /\ alive' = alive \cup {o}
    /\ npc' = "setup"
    /\ UNCHANGED <<shared, packet, rxNuFrame, used, mpc, fault, history>>

(* setup, and the process() that fills the filter *)
OpenSetup ==
    /\ npc = "setup"
    /\ Touch(resampler)
    /\ npc' = "lock"
    /\ UNCHANGED <<shared, heap, packet, rxNuFrame, used, mpc, history>>

(* rxip = from_ip *)
OpenLock ==
    /\ npc = "lock"
    /\ rxip' = from_ip
    /\ quiet' = 0 /\ fed' = FALSE
    /\ npc' = "announce"
    /\ UNCHANGED <<receiving, rxResetTimer, heap, packet, rxNuFrame, used, mpc,
                   fault, overtaken>>

OpenAnnounce ==
    /\ npc = "announce"
    /\ rxNuFrame' = nuFrame
    /\ receiving' = TRUE
    /\ npc' = "poll"
    /\ UNCHANGED <<rxip, rxResetTimer, heap, packet, used, mpc, fault, history>>

-----------------------------------------------------------------------------
(* main, once for every period. *)

(* pcm_wait, capture, and the period read from the ring. *)
Period ==
    /\ mpc = "period"
    /\ mpc' = "active"
    /\ UNCHANGED <<shared, heap, net, fault, history>>

(* rxip != 0 && flags&RECEIVING *)
Active ==
    /\ mpc = "active"
    /\ mpc' = IF rxip # 0 /\ receiving THEN "count" ELSE "ratio"
    /\ UNCHANGED <<shared, heap, net, fault, history>>

(* rxResetTimer < rxResetTimerMax *)
Count ==
    /\ mpc = "count"
    /\ mpc' = IF rxResetTimer < rxResetTimerMax THEN "bump" ELSE "limit"
    /\ UNCHANGED <<shared, heap, net, fault, history>>

(* rxResetTimer++ *)
Bump ==
    /\ mpc = "bump"
    /\ rxResetTimer' = rxResetTimer + 1
    /\ quiet' = Capped(quiet + 1)
    /\ mpc' = "ratio"
    /\ UNCHANGED <<rxip, receiving, heap, net, fault, fed, overtaken>>

(* A defect used to test the properties: a limit one too high. *)
BeyondLimit == rxResetTimer > rxResetTimerMax

AtLimit == rxResetTimer = rxResetTimerMax

Limit ==
    /\ mpc = "limit"
    /\ mpc' = IF AtLimit THEN "clear" ELSE "ratio"
    /\ UNCHANGED <<shared, heap, net, fault, history>>

(* rxip = 0 *)
Clear ==
    /\ mpc = "clear"
    /\ rxip' = 0
    /\ overtaken' = FALSE
    /\ mpc' = "zero"
    /\ UNCHANGED <<receiving, rxResetTimer, heap, net, fault, quiet, fed>>

(* rxResetTimer = 0 *)
Zero ==
    /\ mpc = "zero"
    /\ rxResetTimer' = 0
    /\ mpc' = "pointer"
    /\ UNCHANGED <<rxip, receiving, heap, net, fault, history>>

(* if (resampler != nullptr); draining the ring changes nothing here. *)
Pointer ==
    /\ mpc = "pointer"
    /\ mpc' = IF resampler # 0 THEN "delete" ELSE "ratio"
    /\ UNCHANGED <<shared, heap, net, fault, history>>

CloseDelete ==
    /\ mpc = "delete"
    /\ Delete
    /\ mpc' = "null"
    /\ UNCHANGED <<shared, resampler, net, history>>

(* resampler = nullptr *)
CloseNull ==
    /\ mpc = "null"
    /\ resampler' = 0
    /\ mpc' = "ratio"
    /\ UNCHANGED <<shared, alive, net, fault, history>>

(* if (resampler != nullptr) *)
Ratio ==
    /\ mpc = "ratio"
    /\ mpc' = IF resampler # 0 THEN "correct" ELSE "period"
    /\ UNCHANGED <<shared, heap, net, fault, history>>

(* resampler->set_rratio(rratio) *)
Correct ==
    /\ mpc = "correct"
    /\ Touch(resampler)
    /\ mpc' = "period"
    /\ UNCHANGED <<shared, heap, net, history>>

-----------------------------------------------------------------------------
Net ==
    \/ Match \/ Open \/ Use \/ Process
    \/ OpenTest \/ OpenDelete \/ OpenNew \/ OpenSetup \/ OpenLock \/ OpenAnnounce

Main ==
    \/ Period \/ Active \/ Count \/ Bump \/ Limit \/ Clear \/ Zero \/ Pointer
    \/ CloseDelete \/ CloseNull \/ Ratio \/ Correct

(* After a fault the program is no longer defined: it stops. *)
Next ==
    /\ ~fault
    /\ \/ \E ip \in Hosts, nu \in Numbers : Receive(ip, nu)
       \/ Net
       \/ Main

(* The sound card asks for period after period. *)
Spec == Init /\ [][Next]_vars /\ WF_vars(~fault /\ Main)

-----------------------------------------------------------------------------
(* Properties. *)

(* Main closes a stream that still delivers packets only if it counted the *)
(* full number of periods since the last one, or if the last one was       *)
(* processed after its last look at the counter: of the two threads one    *)
(* resets the counter, the other tests it twice and increments it in       *)
(* steps of their own (main.cpp:528, 687-696).                             *)
ClosedForSilence ==
    [][Clear /\ fed => quiet >= rxResetTimerMax \/ overtaken]_vars

(* There is never a second resampler: neither thread loses one that it or  *)
(* the other thread has allocated (main.cpp:534-535, 699-703).             *)
OneResampler == Cardinality(alive) <= 1

(* A stream that fails, after its first packet or later, is closed, so     *)
(* that another host can take its place, unless the program dies: main     *)
(* alone sees to it.  The counter must not be above its limit, which main  *)
(* compares for equality: only what was in it before the program started   *)
(* can be, and no stream that has delivered two packets finds it there     *)
(* (main.cpp:528, 685-697).                                                *)
Fails == <>[][~Process]_vars
DeadStreamReleased ==
    Fails => (/\ rxip # 0 /\ receiving
              /\ rxResetTimer <= rxResetTimerMax) ~> (rxip = 0 \/ fault)

(* "the network thread will see nullptr and correctly create a new one"    *)
(* (main.cpp:702, in Russian): it never meets a deleted resampler.         *)
ResamplerAlive == ~fault

=============================================================================
