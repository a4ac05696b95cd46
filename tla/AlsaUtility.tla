----------------------------- MODULE AlsaUtility -----------------------------
(***************************************************************************)
(* The ALSA utility (src/vban_alsa_util/main.cpp) as a whole: AlsaStream   *)
(* is its incoming stream, here are its outgoing stream and the search for *)
(* a receptor.  main sends a period to the receptor it knows, or asks on   *)
(* every network who receives the stream; the network thread reads the     *)
(* answers, and answers the questions of others.  Both threads aim the one *)
(* socket with setTxTarget before they send, and only that call takes      *)
(* _tx_mutex.                                                              *)
(*                                                                         *)
(* A datagram of the protocol TXT is a question "/info" or an answer that  *)
(* names the stream (or the server) looked for.  The local addresses are   *)
(* not among Hosts: what they send is dropped, see the README.             *)
(***************************************************************************)
EXTENDS AlsaStream

CONSTANTS
    TxOptions,      \* what the option iptx makes of txip, 0 without it
    srchTimerMax,   \* periods from one search to the next
    Networks,       \* ips: one broadcast address for each of them
    MaxAnswers      \* bound of the runs: answers on the way

ASSUME TxOptionsAssumption == TxOptions \subseteq Hosts \cup {0}
ASSUME SearchAssumption == srchTimerMax \in Nat
ASSUME MaxAnswersAssumption == MaxAnswers \in Nat
ASSUME NetworksAssumption ==
    IsFiniteSet(Networks) /\ Networks \cap (Hosts \cup {0}) = {}

VARIABLES
    capturing, playing,   \* nbinputs > 0, nboutputs > 0
    named,                \* streamnametx is not empty
    txip,
    target,        \* _tx_addr
    stage,         \* main before its output half: "wait", "send", "list",
                   \* "aim", "ask" or "output"
    srchTimer,
    toAsk,         \* networks the search has still to ask
    text,          \* the network thread: "none", "reply", "found"
    answers,       \* network: answers to questions of this host on the way
    searched       \* history: the receptor was found between main's look at
                   \* txip and the end of its search

setup == <<capturing, playing, named>>
search == <<stage, srchTimer, toAsk>>
wire == <<txip, target>>
sender == <<capturing, playing, named, txip, target, stage, srchTimer, toAsk,
            text, answers, searched>>
uvars == <<vars, sender>>

SenderTypeOK ==
    /\ capturing \in BOOLEAN /\ playing \in BOOLEAN /\ named \in BOOLEAN
    /\ txip \in Hosts \cup {0}
    /\ target \in Hosts \cup Networks \cup {0}
    /\ stage \in {"wait", "send", "list", "aim", "ask", "output"}
    /\ srchTimer \in 0..srchTimerMax /\ toAsk \subseteq Networks
    /\ text \in {"none", "reply", "found"}
    /\ answers \subseteq Hosts /\ searched \in BOOLEAN

(* The options and the devices: one of the two directions at least.        *)
(* txip is an address of the network of netdev, or 0 (main.cpp:358-364).   *)
SenderInit ==
    /\ capturing \in BOOLEAN /\ playing \in BOOLEAN /\ (capturing \/ playing)
    /\ named \in BOOLEAN
    /\ txip \in TxOptions /\ target = txip
    /\ stage = "wait" /\ srchTimer = 0 /\ toAsk = {}
    /\ text = "none"
    /\ answers = {} /\ searched = FALSE

-----------------------------------------------------------------------------
(* main, before it comes to the outputs. *)

Searching == stage \in {"list", "aim", "ask"}

SearchDue == srchTimer = srchTimerMax

(* pcm_wait and the capture, then the look at txip: the period is sent, or *)
(* once in a while the networks are searched.                              *)
Look ==
    /\ stage = "wait" /\ mpc = "period"
    /\ IF ~capturing THEN stage' = "output" /\ UNCHANGED srchTimer
       ELSE IF txip # 0 /\ named THEN stage' = "send" /\ UNCHANGED srchTimer
       ELSE IF ~SearchDue THEN stage' = "output" /\ srchTimer' = srchTimer + 1
       ELSE stage' = (IF named THEN "list" ELSE "output") /\ srchTimer' = 0
    /\ UNCHANGED <<vars, setup, wire, toAsk, text, answers, searched>>

(* The end of ips = getIPAddresses(): until here ips is not to be read. *)
List ==
    /\ stage = "list"
    /\ stage' = "aim" /\ toAsk' = Networks
    /\ UNCHANGED <<vars, setup, wire, srchTimer, text, answers, searched>>

(* The packets of the period: they go where the socket is aimed. *)
SendPeriod ==
    /\ stage = "send"
    /\ stage' = "output"
    /\ UNCHANGED <<vars, setup, wire, srchTimer, toAsk, text, answers, searched>>

(* A defect used to test the properties: the socket is not aimed. *)
AimNowhere ==
    /\ stage = "aim"
    /\ IF toAsk = {}
         THEN stage' = "output" /\ UNCHANGED toAsk
         ELSE \E n \in toAsk : toAsk' = toAsk \ {n} /\ stage' = "ask"
    /\ UNCHANGED <<vars, setup, wire, srchTimer, text, answers, searched>>

(* setTxTarget(ips.at(i)|0xFF000000, txport) *)
Aim ==
    /\ stage = "aim"
    /\ IF toAsk = {}
         THEN stage' = "output" /\ UNCHANGED <<target, toAsk>>
         ELSE \E n \in toAsk :
                target' = n /\ toAsk' = toAsk \ {n} /\ stage' = "ask"
    /\ UNCHANGED <<vars, setup, txip, srchTimer, text, answers, searched>>

(* sendPacket(request): a receptor that hears it answers. *)
Ask ==
    /\ stage = "ask"
    /\ stage' = "aim"
    /\ \/ /\ target \in Networks
          /\ Cardinality(answers) < MaxAnswers
          /\ \E h \in Hosts : answers' = answers \cup {h}
       \/ UNCHANGED answers
    /\ UNCHANGED <<vars, setup, wire, srchTimer, toAsk, text, searched>>

(* The output half of AlsaStream, if there are outputs. *)
Output ==
    /\ stage = "output"
    /\ IF playing THEN Main ELSE UNCHANGED vars
    /\ stage' = IF ~playing \/ mpc' = "period" THEN "wait" ELSE "output"
    /\ UNCHANGED <<setup, wire, srchTimer, toAsk, text, answers, searched>>

-----------------------------------------------------------------------------
(* The network thread. *)

(* Audio: without outputs no stream is ever opened. *)
Audio == Net /\ UNCHANGED sender

ReceiveAudio ==
    /\ playing /\ text = "none"
    /\ \E ip \in Hosts, nu \in Numbers : Receive(ip, nu)
    /\ UNCHANGED sender

stream == <<shared, heap, net, mpc, history>>

(* "/info" of a host that is not in ips: the answer goes to it...  Main    *)
(* may be assigning ips: then what is read is undefined, the program may   *)
(* die, or the question may pass for one of this host and be dropped.      *)
Question(h) ==
    /\ npc = "poll" /\ text = "none"
    /\ fault' \in IF stage = "list" THEN BOOLEAN ELSE {FALSE}
    /\ target' = h
    /\ text' = "reply"
    /\ UNCHANGED <<stream, setup, txip, search, answers, searched>>

(* ... and when it is sent, the socket is aimed at the receptor again.     *)
Restore ==
    /\ text = "reply"
    /\ target' = txip
    /\ text' = "none"
    /\ UNCHANGED <<vars, setup, txip, search, answers, searched>>

(* else if (txip == 0) *)
Searched == txip = 0

(* An answer naming our stream or the server, not from a loopback address. *)
Answer(h) ==
    /\ npc = "poll" /\ text = "none"
    /\ h \in answers
    /\ answers' = answers \ {h}
    /\ IF Searched /\ named
         THEN /\ txip' = h
              /\ searched' = (searched \/ Searching)
              /\ text' = "found"
         ELSE UNCHANGED <<txip, searched, text>>
    /\ UNCHANGED <<vars, setup, target, search>>

(* A defect used to test the properties: the socket is not aimed. *)
FoundUnaimed ==
    /\ text = "found"
    /\ text' = "none"
    /\ UNCHANGED <<vars, setup, wire, search, answers, searched>>

(* setTxTarget(txip, txport) *)
Found ==
    /\ text = "found"
    /\ target' = txip
    /\ text' = "none"
    /\ UNCHANGED <<vars, setup, txip, search, answers, searched>>

-----------------------------------------------------------------------------
UtilityInit == Init /\ SenderInit

MainLoop == Look \/ List \/ SendPeriod \/ Aim \/ Ask \/ Output

NetThread ==
    \/ ReceiveAudio \/ Audio \/ Restore \/ Found
    \/ \E h \in Hosts : Question(h) \/ Answer(h)

UtilityNext ==
    /\ ~fault
    /\ MainLoop \/ NetThread

(* The sound card asks for period after period, the network thread is a    *)
(* thread of its own, and of the questions asked again and again one is    *)
(* answered and the answer arrives.                                        *)
UtilityFairness ==
    /\ WF_uvars(~fault /\ MainLoop)
    /\ WF_uvars(~fault /\ (Audio \/ Restore \/ Found))
    /\ SF_uvars(~fault /\ Ask /\ answers' # {})
    /\ SF_uvars(~fault /\ \E h \in Hosts : Answer(h))

UtilitySpec == UtilityInit /\ [][UtilityNext]_uvars /\ UtilityFairness

-----------------------------------------------------------------------------
(* Properties. *)

(* Audio leaves for another host than the receptor only while the network  *)
(* thread answers a question or has not yet aimed at a receptor just       *)
(* found, or after a receptor was found during a search, the end of which  *)
(* aims the socket at a network for good: setTxTarget is locked, the pair  *)
(* of setTxTarget and sendPacket is not (main.cpp:185-197, 572-574, 655).  *)
AudioReachesReceptor ==
    stage = "send" /\ text = "none" /\ ~searched => target = txip

(* An information request is no way to be heard: the socket is never left  *)
(* aimed at an asker (main.cpp:572-574).                                   *)
NobodyElseIsHeard ==
    text = "none" => target \in {0, txip} \cup Networks

(* Where the one socket is aimed.                                          *)
TargetInv == SenderTypeOK /\ AudioReachesReceptor /\ NobodyElseIsHeard

(* A utility with a name to look for finds a receptor that answers, or     *)
(* dies: the search is repeated as long as there is none.  A question may  *)
(* aim the socket elsewhere between the two calls of the search, so that   *)
(* others must stop asking some day (main.cpp:572, 641-662).               *)
QuestionsEnd == <>[][\A h \in Hosts : ~Question(h)]_uvars
ReceptorIsFound == QuestionsEnd => (capturing /\ named ~> txip # 0 \/ fault)

=============================================================================
