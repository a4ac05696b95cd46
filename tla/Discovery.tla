------------------------------ MODULE Discovery ------------------------------
(***************************************************************************)
(* An emitter that is given a stream name and no address looks for its     *)
(* receptor before it sends (scan_receptor,                                *)
(* src/vban_common/vban_functions.cpp): it asks every network of the host  *)
(* for information, one broadcast after the other, and reads the answers   *)
(* that have arrived.  The socket of the search is the one the audio is    *)
(* sent on, and its c_addr is both the sender of the last datagram read    *)
(* and the address of the next one sent (src/vban_common/udp.h).           *)
(*                                                                         *)
(* Transport is what follows: the audio reaches its receptor, here Hearer, *)
(* if the search has aimed the socket at it.  An emitter that is started   *)
(* again searches again.                                                   *)
(***************************************************************************)
EXTENDS Transport

CONSTANTS
    Receptors,     \* on the port: [ip, name, server]; names are sequences
    Hearer,        \* the one that runs the receptor of Transport
    Commands,      \* command lines: [ip, name, server], Nobody and << >> if absent
    NetCounts,     \* networks of the host besides loopback: ipnum - 1
    MaxQueue,      \* bound of the runs: answers in the buffer of the socket
    MaxFound       \* bound of the runs: packets of emitters that search

(* Addresses: network and host. *)
Nobody == <<0, 0>>            \* 0
Everybody == <<255, 255>>     \* inet_addr(""): 255.255.255.255
NetBroadcast(n) == <<n, 255>> \* ips[i] | 0xFF000000
Own(n) == <<n, 1>>            \* ips[i]
Ips == {Own(n) : n \in 1 .. Max(NetCounts)}

ASSUME ReceptorsAssumption ==
    /\ Hearer \in Receptors
    /\ \A r, q \in Receptors : r.ip = q.ip => r = q
    /\ \A r \in Receptors : r.ip[1] \in 1..254 /\ r.ip[2] \in 1..254
ASSUME NetCountsAssumption == NetCounts \subseteq Nat /\ MaxQueue \in Nat /\ MaxFound \in Nat

VARIABLES
    cmd, networks, \* the options and ipnum - 1, constant after Init
    scan,          \* the search: asleep, before a broadcast, reading, ended
    i,             \* local of scan_receptor
    iptx,          \* context->iptx
    c_addr,        \* address in txsock->c_addr
    requests,      \* receptors a request is on the way to
    answers        \* senders of the datagrams in the buffer of txsock

search == <<scan, i, iptx, c_addr, requests, answers>>
discoveryVars == <<vars, cmd, networks, search>>

Hosts == {r.ip : r \in Receptors}
Addresses == Hosts \cup {q.ip : q \in Commands}

DiscoveryTypeOK ==
    /\ cmd \in Commands /\ networks \in NetCounts
    /\ scan \in {"sleep", "ask", "poll", "done"}
    /\ i \in 0 .. networks + 1
    /\ iptx \in Addresses
    /\ c_addr \in Addresses \cup {Everybody}
    /\ requests \subseteq Receptors
    /\ answers \in Seq(Receptors) /\ Len(answers) <= MaxQueue

(* main calls scan_receptor only with a name and without an address. *)
Searches == cmd.name # << >> /\ cmd.ip = Nobody

(* udp_init aims the socket at the address of the command line. *)
InitialAddress(ip) == IF ip = Nobody THEN Everybody ELSE ip

DiscoveryInit ==
    /\ Init
    /\ cmd \in Commands /\ networks \in NetCounts
    /\ scan = (IF Searches THEN "sleep" ELSE "done") /\ i = 0
    /\ iptx = cmd.ip /\ c_addr = InitialAddress(cmd.ip)
    /\ requests = {} /\ answers = << >>

-----------------------------------------------------------------------------
(* The receptors. *)

(* vban_fill_receptor_info, before a stream is known: what -s gave. *)
Info(r) ==
    IF r.server THEN [servername |-> r.name] ELSE [streamnamerx |-> r.name]

(* get_value_by_key into a buffer of zeros *)
ValueByKey(info, key) == IF key \in DOMAIN info THEN info[key] ELSE << >>

RequestLength == 5    \* the data of a request: "/info"

(* A receptor of one stream answers every short text packet of the name    *)
(* INFO; one of many streams first compares the length with the one of an  *)
(* audio packet with the format fields of the request, which are 0: one    *)
(* sample of one byte.                                                     *)
Answers(r) == IF r.server THEN RequestLength = 1 ELSE RequestLength <= 5

(* The answer of a receptor that has got a request reaches the socket. *)
Reply(r) ==
    /\ r \in requests
    /\ Len(answers) < MaxQueue
    /\ requests' = requests \ {r}
    /\ answers' = Append(answers, r)
    /\ UNCHANGED <<scan, i, iptx, c_addr>>

-----------------------------------------------------------------------------
(* scan_receptor. *)

(* A defect used to test the properties: i is set once, before the loop.   *)
WakeUpKeepsPlace ==
    /\ scan = "sleep"
    /\ scan' = "ask" /\ i' = Max({i, 1})
    /\ UNCHANGED <<iptx, c_addr, requests, answers>>

(* sleep(1), and i starts at 1: ips[0] is the loopback address. *)
WakeUp ==
    /\ scan = "sleep"
    /\ scan' = "ask" /\ i' = 1
    /\ UNCHANGED <<iptx, c_addr, requests, answers>>

(* udp_send puts the address back it found in c_addr. *)
AfterSend(to) == c_addr

(* i < ipnum *)
InIps == i <= networks

(* The request goes to the receptors of the network and of this host, and  *)
(* to those that it does not reach, or whose answer is lost, it might as   *)
(* well not have gone.                                                     *)
Ask ==
    /\ scan = "ask"
    /\ InIps
    /\ \E S \in SUBSET {r \in Receptors : Answers(r) /\ (r.ip[1] = i \/ r.ip \in Ips)} :
         requests' = requests \cup S
    /\ c_addr' = AfterSend(NetBroadcast(i))
    /\ scan' = "poll"
    /\ UNCHANGED <<i, iptx, answers>>

(* strncmp over the length of the name in the answer, which may be empty.  *)
Match(r) ==
    /\ r.ip \notin Ips
    /\ cmd.server = << >>
    /\ IsPrefix(ValueByKey(Info(r), "streamnamerx"), cmd.name)

(* A defect used to test the properties: no break after a match.           *)
ReadOn ==
    /\ scan = "poll"
    /\ answers # << >>
    /\ c_addr' = Head(answers).ip
    /\ answers' = Tail(answers)
    /\ iptx' = IF Match(Head(answers)) THEN c_addr' ELSE iptx
    /\ UNCHANGED <<scan, i, requests>>

(* udp_recv stores the sender in c_addr, whoever it is.  A match ends the  *)
(* reading, and the loop goes on with the next network.                    *)
Read ==
    /\ scan = "poll"
    /\ answers # << >>
    /\ c_addr' = Head(answers).ip
    /\ answers' = Tail(answers)
    /\ IF Match(Head(answers))
         THEN iptx' = c_addr' /\ i' = i + 1 /\ scan' = "ask"
         ELSE UNCHANGED <<iptx, i, scan>>
    /\ UNCHANGED requests

(* poll reports nothing for 100 ms *)
PollTimeout ==
    /\ scan = "poll"
    /\ answers = << >>
    /\ i' = i + 1 /\ scan' = "ask"
    /\ UNCHANGED <<iptx, c_addr, requests, answers>>

(* while(stream->iptx == 0).  Later answers stay in the socket: nothing    *)
(* reads it any more.                                                      *)
EndOfPass ==
    /\ scan = "ask"
    /\ ~InIps
    /\ IF iptx = Nobody
         THEN scan' = "sleep" /\ UNCHANGED <<requests, answers>>
         ELSE scan' = "done" /\ requests' = {} /\ answers' = << >>
    /\ UNCHANGED <<i, iptx, c_addr>>

-----------------------------------------------------------------------------
(* The audio that follows. *)

(* Hearer gets the packets and takes the stream (its name, or any).        *)
Reaches ==
    /\ c_addr \in {Hearer.ip, Everybody}
    /\ Hearer.name \in {<< >>, cmd.name}

Audio ==
    /\ scan = "done"
    /\ NewPacket \/ SendCopy \/ SendAgain \/ CopyDone
    /\ net' = net \/ Reaches
    /\ Searches => sent' <= MaxFound
    /\ UNCHANGED search

OnTheWay == (Lose \/ Double \/ Receive) /\ UNCHANGED search

(* The emitter is started again, with another socket. *)
StartAgain ==
    /\ Restart
    /\ scan' = (IF Searches THEN "sleep" ELSE "done") /\ i' = 0
    /\ iptx' = cmd.ip /\ c_addr' = InitialAddress(cmd.ip)
    /\ requests' = {} /\ answers' = << >>

Scan == WakeUp \/ Ask \/ Read \/ PollTimeout \/ EndOfPass

DiscoveryNext ==
    /\ \/ Scan /\ UNCHANGED vars
       \/ \E r \in Receptors : Reply(r) /\ UNCHANGED vars
       \/ Audio \/ OnTheWay \/ StartAgain
    /\ UNCHANGED <<cmd, networks>>

Asked == Ask /\ UNCHANGED vars /\ \E r \in requests' : Match(r)
Answered == \E r \in Receptors : Match(r) /\ Reply(r) /\ UNCHANGED vars

(* The emitter runs.  Of the broadcasts of a search that does not end, not *)
(* all are lost to every receptor that matches, and so for the answers.    *)
DiscoverySpec ==
    /\ DiscoveryInit /\ [][DiscoveryNext]_discoveryVars
    /\ WF_discoveryVars(Scan /\ UNCHANGED <<vars, cmd, networks>>)
    /\ SF_discoveryVars(Asked /\ UNCHANGED <<cmd, networks>>)
    /\ SF_discoveryVars(Answered /\ UNCHANGED <<cmd, networks>>)

-----------------------------------------------------------------------------
(* Properties. *)

(* After a search audio goes to one host that has answered, never to a     *)
(* whole network, although the same field held the broadcast address       *)
(* (udp.h:46-55); with one network, to the receptor found: another host    *)
(* than this one, whose stream name the name of the emitter begins with.   *)
(* With more networks the search reads on after the match, and c_addr is   *)
(* left at whoever answered last (vban_functions.cpp:58-86).               *)
AudioGoesToFound ==
    Searches /\ scan = "done" =>
      /\ c_addr \in Hosts
      /\ networks = 1 =>
           c_addr = iptx /\ \E r \in Receptors : r.ip = iptx /\ Match(r)

(* A search for a receptor that is there ends: late answers, answers of    *)
(* others and lost datagrams only delay it.                                *)
ReceptorThere ==
    \E r \in Receptors : r.ip[1] \in 1..networks /\ Answers(r) /\ Match(r)
SearchEnds == (Searches /\ ReceptorThere) ~> (scan = "done")

=============================================================================
