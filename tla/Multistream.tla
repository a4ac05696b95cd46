----------------------------- MODULE Multistream -----------------------------
(***************************************************************************)
(* The multistream server of the receptors: the main thread gives every    *)
(* incoming stream a child process and forwards its packets to it (the     *)
(* MULTISTREAM branch of main in src/vban_receptor_jack/main.cpp), while   *)
(* timerThread (src/vban_common/vban_functions.cpp) kills the child of a   *)
(* stream that has been silent for IdleTicks periods of 50 ms.  The two    *)
(* threads share the client list and active_clients_num without a lock: a  *)
(* step makes one access to what the other thread may change meanwhile.    *)
(* A pointer of the list that is null is changed by main alone, and one    *)
(* that is not by timerThread alone: a thread may read its own twice.      *)
(*                                                                         *)
(* A client is named by the order of its malloc, and a freed name is never *)
(* used again.  An access through a pointer that is null, freed or to      *)
(* memory not yet initialised ends the behaviour with both threads "dead": *)
(* what the program does next is not defined.  The emitter started for     *)
(* each client in duplex mode is left out.                                 *)
(***************************************************************************)
EXTENDS Integers, FiniteSets

CONSTANTS
    Streams,      \* the (ip, streamname) pairs that may send
    ClientsMax,   \* vban_clients_max
    IdleTicks,    \* periods of 50 ms after which a client is idle: 4
    MaxCreated    \* bound of the runs: clients created in a behaviour

ASSUME StreamsAssumption == Streams # {}
ASSUME ClientsMaxAssumption == ClientsMax \in 1..255
ASSUME IdleTicksAssumption == IdleTicks \in 1..254
ASSUME MaxCreatedAssumption == MaxCreated \in Nat

Null == 0
Clients == 1..MaxCreated
Pointers == Clients \cup {Null}

VARIABLES
    clients,   \* context->clients, the head of the list
    next,      \* client->next
    stream,    \* client->ip and client->header.streamname
    timer,     \* client->timer
    pid,       \* client->pid, the child named as the client it was made for
    live,      \* clients allocated and not freed
    created,   \* clients allocated so far
    num,       \* active_clients_num
    child,     \* state of the child process of each client
    mpc, packet, client, ind, mnum,        \* locals of main
    tpc, tclient, index, tval, pidtokill,  \* locals of timerThread ...
    current, temp, after,                  \* ... and of its list functions
    age,       \* history: passes of timerThread since the last packet of
               \* the client, counted up to IdleTicks
    late,      \* history: clients whose last packet timerThread overlooks
    lost,      \* history: clients linked behind one that is being removed
    miscounted \* history: an increment and a decrement of num overlapped

node == <<next, stream, timer, pid, live, created>>
count == <<num, miscounted>>
mainVars == <<mpc, packet, client, ind, mnum>>
removal == <<current, temp, after>>
timerVars == <<tpc, tclient, index, tval, pidtokill, current, temp, after>>
history == <<age, late, lost>>
vars == <<clients, next, stream, timer, pid, live, created, num, child,
          mpc, packet, client, ind, mnum, tpc, tclient, index, tval, pidtokill,
          current, temp, after, age, late, lost, miscounted>>

AnyStream == CHOOSE s \in Streams : TRUE

(* The places of main where a client is linked and not counted yet, and    *)
(* those of timerThread where one is freed and still counted.              *)
Linking == {"fill", "popen", "pid", "report", "load", "store"}
Freed == {"head", "kill", "wait", "load", "store"}
MainAt == Linking \cup {"poll", "loop", "visit", "refresh", "forward", "decide", "choose",
                        "room", "start", "test", "advance", "link", "dead"}
TimerAt == Freed \cup {"sleep", "count", "loop", "visit", "get", "bump", "advance", "pid",
                       "pop", "popfree", "walk", "unlink", "relink", "free", "dead"}

TypeOK ==
    /\ clients \in Pointers /\ next \in [Clients -> Pointers]
    /\ stream \in [Clients -> Streams] /\ timer \in [Clients -> 0..IdleTicks]
    /\ pid \in [Clients -> Pointers]
    /\ live \subseteq Clients /\ created \in 0..MaxCreated
    /\ num \in 0..255
    /\ child \in [Clients -> {"none", "running", "signalled", "waited"}]
    /\ mpc \in MainAt /\ tpc \in TimerAt
    /\ packet \in Streams /\ client \in Pointers
    /\ ind \in 0..255 /\ mnum \in 0..255
    /\ tclient \in Pointers /\ index \in Nat /\ tval \in 0..255
    /\ pidtokill \in Pointers
    /\ current \in Pointers /\ temp \in Pointers /\ after \in Pointers
    /\ age \in [Clients -> 0..IdleTicks] /\ late \subseteq Clients
    /\ lost \subseteq Clients /\ miscounted \in BOOLEAN

(* The empty list of memset, and the two threads at their first wait. *)
Init ==
    /\ clients = Null /\ next = [c \in Clients |-> Null]
    /\ stream = [c \in Clients |-> AnyStream]
    /\ timer = [c \in Clients |-> 0] /\ pid = [c \in Clients |-> Null]
    /\ live = {} /\ created = 0 /\ num = 0
    /\ child = [c \in Clients |-> "none"]
    /\ mpc = "poll" /\ packet = AnyStream
    /\ client = Null /\ ind = 0 /\ mnum = 0
    /\ tpc = "sleep" /\ tclient = Null /\ index = 0 /\ tval = 0
    /\ pidtokill = Null /\ current = Null /\ temp = Null /\ after = Null
    /\ age = [c \in Clients |-> 0] /\ late = {} /\ lost = {} /\ miscounted = FALSE

(* What malloc returned and memset has not yet cleared. *)
Raw == IF mpc = "fill" THEN {created} ELSE {}

(* An access that needs the clients in nodes: the action goes on, or the   *)
(* program is lost.                                                        *)
Access(nodes, action) ==
    IF nodes \subseteq live THEN action
    ELSE /\ mpc' = "dead" /\ tpc' = "dead"
         /\ UNCHANGED <<clients, node, count, child, packet, client, ind, mnum,
                        tclient, index, tval, pidtokill, removal, history>>

(* A local that is assigned again before its next use has a fixed value,   *)
(* and so have the fields of a freed client: no access reaches them.       *)
MainIdle ==
    mpc' = "poll" /\ packet' = AnyStream /\ client' = Null /\ ind' = 0 /\ mnum' = 0
TimerIdle ==
    /\ tpc' = "sleep" /\ tclient' = Null /\ index' = 0 /\ tval' = 0
    /\ pidtokill' = Null /\ current' = Null /\ temp' = Null /\ after' = Null

(* uint8_t arithmetic of active_clients_num and active_clients_ind. *)
Byte(n) == n % 256

-----------------------------------------------------------------------------
(* The main thread: the client of a packet. *)

(* udp_recv of an audio packet of stream s; the traversal starts. *)
Receive(s) ==
    /\ mpc = "poll"
    /\ packet' = s
    /\ client' = clients
    /\ ind' = 0
    /\ mpc' = "loop"
    /\ UNCHANGED <<clients, node, count, child, mnum, timerVars, history>>

(* active_clients_ind < active_clients_num *)
LoopTest ==
    /\ mpc = "loop"
    /\ mpc' = IF ind < num THEN "visit" ELSE "decide"
    /\ UNCHANGED <<clients, node, count, child, packet, client, ind, mnum,
                   timerVars, history>>

(* The ip and the name of the packet against those of the client. *)
Visit ==
    /\ mpc = "visit"
    /\ Access({client},
         /\ IF stream[client] = packet
              THEN mpc' = "refresh" /\ UNCHANGED <<client, ind>>
              ELSE /\ client' = next[client]
                   /\ ind' = Byte(ind + 1)
                   /\ mpc' = "loop"
         /\ UNCHANGED <<clients, node, count, child, packet, mnum, timerVars,
                        history>>)

(* timerThread is about to store the timer of the client again, or to      *)
(* remove the client.                                                      *)
Overlooked(c) == tclient = c /\ tpc \notin {"count", "loop", "visit", "get", "advance"}

(* client->timer = 0 *)
Refresh ==
    /\ mpc = "refresh"
    /\ Access({client},
         /\ timer' = [timer EXCEPT ![client] = 0]
         /\ age' = [age EXCEPT ![client] = 0]
         /\ late' = IF Overlooked(client) THEN late \cup {client} ELSE late \ {client}
         /\ mpc' = "forward"
         /\ UNCHANGED <<clients, next, stream, pid, live, created, count, child, packet,
                        client, ind, mnum, timerVars, lost>>)

(* write(client->pipedesc, ...), then break out of the loop. *)
Forward ==
    /\ mpc = "forward"
    /\ Access({client},
         /\ mpc' = "decide"
         /\ UNCHANGED <<clients, node, count, child, packet, client, ind, mnum,
                        timerVars, history>>)

(* active_clients_ind == active_clients_num, tested after the loop and     *)
(* after the break alike.                                                  *)
Decide ==
    /\ mpc = "decide"
    /\ IF ind = num
         THEN mpc' = "choose" /\ client' = Null /\ ind' = 0 /\ UNCHANGED <<packet, mnum>>
         ELSE MainIdle
    /\ UNCHANGED <<clients, node, count, child, timerVars, history>>

-----------------------------------------------------------------------------
(* The main thread: a new client.  It is reached as context->clients, the  *)
(* local client being Null then, or as client->next of the old tail.       *)

New == IF client = Null THEN clients ELSE next[client]
Path == IF client = Null THEN {New} ELSE {client} \cup (IF client \in live THEN {New} ELSE {})

(* malloc *)
Allocate ==
    /\ created < MaxCreated
    /\ created' = created + 1
    /\ live' = live \cup {created + 1}
    /\ mpc' = "fill"
    /\ UNCHANGED <<stream, timer, pid>>

(* An empty list takes the client without a look at vban_clients_max. *)
Choose ==
    /\ mpc = "choose"
    /\ IF clients = Null
         THEN Allocate /\ clients' = created + 1 /\ UNCHANGED next
         ELSE mpc' = "room" /\ UNCHANGED <<clients, node>>
    /\ UNCHANGED <<count, child, packet, client, ind, mnum, timerVars, history>>

(* A full one drops the packet ("TODO send message"). *)
Room ==
    /\ mpc = "room"
    /\ IF num < ClientsMax
         THEN mpc' = "start" /\ UNCHANGED <<packet, client, ind, mnum>>
         ELSE MainIdle
    /\ UNCHANGED <<clients, node, count, child, timerVars, history>>

(* client = context->clients *)
Start ==
    /\ mpc = "start"
    /\ client' = clients
    /\ mpc' = "test"
    /\ UNCHANGED <<clients, node, count, child, packet, ind, mnum, timerVars, history>>

(* while (client->next != NULL) ... *)
TailTest ==
    /\ mpc = "test"
    /\ Access({client},
         /\ mpc' = IF next[client] # Null THEN "advance" ELSE "link"
         /\ UNCHANGED <<clients, node, count, child, packet, client, ind, mnum,
                        timerVars, history>>)

(* ... client = client->next, which is read again. *)
Advance ==
    /\ mpc = "advance"
    /\ Access({client},
         /\ client' = next[client]
         /\ mpc' = "test"
         /\ UNCHANGED <<clients, node, count, child, packet, ind, mnum, timerVars,
                        history>>)

(* The client whose successor timerThread has read, and which it frees,    *)
(* and the clients behind it that only main still finds.                   *)
Leaving == lost \cup (IF tpc \in {"popfree", "relink", "free"} THEN {temp} ELSE {})

(* client->next = malloc(...) *)
Link ==
    /\ mpc = "link"
    /\ Access({client},
         /\ Allocate
         /\ next' = [next EXCEPT ![client] = created + 1]
         /\ lost' = IF client \in Leaving THEN lost \cup {created + 1} ELSE lost
         /\ UNCHANGED <<clients, count, child, packet, client, ind, mnum, timerVars,
                        age, late>>)

(* memset, the address and the header of the packet. *)
Fill ==
    /\ mpc = "fill"
    /\ Access(Path,
         /\ stream' = [stream EXCEPT ![New] = packet]
         /\ mpc' = "popen"
         /\ UNCHANGED <<clients, next, timer, pid, live, created, count, child, packet,
                        client, ind, mnum, timerVars, history>>)

(* popen2: the child of the new client starts, its pipe is stored. *)
Popen ==
    /\ mpc = "popen"
    /\ Access(Path,
         /\ child' = [child EXCEPT ![created] = "running"]
         /\ mpc' = "pid"
         /\ UNCHANGED <<clients, node, count, packet, client, ind, mnum, timerVars,
                        history>>)

StorePid ==
    /\ mpc = "pid"
    /\ Access(Path,
         /\ pid' = [pid EXCEPT ![New] = created]
         /\ mpc' = "report"
         /\ UNCHANGED <<clients, next, stream, timer, live, created, count, child, packet,
                        client, ind, mnum, timerVars, history>>)

(* The messages about the new client, the last access to it. *)
Report ==
    /\ mpc = "report"
    /\ Access(Path,
         /\ mpc' = "load"
         /\ client' = Null
         /\ UNCHANGED <<clients, node, count, child, packet, ind, mnum, timerVars,
                        history>>)

(* active_clients_num++ on a variable the other thread decrements. *)
LoadNum ==
    /\ mpc = "load"
    /\ mnum' = num
    /\ mpc' = "store"
    /\ UNCHANGED <<clients, node, count, child, packet, client, ind, timerVars, history>>

StoreNum ==
    /\ mpc = "store"
    /\ num' = Byte(mnum + 1)
    /\ miscounted' = (miscounted \/ tpc = "store")
    /\ MainIdle
    /\ UNCHANGED <<clients, node, child, timerVars, history>>

-----------------------------------------------------------------------------
(* timerThread: a pass over the list. *)

(* usleep(50000); client = context->clients *)
Tick ==
    /\ tpc = "sleep"
    /\ tclient' = clients
    /\ index' = 0
    /\ tpc' = "count"
    /\ UNCHANGED <<clients, node, count, child, mainVars, tval, pidtokill, removal,
                   history>>

(* if (context->active_clients_num) *)
TimerCount ==
    /\ tpc = "count"
    /\ IF num # 0
         THEN tpc' = "loop" /\ UNCHANGED <<tclient, index, tval, pidtokill, removal>>
         ELSE TimerIdle
    /\ UNCHANGED <<clients, node, count, child, mainVars, history>>

(* A defect used to test the properties: the last client is left out. *)
TimerTestShort ==
    /\ tpc = "loop"
    /\ IF index + 1 < num
         THEN tpc' = "visit" /\ UNCHANGED <<tclient, index, tval, pidtokill, removal>>
         ELSE TimerIdle
    /\ UNCHANGED <<clients, node, count, child, mainVars, history>>

(* index < active_clients_num *)
TimerTest ==
    /\ tpc = "loop"
    /\ IF index < num
         THEN tpc' = "visit" /\ UNCHANGED <<tclient, index, tval, pidtokill, removal>>
         ELSE TimerIdle
    /\ UNCHANGED <<clients, node, count, child, mainVars, history>>

(* A defect used to test the properties: the limit missed by one. *)
IdleTooEarly(c) == timer[c] >= IdleTicks - 1

(* client->timer == 4 *)
Idle(c) == timer[c] = IdleTicks

(* The test of a client that timerThread, which alone frees, has reached.  *)
TimerVisit ==
    /\ tpc = "visit"
    /\ Access({IF tclient \in Raw THEN Null ELSE tclient},
         /\ tpc' = IF Idle(tclient) THEN "pid" ELSE "get"
         /\ UNCHANGED <<clients, node, count, child, mainVars, tclient, index, tval,
                        pidtokill, removal, history>>)

(* The load ... *)
TimerGet ==
    /\ tpc = "get"
    /\ tval' = timer[tclient]
    /\ tpc' = "bump"
    /\ UNCHANGED <<clients, node, count, child, mainVars, tclient, index, pidtokill,
                   removal, history>>

(* ... and the store of client->timer++. *)
TimerBump ==
    /\ tpc = "bump"
    /\ timer' = [timer EXCEPT ![tclient] = tval + 1]
    /\ age' = [age EXCEPT ![tclient] = IF @ < IdleTicks THEN @ + 1 ELSE @]
    /\ tval' = 0
    /\ tpc' = "advance"
    /\ UNCHANGED <<clients, next, stream, pid, live, created, count, child, mainVars,
                   tclient, index, pidtokill, removal, late, lost>>

(* client = client->next *)
TimerAdvance ==
    /\ tpc = "advance"
    /\ tclient' = next[tclient]
    /\ index' = index + 1
    /\ tpc' = "loop"
    /\ UNCHANGED <<clients, node, count, child, mainVars, tval, pidtokill, removal,
                   history>>

-----------------------------------------------------------------------------
(* timerThread: the removal of an idle client, the last of its pass. *)

(* A defect used to test the properties: the pid of the first client. *)
PidOfHead == pid[clients]

(* The pid of the client, through the head of the list for the first.      *)
PidOfIdle == pid[IF index = 0 THEN clients ELSE tclient]

(* pidtokill, and the call of pop or remove_by_index.  The test for        *)
(* remove_last fails: index is below active_clients_num, which main may    *)
(* only raise.                                                             *)
TimerPid ==
    /\ tpc = "pid"
    /\ pidtokill' = PidOfIdle
    /\ IF index = 0
         THEN tpc' = "pop" /\ UNCHANGED current
         ELSE tpc' = "walk" /\ current' = clients
    /\ UNCHANGED <<clients, node, count, child, mainVars, tclient, index, tval, temp,
                   after, history>>

(* The free of client c. *)
Free(c) ==
    /\ live' = live \ {c}
    /\ next' = [next EXCEPT ![c] = Null]
    /\ stream' = [stream EXCEPT ![c] = AnyStream]
    /\ timer' = [timer EXCEPT ![c] = 0]
    /\ pid' = [pid EXCEPT ![c] = Null]
    /\ age' = [age EXCEPT ![c] = 0]
    /\ late' = late \ {c}
    /\ UNCHANGED <<clients, created, count, child, mainVars, tclient, index, tval,
                   pidtokill, removal, lost>>

(* pop: the load of the successor of the head ... *)
PopLoad ==
    /\ tpc = "pop"
    /\ temp' = clients
    /\ after' = next[clients]
    /\ tpc' = "popfree"
    /\ UNCHANGED <<clients, node, count, child, mainVars, tclient, index, tval,
                   pidtokill, current, history>>

(* ... the free of the head ... *)
PopFree == tpc = "popfree" /\ Free(temp) /\ tpc' = "head"

(* ... and the store of its successor. *)
PopHead ==
    /\ tpc = "head"
    /\ clients' = after
    /\ tpc' = "kill"
    /\ UNCHANGED <<node, count, child, mainVars, tclient, index, tval, pidtokill,
                   removal, history>>

(* remove_by_index: a step of the walk.  A list that ends too early is     *)
(* left as it is.                                                          *)
Walk ==
    /\ tpc = "walk"
    /\ IF next[current] = Null
         THEN tpc' = "kill" /\ UNCHANGED <<current, index, temp>>
         ELSE IF index > 1
                THEN /\ current' = next[current] /\ index' = index - 1
                     /\ UNCHANGED <<tpc, temp>>
                ELSE temp' = next[current] /\ tpc' = "unlink" /\ UNCHANGED <<current, index>>
    /\ UNCHANGED <<clients, node, count, child, mainVars, tclient, tval, pidtokill,
                   after, history>>

(* The load of temp_node->next ... *)
Unlink ==
    /\ tpc = "unlink"
    /\ after' = next[temp]
    /\ tpc' = "relink"
    /\ UNCHANGED <<clients, node, count, child, mainVars, tclient, index, tval,
                   pidtokill, current, temp, history>>

(* A defect used to test the properties: the links after the client are    *)
(* lost.                                                                   *)
RelinkLosingTail ==
    /\ tpc = "relink"
    /\ next' = [next EXCEPT ![current] = Null]
    /\ tpc' = "free"
    /\ UNCHANGED <<clients, stream, timer, pid, live, created, count, child, mainVars,
                   tclient, index, tval, pidtokill, removal, history>>

(* ... its store into current->next ... *)
Relink ==
    /\ tpc = "relink"
    /\ next' = [next EXCEPT ![current] = after]
    /\ tpc' = "free"
    /\ UNCHANGED <<clients, stream, timer, pid, live, created, count, child, mainVars,
                   tclient, index, tval, pidtokill, removal, history>>

(* ... and the free of temp_node. *)
FreeNode == tpc = "free" /\ Free(temp) /\ tpc' = "kill"

(* kill(pidtokill, SIGINT), which of pid 0 takes the receptor itself.      *)
Kill ==
    /\ tpc = "kill"
    /\ IF pidtokill # Null
         THEN /\ child' = [child EXCEPT ![pidtokill] = "signalled"]
              /\ tpc' = "wait" /\ UNCHANGED mpc
         ELSE mpc' = "dead" /\ tpc' = "dead" /\ UNCHANGED child
    /\ UNCHANGED <<clients, node, count, packet, client, ind, mnum, tclient, index,
                   tval, pidtokill, removal, history>>

(* pclose2: waitpid blocks until the child has exited. *)
Wait ==
    /\ tpc = "wait"
    /\ child' = [child EXCEPT ![pidtokill] = "waited"]
    /\ tpc' = "load"
    /\ UNCHANGED <<clients, node, count, mainVars, tclient, index, tval, pidtokill,
                   removal, history>>

(* active_clients_num--, then break: one client per pass at most. *)
TimerLoadNum ==
    /\ tpc = "load"
    /\ tval' = num
    /\ tpc' = "store"
    /\ UNCHANGED <<clients, node, count, child, mainVars, tclient, index, pidtokill,
                   removal, history>>

(* A defect used to test the properties: the place is not given back. *)
TimerKeepsNum ==
    tpc = "store" /\ TimerIdle /\ UNCHANGED <<clients, node, count, child, mainVars, history>>

TimerStoreNum ==
    /\ tpc = "store"
    /\ num' = Byte(tval - 1)
    /\ miscounted' = (miscounted \/ mpc = "store")
    /\ TimerIdle
    /\ UNCHANGED <<clients, node, child, mainVars, history>>

-----------------------------------------------------------------------------
(* main between two waits: on the socket, and on the pipe of a child. *)
MainWork ==
    \/ LoopTest \/ Visit \/ Refresh \/ Decide
    \/ Choose \/ Room \/ Start \/ TailTest \/ Advance \/ Link \/ Fill
    \/ Popen \/ StorePid \/ Report \/ LoadNum \/ StoreNum

Main == (\E s \in Streams : Receive(s)) \/ Forward \/ MainWork

Timer ==
    \/ Tick \/ TimerCount \/ TimerTest \/ TimerVisit \/ TimerGet \/ TimerBump
    \/ TimerAdvance \/ TimerPid \/ PopLoad \/ PopFree \/ PopHead
    \/ Walk \/ Unlink \/ Relink \/ FreeNode
    \/ Kill \/ Wait \/ TimerLoadNum \/ TimerStoreNum

Next == Main \/ Timer

Spec == Init /\ [][Next]_vars

(* The two threads are scheduled, and a child exits on a signal.  A packet *)
(* need not come, and a write need not return: its child may not read.     *)
FairSpec == Spec /\ WF_vars(Timer) /\ WF_vars(MainWork)

-----------------------------------------------------------------------------
(* Properties. *)

Dead == mpc = "dead"

(* No client was linked behind one being removed, and no two updates of    *)
(* active_clients_num overlapped.                                          *)
Intact == ~Dead /\ lost = {} /\ ~miscounted

(* The list as timerThread leaves it: its clients, head and links, with    *)
(* the steps of a removal that are yet to come.                            *)
Members == live \ (lost \cup (IF tpc = "free" THEN {temp} ELSE {}))
Head == IF tpc = "head" THEN after ELSE clients
Succ(c) == IF tpc \in {"popfree", "relink"} /\ c = temp THEN after ELSE next[c]

(* While one thread takes clients out and the other appends, every client  *)
(* not freed is on one chain in order of arrival, but for those that were  *)
(* linked behind a client being removed.                                   *)
ListIsChain ==
    ~Dead =>
      /\ (Members = {}) <=> (Head = Null)
      /\ Head # Null => Head \in Members
      /\ \A c \in Members :
           /\ Succ(c) # Null => Succ(c) \in Members /\ Succ(c) > c
           /\ c # Head => \E p \in Members : Succ(p) = c

ServerInv == TypeOK /\ ListIsChain

(* As long as the list and the count are intact, every child that runs is  *)
(* of a client of the list or is about to be killed, and what is killed is *)
(* the child of a client that has left, never the receptor itself: the pid *)
(* is read before the client is freed, and of the client that is freed.    *)
NoOrphanChild ==
    Intact =>
      /\ tpc \in {"kill", "wait"} => pidtokill # Null
      /\ \A c \in Clients :
           /\ child[c] = "running" => c \in live \/ (tpc \in {"head", "kill"} /\ pidtokill = c)
           /\ child[c] \in {"signalled", "waited"} => c \notin live

(* active_clients_num is the number of clients, but for the one that main  *)
(* has linked and not counted yet and the one that timerThread has freed   *)
(* and not given back, unless an increment and a decrement overlapped.     *)
Uncounted == IF mpc \in Linking THEN 1 ELSE 0
Returning == IF tpc \in Freed THEN 1 ELSE 0
CountIsExact ==
    ~Dead /\ ~miscounted => num = Byte((Cardinality(live) + Returning) - Uncounted)

(* A client is freed only after IdleTicks passes without a packet, or when *)
(* its last packet came between the load and the store of its timer, or    *)
(* after it was found idle: a reset that timerThread overlooks.            *)
SilentClientsOnly ==
    [][\A c \in live \ live' : age[c] >= IdleTicks \/ c \in late]_vars

(* A client that sends no more is removed in the end, wherever in the list *)
(* it is, as long as the list and the count are intact; also while main    *)
(* waits on the pipe of another child that does not read.                  *)
IdleClientIsReaped ==
    \A c \in Clients :
      []<>(c \notin live \/ ~Intact \/ (mpc = "refresh" /\ client = c))

(* "In multistream mode they will receive all the streams on the UDP       *)
(* port" (README.md:10): main never runs past the end of the list in      *)
(* search of the client of a packet.                                       *)
SearchStaysInList == mpc = "visit" => client # Null

=============================================================================
