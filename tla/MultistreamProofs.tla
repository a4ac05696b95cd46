-------------------------- MODULE MultistreamProofs --------------------------
(***************************************************************************)
(* Proofs about Multistream, for any streams, any limit of clients and any *)
(* idle time.  The inductive invariant says where each pointer of the two  *)
(* threads is: on the list that is left once a removal under way is done   *)
(* (Members, Head, Links), at the place that the indices count (Scan), and *)
(* at the client to be removed (Removal, Cut).  From it follow that the    *)
(* list stays a chain, that a client removed is old, that its child is the *)
(* one killed, and that the clients are counted exactly.                   *)
(***************************************************************************)
EXTENDS Multistream, FiniteSetTheorems, TLAPS

(* What is known of the variables' types, but for the one Boolean. *)
Types ==
    /\ clients \in Pointers /\ next \in [Clients -> Pointers]
    /\ stream \in [Clients -> Streams] /\ timer \in [Clients -> 0..IdleTicks]
    /\ pid \in [Clients -> Pointers]
    /\ live \subseteq Clients /\ created \in 0..MaxCreated
    /\ num \in 0..255
    /\ child \in [Clients -> {"none", "running", "signalled", "waited"}]
    /\ mpc \in MainAt /\ tpc \in TimerAt
    /\ packet \in Streams /\ client \in Pointers
    /\ ind \in 0..255 /\ mnum \in 0..255
    /\ tclient \in Pointers /\ index \in Nat /\ tval \in 0..255
    /\ pidtokill \in Pointers
    /\ current \in Pointers /\ temp \in Pointers /\ after \in Pointers
    /\ age \in [Clients -> 0..IdleTicks] /\ late \subseteq Clients
    /\ lost \subseteq Clients

(* main has linked the client it creates and is not done with its fields.  *)
Filling == {"fill", "popen", "pid"}

(* A client is allocated once, the newest last: what is freed or not       *)
(* allocated yet has no successor, and a successor is newer.               *)
Allocation ==
    /\ live \subseteq 1..created /\ lost \subseteq 1..created
    /\ \A c \in Clients : c \notin live => next[c] = Null
    /\ \A c \in Clients : next[c] # Null => next[c] > c /\ next[c] <= created

(* What the pointer of main leads to while it creates a client.            *)
Creation ==
    /\ mpc = "choose" => client = Null
    /\ mpc = "link" /\ client \in live => next[client] = Null
    /\ mpc \in Linking => created > 0
    /\ mpc \in Filling \cup {"report"} => New \in {created, Null}

(* The list M with the head h and the links s holds its clients in order   *)
(* of arrival.                                                             *)
IsChain(M, h, s) ==
    /\ h = Null => M = {}
    /\ h # Null => h \in M
    /\ \A c \in M : h <= c
    /\ \A c \in M : s[c] # Null => s[c] \in M /\ s[c] > c
    /\ \A c, d \in M : c < d => s[c] # Null /\ s[c] <= d
    /\ \A c \in M : c # h => \E p \in M : s[p] = c

Links == [c \in Clients |-> Succ(c)]
Chain == ~Dead => IsChain(Members, Head, Links)

(* The place of a client in the list. *)
Pos(c) == Cardinality({d \in Members : d < c})

(* Where the pointers of timerThread are on its way through the list, and  *)
(* through it again to the client that it removes.                         *)
Removing == {"pid", "pop", "popfree", "walk", "unlink", "relink", "free"}
Scan ==
    /\ tpc \in {"count", "loop", "visit"} =>
         tclient = Null \/ (tclient \in Members /\ Pos(tclient) = index)
    /\ tpc \in {"get", "bump", "advance", "pid"} =>
         tclient \in Members /\ Pos(tclient) = index
    /\ tpc = "walk" => index >= 1 /\ Pos(current) + index = Pos(tclient)
Removal ==
    /\ tpc \in {"pop", "popfree"} => tclient \in Members /\ clients = tclient
    /\ tpc \in {"popfree", "unlink", "relink", "free"} => temp = tclient
    /\ tpc \in {"walk", "unlink", "relink"} => tclient \in Members /\ current \in Members
    /\ tpc \in {"unlink", "relink"} => next[current] = temp
    /\ tpc = "free" => temp \in live
Cut ==
    /\ tpc = "head" =>
         clients = temp /\ temp # Null /\ temp <= created /\ temp \notin live
    /\ tpc \in {"popfree", "head", "relink"} =>
         after = Null \/ (after > temp /\ after <= created)
Round == Scan /\ Removal /\ Cut

(* The timer never shows more than the passes since the last packet,       *)
(* unless the reset by that packet was overlooked.                         *)
Ages ==
    /\ \A c \in Clients : timer[c] <= age[c] \/ c \in late
    /\ tpc = "get" => timer[tclient] < IdleTicks
    /\ tpc = "bump" => tval < IdleTicks /\ (tval <= age[tclient] \/ tclient \in late)
    /\ tpc \in Removing => age[tclient] >= IdleTicks \/ tclient \in late

(* What the two threads have loaded of active_clients_num is still there.  *)
Counting ==
    ~Dead /\ ~miscounted =>
      /\ num = Byte((Cardinality(live) + Returning) - Uncounted)
      /\ mpc = "store" => mnum = num
      /\ tpc = "store" => tval = num

(* timerThread has the pid of the client that it frees, and never that of  *)
(* a client whose child main is about to start.                            *)
Killing ==
    Intact =>
      /\ tpc \in {"visit", "pid"} /\ mpc \in Linking => tclient # created
      /\ tpc \in Removing \ {"pid"} => pidtokill = tclient
      /\ tpc \in {"head", "kill", "wait"} => pidtokill \in 1..created /\ pidtokill \notin live
      /\ \A c \in live : pid[c] = c \/ (mpc \in Filling /\ c = created)
      /\ \A c \in Clients :
           /\ child[c] = "running" => c \in live \/ (tpc \in {"head", "kill"} /\ pidtokill = c)
           /\ child[c] \in {"signalled", "waited"} => c \notin live
           /\ c > created => child[c] = "none"

ReaperInv ==
    /\ Types /\ miscounted \in BOOLEAN /\ (mpc = "dead" <=> tpc = "dead")
    /\ Allocation /\ Creation /\ Chain /\ Round /\ Ages /\ Counting /\ Killing
-----------------------------------------------------------------------------
LEMMA Bounds ==
    /\ IdleTicks \in 1..254 /\ ClientsMax \in 1..255 /\ MaxCreated \in Nat
    /\ AnyStream \in Streams /\ Null \in Pointers /\ Clients \subseteq Pointers
    /\ Clients \subseteq Nat /\ Null \notin Clients /\ 0 \in 0..IdleTicks
  BY StreamsAssumption, ClientsMaxAssumption, IdleTicksAssumption, MaxCreatedAssumption
     DEF AnyStream, Pointers, Clients, Null

LEMMA TypesAreTypes == TypeOK <=> Types /\ miscounted \in BOOLEAN
  BY Zenon DEF TypeOK, Types

LEMMA Bytes ==
    /\ \A n \in Int : Byte(n) \in 0..255
    /\ \A n \in Nat : Byte(n) <= n
  BY DEF Byte

LEMMA ByteSteps ==
    ASSUME NEW n \in Int
    PROVE  Byte(Byte(n) + 1) = Byte(n + 1) /\ Byte(Byte(n) - 1) = Byte(n - 1)
  BY DEF Byte

LEMMA LiveAreClients ==
    ASSUME Types, Allocation
    PROVE  /\ created \in Nat /\ created \in 0..MaxCreated
           /\ live \subseteq Clients /\ Null \notin live /\ Members \subseteq live
           /\ Null \notin lost
           /\ \A c \in live : c \in Nat /\ c > 0 /\ c <= created
           /\ \A c \in Clients : c \in Nat /\ c > 0
           /\ \A c \in Clients : next[c] \in Nat
           /\ Members \cap lost = {}
<1>1. created \in Nat /\ created \in 0..MaxCreated /\ live \subseteq Clients
  BY Bounds DEF Types
<1>2. \A c \in live : c \in Nat /\ c > 0 /\ c <= created
  BY <1>1 DEF Allocation
<1>3. Null \notin live /\ Null \notin lost
  BY <1>1 DEF Allocation, Null
<1>4. \A c \in Clients : c \in Nat /\ c > 0
  BY Bounds DEF Clients
<1>5. Members \subseteq live /\ Members \cap lost = {}
  BY DEF Members
<1>6. \A c \in Clients : next[c] \in Nat
  <2>1. next \in [Clients -> Pointers]
    BY DEF Types
  <2>2. Pointers \subseteq Nat
    BY <1>4 DEF Pointers, Null
  <2>3. QED
    BY <2>1, <2>2
<1>7. QED
  BY <1>1, <1>2, <1>3, <1>4, <1>5, <1>6

(* The clients are finitely many. *)
LEMMA LiveIsFinite ==
    ASSUME Types
    PROVE  /\ IsFiniteSet(live) /\ Cardinality(live) \in Nat
           /\ IsFiniteSet(Members)
           /\ \A c : IsFiniteSet({d \in Members : d < c}) /\ Pos(c) \in Nat
<1>1. MaxCreated \in Nat /\ live \subseteq 1..MaxCreated /\ Members \subseteq live
  BY Bounds DEF Types, Clients, Members
<1>2. IsFiniteSet(1..MaxCreated)
  <2>1. 1 \in Int /\ MaxCreated \in Int
    BY <1>1
  <2>2. QED
    BY <2>1, FS_Interval
<1>3. IsFiniteSet(live)
  BY <1>1, <1>2, FS_Subset
<1>4. IsFiniteSet(Members)
  BY <1>1, <1>3, FS_Subset
<1>5. ASSUME NEW c PROVE IsFiniteSet({d \in Members : d < c}) /\ Pos(c) \in Nat
  <2>1. {d \in Members : d < c} \in SUBSET Members
    OBVIOUS
  <2>2. IsFiniteSet({d \in Members : d < c})
    BY <2>1, <1>4, FS_Subset
  <2>3. QED
    BY <2>2, FS_CardinalityType DEF Pos
<1>6. Cardinality(live) \in Nat
  BY <1>3, FS_CardinalityType
<1>7. QED
  BY <1>3, <1>4, <1>5, <1>6

-----------------------------------------------------------------------------
(* Chains: the new tail of main, and the two removals of timerThread.      *)

LEMMA SameChain ==
    ASSUME NEW M, NEW h, NEW s, NEW t, IsChain(M, h, s),
           \A c \in M : t[c] = s[c]
    PROVE  IsChain(M, h, t)
  BY DEF IsChain

LEMMA ChainOfOne ==
    ASSUME NEW n \in Nat \ {Null}, NEW s, s[n] = Null
    PROVE  IsChain({n}, n, s)
  BY DEF IsChain, Null

LEMMA ChainIsUpward ==
    ASSUME NEW M \in SUBSET (Nat \ {Null}), NEW h, NEW s, IsChain(M, h, s)
    PROVE  /\ \A c \in M : s[c] \in Nat /\ h # Null /\ h \in M
           /\ \A c, d \in M : c < d \/ c = d \/ d < c
           /\ \A c \in M : h < c \/ h = c
<1>1. \A c \in M : c \in Nat /\ c # Null
  OBVIOUS
<1>2. \A c \in M : h # Null /\ h \in M
  BY DEF IsChain
<1>3. \A c \in M : s[c] \in Nat
  <2>1. \A c \in M : s[c] # Null => s[c] \in M
    BY DEF IsChain
  <2>2. Null \in Nat
    BY DEF Null
  <2>3. QED
    BY <1>1, <2>1, <2>2
<1>4. \A c, d \in M : c < d \/ c = d \/ d < c
  BY <1>1
<1>5. ASSUME NEW c \in M PROVE h < c \/ h = c
  <2>1. h <= c /\ h \in Nat /\ c \in Nat
    BY <1>1, <1>2 DEF IsChain
  <2>2. QED
    BY <2>1
<1>6. QED
  BY <1>2, <1>3, <1>4, <1>5

LEMMA ChainWithTail ==
    ASSUME NEW M \in SUBSET (Nat \ {Null}), NEW h, NEW s, IsChain(M, h, s),
           NEW t \in M, s[t] = Null, NEW n \in Nat \ {Null}, \A c \in M : c < n,
           NEW r, r[t] = n, r[n] = Null, \A c \in M \ {t} : r[c] = s[c]
    PROVE  IsChain(M \cup {n}, h, r)
<1>0. n \notin M
  <2>1. ~(n < n)
    OBVIOUS
  <2>2. QED
    BY <2>1
<1>1. /\ \A c \in M : s[c] \in Nat /\ h # Null /\ h \in M
      /\ \A c, d \in M : c < d \/ c = d \/ d < c
      /\ n \notin M
  BY <1>0, ChainIsUpward
<1>2. \A c \in M : c < t \/ c = t
  <2>1. \A c \in M : ~(t < c)
    BY DEF IsChain
  <2>2. \A c \in M : c < t \/ c = t \/ t < c
    BY <1>1
  <2>3. QED
    BY <2>1, <2>2, Zenon
<1>3. \A c \in M \cup {n} : h <= c
  <2>1. h \in M /\ h < n /\ h \in Nat
    BY <1>1
  <2>2. h <= n
    BY <2>1
  <2>3. \A c \in M : h <= c
    BY DEF IsChain
  <2>4. QED
    BY <2>2, <2>3
<1>4. \A c \in M \cup {n} : r[c] # Null => r[c] \in M \cup {n} /\ r[c] > c
  <2>1. r[t] \in M \cup {n} /\ r[t] > t
    OBVIOUS
  <2>2. \A c \in M \ {t} : r[c] # Null => r[c] \in M \cup {n} /\ r[c] > c
    BY DEF IsChain
  <2>3. QED
    BY <2>1, <2>2
<1>5. ASSUME NEW c \in M \cup {n}, NEW d \in M \cup {n}, c < d
      PROVE  r[c] # Null /\ r[c] <= d
  <2>1. c \in M
    BY <1>5
  <2>2. CASE c = t
    BY <1>2, <1>5, <2>2
  <2>3. CASE c # t
    <3>1. c < t /\ r[c] = s[c]
      BY <1>2, <2>1, <2>3
    <3>2. s[c] # Null /\ s[c] <= t
      BY <2>1, <3>1 DEF IsChain
    <3>3. CASE d = n
      BY <1>1, <2>1, <3>1, <3>2, <3>3
    <3>4. CASE d \in M
      BY <1>5, <2>1, <3>1, <3>4 DEF IsChain
    <3>5. QED
      BY <3>3, <3>4
  <2>4. QED
    BY <2>2, <2>3
<1>6. \A c \in M \cup {n} : c # h => \E p \in M \cup {n} : r[p] = c
  <2>1. ASSUME NEW c \in M, c # h
        PROVE  \E p \in M \cup {n} : r[p] = c
    <3>1. PICK p \in M : s[p] = c
      BY <2>1 DEF IsChain
    <3>2. p # t
      BY <3>1
    <3>3. QED
      BY <3>1, <3>2
  <2>2. QED
    BY <2>1
<1>7. QED
  BY <1>1, <1>3, <1>4, <1>5, <1>6 DEF IsChain

LEMMA ChainWithoutHead ==
    ASSUME NEW M \in SUBSET (Nat \ {Null}), NEW h \in M, NEW s, IsChain(M, h, s),
           NEW r, \A c \in M \ {h} : r[c] = s[c]
    PROVE  IsChain(M \ {h}, s[h], r)
<1>1. /\ \A c \in M : s[c] \in Nat
      /\ \A c \in M \ {h} : h < c
  BY ChainIsUpward
<1>2. s[h] = Null => M \ {h} = {}
  BY <1>1 DEF IsChain
<1>3. s[h] # Null => s[h] \in M \ {h}
  BY <1>1 DEF IsChain
<1>4. \A c \in M \ {h} : s[h] <= c
  BY <1>1 DEF IsChain
<1>5. \A c \in M \ {h} : r[c] # Null => r[c] \in M \ {h} /\ r[c] > c
  BY <1>1 DEF IsChain
<1>6. \A c, d \in M \ {h} : c < d => r[c] # Null /\ r[c] <= d
  BY DEF IsChain
<1>7. ASSUME NEW c \in M \ {h}, c # s[h]
      PROVE  \E p \in M \ {h} : r[p] = c
  <2>1. PICK p \in M : s[p] = c
    BY DEF IsChain
  <2>2. p # h
    BY <1>7, <2>1
  <2>3. QED
    BY <2>1, <2>2
<1>8. QED
  BY <1>2, <1>3, <1>4, <1>5, <1>6, <1>7 DEF IsChain

LEMMA ChainWithoutNext ==
    ASSUME NEW M \in SUBSET (Nat \ {Null}), NEW h, NEW s, IsChain(M, h, s),
           NEW q \in M, NEW x \in M, s[q] = x,
           NEW r, r[q] = s[x], \A c \in M \ {q, x} : r[c] = s[c]
    PROVE  IsChain(M \ {x}, h, r)
<1>0. x # Null /\ q < x /\ q \in Nat /\ x \in Nat
  BY DEF IsChain
<1>1. /\ \A c \in M : s[c] \in Nat /\ h # Null /\ h \in M
      /\ \A c \in M : h < c \/ h = c
      /\ q < x /\ x # Null
  BY <1>0, ChainIsUpward
<1>2. h # x /\ h \in M \ {x}
  BY <1>1
<1>3. \A c \in M \ {x} : h <= c
  BY DEF IsChain
<1>4. /\ s[x] # Null => s[x] \in M \ {x} /\ s[x] > x
      /\ \A d \in M : d > x => s[x] # Null /\ s[x] <= d
      /\ \A d \in M \ {x} : d > q => d > x
  <2>1. s[x] # Null => s[x] \in M \ {x} /\ s[x] > x
    BY <1>1 DEF IsChain
  <2>2. \A d \in M : d > x => s[x] # Null /\ s[x] <= d
    BY <1>1 DEF IsChain
  <2>3. \A d \in M \ {x} : d > q => d > x
    BY <1>1 DEF IsChain
  <2>4. QED
    BY <2>1, <2>2, <2>3
<1>5. ASSUME NEW c \in M \ {q, x}, s[c] # Null PROVE s[c] # x
  <2>1. CASE c < q
    BY <1>1, <2>1 DEF IsChain
  <2>2. CASE q < c
    BY <1>1, <1>4, <2>2, <1>5 DEF IsChain
  <2>3. QED
    BY <2>1, <2>2
<1>6. ASSUME NEW c \in M \ {x}, r[c] # Null PROVE r[c] \in M \ {x} /\ r[c] > c
  <2>1. CASE c = q
    BY <1>1, <1>4, <1>6, <2>1
  <2>2. CASE c # q
    BY <1>5, <1>6, <2>2 DEF IsChain
  <2>3. QED
    BY <2>1, <2>2
<1>7. ASSUME NEW c \in M \ {x}, NEW d \in M \ {x}, c < d
      PROVE  r[c] # Null /\ r[c] <= d
  <2>1. CASE c = q
    BY <1>4, <1>7, <2>1
  <2>2. CASE c # q
    BY <1>7, <2>2 DEF IsChain
  <2>3. QED
    BY <2>1, <2>2
<1>8. ASSUME NEW c \in M \ {x}, c # h
      PROVE  \E p \in M \ {x} : r[p] = c
  <2>1. PICK p \in M : s[p] = c
    BY <1>8 DEF IsChain
  <2>2. CASE p = x
    BY <1>1, <2>1, <2>2
  <2>3. CASE p # x
    <3>1. p # q
      BY <2>1
    <3>2. QED
      BY <2>1, <2>3, <3>1
  <2>4. QED
    BY <2>2, <2>3
<1>9. QED
  BY <1>2, <1>3, <1>6, <1>7, <1>8 DEF IsChain

-----------------------------------------------------------------------------
(* Places in the list. *)

LEMMA FirstPlace ==
    ASSUME Types, Allocation, NEW s, IsChain(Members, Head, s)
    PROVE  /\ Head \in Members => Pos(Head) = 0
           /\ \A c \in Members : Pos(c) = 0 => c = Head
<1>1. \A c \in Members : c \in Nat /\ Head <= c
  BY LiveAreClients DEF IsChain
<1>2. ASSUME Head \in Members PROVE Pos(Head) = 0
  <2>1. \A d \in Members : ~(d < Head)
    BY <1>1, <1>2
  <2>2. {d \in Members : d < Head} = {}
    BY <2>1
  <2>3. QED
    BY <2>2, FS_EmptySet DEF Pos
<1>3. ASSUME NEW c \in Members, Pos(c) = 0 PROVE c = Head
  <2>1. {d \in Members : d < c} = {}
    BY <1>3, LiveIsFinite, FS_EmptySet DEF Pos
  <2>2. Head # Null /\ Head \in Members
    BY DEF IsChain
  <2>3. ~(Head < c)
    BY <2>1, <2>2
  <2>4. QED
    BY <1>1, <2>2, <2>3
<1>4. QED
  BY <1>2, <1>3

LEMMA NextPlace ==
    ASSUME Types, Allocation, NEW h, NEW s, IsChain(Members, h, s),
           NEW c \in Members, NEW e \in Members, s[c] = e
    PROVE  Pos(e) = Pos(c) + 1
<1>1. \A d \in Members : d \in Nat /\ d # Null
  BY LiveAreClients
<1>2. c < e /\ \A d \in Members : c < d => e <= d
  BY <1>1 DEF IsChain
<1>3. \A d \in Members : d < e <=> d < c \/ d = c
  BY <1>1, <1>2
<1>4. {d \in Members : d < e} = {d \in Members : d < c} \cup {c}
  BY <1>3
<1>5. c \notin {d \in Members : d < c} /\ IsFiniteSet({d \in Members : d < c})
  BY <1>1, LiveIsFinite
<1>6. Cardinality({d \in Members : d < c} \cup {c}) = Cardinality({d \in Members : d < c}) + 1
  BY <1>5, FS_AddElement, Zenon
<1>7. QED
  BY <1>4, <1>6 DEF Pos

LEMMA PlacesAscend ==
    ASSUME Types, Allocation, NEW c \in Members, NEW e \in Members, c < e
    PROVE  Pos(c) < Pos(e)
<1>1. \A d \in Members : d \in Nat
  BY LiveAreClients
<1>2. {d \in Members : d < c} \cup {c} \in SUBSET {d \in Members : d < e}
  BY <1>1
<1>3. c \notin {d \in Members : d < c} /\ IsFiniteSet({d \in Members : d < c})
      /\ IsFiniteSet({d \in Members : d < e})
  BY <1>1, LiveIsFinite
<1>4. Cardinality({d \in Members : d < c} \cup {c}) = Cardinality({d \in Members : d < c}) + 1
  BY <1>3, FS_AddElement, Zenon
<1>5. Cardinality({d \in Members : d < c} \cup {c}) <= Cardinality({d \in Members : d < e})
  BY <1>2, <1>3, FS_Subset, Zenon
<1>6. Pos(c) \in Nat /\ Pos(e) \in Nat
  BY LiveIsFinite
<1>7. QED
  BY <1>4, <1>5, <1>6 DEF Pos

(* A step of remove_by_index: from a client as many places before the one  *)
(* to be removed as the index says, its successor is one nearer.           *)
LEMMA WalkNears ==
    ASSUME Types, Allocation, NEW h, NEW s, IsChain(Members, h, s),
           NEW c \in Members, NEW e \in Members,
           NEW i \in Nat, i >= 1, Pos(c) + i = Pos(e)
    PROVE  /\ s[c] \in Members /\ s[c] # Null /\ Pos(s[c]) = Pos(c) + 1
           /\ i = 1 => s[c] = e
<1>1. \A d \in Members : d \in Nat /\ d # Null /\ Pos(d) \in Nat
  BY LiveAreClients, LiveIsFinite
<1>2. c < e
  <2>1. ~(Pos(e) < Pos(c)) /\ ~(Pos(e) = Pos(c))
    BY <1>1
  <2>2. ~(e < c) /\ e # c
    BY <2>1, PlacesAscend
  <2>3. QED
    BY <1>1, <2>2
<1>3. s[c] # Null /\ s[c] <= e /\ s[c] \in Members
  BY <1>2 DEF IsChain
<1>4. Pos(s[c]) = Pos(c) + 1
  BY <1>3, NextPlace
<1>5. ASSUME i = 1 PROVE s[c] = e
  <2>1. ~(Pos(s[c]) < Pos(e))
    BY <1>1, <1>3, <1>4, <1>5
  <2>2. ~(s[c] < e)
    BY <1>3, <2>1, PlacesAscend
  <2>3. QED
    BY <1>1, <1>3, <2>2
<1>6. QED
  BY <1>3, <1>4, <1>5

(* The newest client is the last, behind all others. *)
LEMMA LastPlace ==
    ASSUME Types, Allocation, Members = live, created \in live
    PROVE  Pos(created) = Cardinality(live) - 1 /\ Cardinality(live) >= 1
<1>1. \A d \in live : d \in Nat /\ d <= created
  BY LiveAreClients
<1>2. \A d \in live : d < created <=> d # created
  BY <1>1
<1>3. {d \in Members : d < created} = live \ {created}
  BY <1>2
<1>4. IsFiniteSet(live) /\ Cardinality(live) \in Nat
  BY LiveIsFinite
<1>5. Cardinality(live \ {created}) = Cardinality(live) - 1
  BY <1>4, FS_RemoveElement
<1>6. Cardinality(live) # 0
  BY <1>4, FS_EmptySet
<1>7. QED
  BY <1>3, <1>4, <1>5, <1>6 DEF Pos

-----------------------------------------------------------------------------
(* A step that changes neither the clients nor a link leaves the list as   *)
(* it is, unless timerThread is in the midst of a removal.                 *)
Midst == {"popfree", "relink", "free", "head"}

LEMMA ListStays ==
    ASSUME UNCHANGED <<clients, next, live, lost>>,
           \/ UNCHANGED <<tpc, temp, after>>
           \/ tpc \notin Midst /\ tpc' \notin Midst
    PROVE  /\ Members' = Members /\ Head' = Head /\ Links' = Links
           /\ \A c \in Pointers : Pos(c)' = Pos(c)
<1>1. Members' = Members /\ Head' = Head
  BY DEF Members, Head, Midst
<1>2. \A c \in Clients : Succ(c)' = Succ(c)
  BY DEF Succ, Midst
<1>3. Links' = Links
  BY <1>2 DEF Links
<1>4. QED
  BY <1>1, <1>3 DEF Pos

(* What main does between two changes of the list.                         *)
LEMMA MainQuiet ==
    ASSUME ReaperInv,
           UNCHANGED <<clients, next, timer, pid, live, created, num, miscounted, child,
                       timerVars, age, late, lost>>,
           stream' \in [Clients -> Streams],
           mpc # "dead", mpc' \in MainAt \ {"dead"},
           packet' \in Streams, client' \in Pointers, ind' \in 0..255, mnum' \in 0..255,
           mpc' \in Linking <=> mpc \in Linking,
           mpc' \in Filling <=> mpc \in Filling,
           mpc' = "choose" => client' = Null,
           mpc' = "link" /\ client' \in live => next[client'] = Null,
           mpc' \in Filling \cup {"report"} =>
             mpc \in Filling \cup {"report"} /\ client' = client,
           mpc' = "store" => mnum' = num \/ (mpc = "store" /\ mnum' = mnum)
    PROVE  ReaperInv'
<1>0. /\ Types /\ miscounted \in BOOLEAN /\ (mpc = "dead" <=> tpc = "dead")
      /\ Allocation /\ Creation /\ Chain /\ Round /\ Ages /\ Counting /\ Killing
  BY DEF ReaperInv
<1> USE DEF timerVars
<1>1. Types'
  BY <1>0 DEF Types
<1>2. Allocation'
  BY <1>0 DEF Allocation
<1>3. Creation'
  BY <1>0 DEF Creation, New
<1>4. Members' = Members /\ Head' = Head /\ Links' = Links
      /\ \A c \in Pointers : Pos(c)' = Pos(c)
  BY ListStays
<1>5. Chain'
  BY <1>0, <1>4 DEF Chain, Dead
<1>6. Round'
  BY <1>0, <1>4 DEF Round, Scan, Removal, Cut, Types
<1>7. Ages'
  BY <1>0 DEF Ages
<1>8. Counting'
  <2>1. Uncounted' = Uncounted /\ Returning' = Returning
    BY DEF Uncounted, Returning
  <2>2. num' = num /\ live' = live /\ tval' = tval /\ tpc' = tpc /\ (~miscounted' => ~miscounted)
        /\ ~Dead
    BY DEF Dead
  <2>3. QED
    BY <1>0, <2>1, <2>2, Zenon DEF Counting
<1>9. Killing'
  <2>1. Intact' => Intact
    BY Zenon DEF Intact, Dead
  <2>2. QED
    BY <1>0, <2>1, Zenon DEF Killing
<1>10. miscounted' \in BOOLEAN /\ (mpc' = "dead" <=> tpc' = "dead")
  BY <1>0
<1>11. QED
  BY <1>1, <1>2, <1>3, <1>5, <1>6, <1>7, <1>8, <1>9, <1>10 DEF ReaperInv

(* An access that ends the program. *)
Lost ==
    /\ mpc' = "dead" /\ tpc' = "dead"
    /\ UNCHANGED <<clients, node, count, child, packet, client, ind, mnum,
                   tclient, index, tval, pidtokill, removal, history>>

LEMMA LostKeeps ==
    ASSUME ReaperInv, Lost
    PROVE  ReaperInv'
<1> USE DEF Lost, node, count, removal, history
<1>1. Types' /\ miscounted' \in BOOLEAN
  <2>1. Types'
    BY DEF ReaperInv, Types, MainAt, TimerAt
  <2>2. QED
    BY <2>1, Zenon DEF ReaperInv
<1>2. Allocation' /\ Creation'
  BY DEF ReaperInv, Allocation, Creation, Linking, Filling
<1>3. Chain' /\ Counting' /\ Killing' /\ (mpc' = "dead" <=> tpc' = "dead")
  BY Zenon DEF Chain, Counting, Killing, Intact, Dead
<1>4. Round' /\ Ages'
  BY DEF ReaperInv, Round, Scan, Removal, Cut, Ages, Removing
<1>5. QED
  BY <1>1, <1>2, <1>3, <1>4 DEF ReaperInv

LEMMA AccessLost ==
    ASSUME NEW S, NEW A, Access(S, A), ~(S \subseteq live)
    PROVE  Lost
  BY DEF Access, Lost

LEMMA MainPlaces ==
    /\ {"poll", "loop", "visit", "refresh", "forward", "decide", "choose", "room", "start",
        "test", "advance", "link", "fill", "popen", "pid", "report", "load", "store"}
         = MainAt \ {"dead"}
    /\ Filling \subseteq Linking
  BY DEF MainAt, Linking, Filling

LEMMA MainReads ==
    ASSUME ReaperInv,
           \/ \E x \in Streams : Receive(x)
           \/ LoopTest \/ Visit \/ Forward \/ Decide \/ Room \/ Start \/ TailTest
           \/ Advance \/ Fill \/ Report \/ LoadNum
    PROVE  ReaperInv'
<1>0. Types /\ Creation /\ Allocation
  BY DEF ReaperInv
<1> USE Bounds, MainPlaces DEF MainIdle, history, node, count, Linking, Filling, Access
<1>1. CASE \E x \in Streams : Receive(x)
  BY <1>0, <1>1, MainQuiet DEF Receive, Types
<1>2. CASE LoopTest
  BY <1>0, <1>2, MainQuiet DEF LoopTest, Types
<1>3. CASE Visit
  <2>1. CASE client \notin live
    BY <1>3, <2>1, AccessLost, LostKeeps DEF Visit, Lost, removal
  <2>2. CASE client \in live
    <3>1. Byte(ind + 1) \in 0..255 /\ next[client] \in Pointers
      BY <1>0, <2>2, Bytes DEF Types
    <3>2. QED
      BY <1>0, <1>3, <2>2, <3>1, MainQuiet DEF Visit, Types
  <2>3. QED
    BY <2>1, <2>2
<1>4. CASE Forward
  <2>1. CASE client \notin live
    BY <1>4, <2>1, LostKeeps DEF Forward, Lost, removal
  <2>2. CASE client \in live
    BY <1>0, <1>4, <2>2, MainQuiet DEF Forward, Types
  <2>3. QED
    BY <2>1, <2>2
<1>5. CASE Decide
  BY <1>0, <1>5, MainQuiet DEF Decide, Types
<1>6. CASE Room
  BY <1>0, <1>6, MainQuiet DEF Room, Types
<1>7. CASE Start
  BY <1>0, <1>7, MainQuiet DEF Start, Types
<1>8. CASE TailTest
  <2>1. CASE client \notin live
    BY <1>8, <2>1, LostKeeps DEF TailTest, Lost, removal
  <2>2. CASE client \in live
    BY <1>0, <1>8, <2>2, MainQuiet DEF TailTest, Types
  <2>3. QED
    BY <2>1, <2>2
<1>9. CASE Advance
  <2>1. CASE client \notin live
    BY <1>9, <2>1, LostKeeps DEF Advance, Lost, removal
  <2>2. CASE client \in live
    BY <1>0, <1>9, <2>2, MainQuiet DEF Advance, Types
  <2>3. QED
    BY <2>1, <2>2
<1>10. CASE Fill
  <2>1. CASE ~(Path \subseteq live)
    BY <1>10, <2>1, LostKeeps DEF Fill, Lost, removal
  <2>2. CASE Path \subseteq live
    BY <1>0, <1>10, <2>2, MainQuiet DEF Fill, Types
  <2>3. QED
    BY <2>1, <2>2
<1>11. CASE Report
  <2>1. CASE ~(Path \subseteq live)
    BY <1>11, <2>1, LostKeeps DEF Report, Lost, removal
  <2>2. CASE Path \subseteq live
    BY <1>0, <1>11, <2>2, MainQuiet DEF Report, Types
  <2>3. QED
    BY <2>1, <2>2
<1>12. CASE LoadNum
  BY <1>0, <1>12, MainQuiet DEF LoadNum, Types
<1>13. QED
  BY <1>1, <1>2, <1>3, <1>4, <1>5, <1>6, <1>7, <1>8, <1>9, <1>10, <1>11, <1>12

(* client->timer = 0 of a client that may be being counted meanwhile.      *)
LEMMA RefreshKeeps ==
    ASSUME ReaperInv, Refresh
    PROVE  ReaperInv'
<1>0. /\ Types /\ miscounted \in BOOLEAN /\ (mpc = "dead" <=> tpc = "dead")
      /\ Allocation /\ Creation /\ Chain /\ Round /\ Ages /\ Counting /\ Killing
  BY DEF ReaperInv
<1>1. CASE client \notin live
  BY <1>1, LostKeeps DEF Refresh, Access, Lost
<1>2. CASE client \in live
  <2>1. /\ timer' = [timer EXCEPT ![client] = 0] /\ age' = [age EXCEPT ![client] = 0]
        /\ late' = IF Overlooked(client) THEN late \cup {client} ELSE late \ {client}
        /\ mpc' = "forward" /\ mpc = "refresh" /\ client \in Clients
        /\ UNCHANGED <<clients, next, stream, pid, live, created, num, miscounted, child,
                       packet, client, ind, mnum, timerVars, lost>>
    BY <1>0, <1>2 DEF Refresh, Access, count, Types
  <2> USE <2>1, Bounds DEF timerVars
  <2>2. Types'
    <3>1. timer' \in [Clients -> 0..IdleTicks] /\ age' \in [Clients -> 0..IdleTicks]
          /\ late' \subseteq Clients /\ mpc' \in MainAt
      BY <1>0 DEF Types, MainAt
    <3>2. QED
      BY <1>0, <3>1 DEF Types
  <2>3. Allocation' /\ Creation'
    BY <1>0 DEF Allocation, Creation, New, Linking, Filling
  <2>4. Chain' /\ Round'
    <3>1. Members' = Members /\ Head' = Head /\ Links' = Links
          /\ \A c \in Pointers : Pos(c)' = Pos(c)
      BY ListStays
    <3>2. QED
      BY <1>0, <3>1 DEF Chain, Dead, Round, Scan, Removal, Cut, Types
  <2>5. Ages'
    <3>1. \A c \in Clients : c # client => timer'[c] = timer[c] /\ age'[c] = age[c]
                                           /\ (c \in late' <=> c \in late)
      BY <1>0 DEF Types
    <3>2. timer'[client] = 0 /\ age'[client] = 0
      BY <1>0 DEF Types
    <3>3. tpc \in Removing \cup {"bump"} /\ tclient = client => client \in late'
      BY DEF Overlooked, Removing
    <3>4. tpc \in Removing \cup {"bump", "get"} => tclient \in Clients
      BY <1>0, LiveAreClients DEF Round, Scan, Removal, Cut, Removing
    <3>5. \A c \in Clients : timer'[c] <= age'[c] \/ c \in late'
      BY <1>0, <3>1, <3>2 DEF Ages
    <3>6. tpc' = "get" => timer'[tclient'] < IdleTicks
      BY <1>0, <3>1, <3>2, <3>4 DEF Ages, Types
    <3>7. tpc' = "bump" => tval' < IdleTicks /\ (tval' <= age'[tclient'] \/ tclient' \in late')
      BY <1>0, <3>1, <3>3, <3>4 DEF Ages
    <3>8. tpc' \in Removing => age'[tclient'] >= IdleTicks \/ tclient' \in late'
      BY <1>0, <3>1, <3>3, <3>4 DEF Ages
    <3>9. QED
      BY <3>5, <3>6, <3>7, <3>8 DEF Ages
  <2>6. Counting'
    <3>1. Uncounted' = Uncounted /\ Returning' = Returning /\ ~Dead /\ mpc' # "store"
      BY DEF Uncounted, Returning, Linking, Dead
    <3>2. QED
      BY <1>0, <3>1, Zenon DEF Counting
  <2>7. Killing'
    <3>1. (Intact' => Intact) /\ mpc' \notin Linking /\ mpc \notin Filling
      BY Zenon DEF Intact, Dead, Linking, Filling
    <3>2. QED
      BY <1>0, <3>1, Zenon DEF Killing
  <2>8. miscounted' \in BOOLEAN /\ (mpc' = "dead" <=> tpc' = "dead")
    BY <1>0
  <2>9. QED
    BY <2>2, <2>3, <2>4, <2>5, <2>6, <2>7, <2>8 DEF ReaperInv
<1>3. QED
  BY <1>1, <1>2

(* The name that malloc gives next. *)
LEMMA NewName ==
    ASSUME Types, Allocation, created < MaxCreated, NEW n, n = created + 1
    PROVE  /\ n \in Clients /\ n \in 0..MaxCreated /\ n \in Nat /\ n # Null
           /\ created \in Nat /\ created < n
           /\ n \notin live /\ n \notin lost /\ next[n] = Null
           /\ live \cup {n} \subseteq 1..n /\ lost \cup {n} \subseteq 1..n
           /\ \A c \in 1..created : c \in 1..n /\ c # n
<1>1. created \in Nat /\ MaxCreated \in Nat
  BY Bounds DEF Types
<1>2. n \in Clients /\ n \in 0..MaxCreated /\ n \in Nat /\ n # Null /\ created < n /\ n \in 1..n
  BY <1>1 DEF Clients, Null
<1>3. \A c \in 1..created : c \in 1..n /\ c # n
  BY <1>1
<1>4. n \notin live /\ n \notin lost /\ live \cup {n} \subseteq 1..n /\ lost \cup {n} \subseteq 1..n
  BY <1>2, <1>3 DEF Allocation
<1>5. next[n] = Null
  BY <1>1, <1>2, <1>4 DEF Allocation
<1>6. QED
  BY <1>1, <1>2, <1>3, <1>4, <1>5

(* The two places where main allocates a client: the head of an empty list *)
(* ...                                                                     *)
LEMMA ChooseKeeps ==
    ASSUME ReaperInv, Choose
    PROVE  ReaperInv'
<1>0. /\ Types /\ miscounted \in BOOLEAN /\ (mpc = "dead" <=> tpc = "dead")
      /\ Allocation /\ Creation /\ Chain /\ Round /\ Ages /\ Counting /\ Killing
  BY DEF ReaperInv
<1>1. CASE clients # Null
  BY <1>0, <1>1, MainQuiet, MainPlaces DEF Choose, Types, node, count, history, Linking, Filling
<1>2. CASE clients = Null
  <2> DEFINE n == created + 1
  <2>1. /\ created < MaxCreated /\ created' = n /\ live' = live \cup {n} /\ clients' = n
        /\ mpc' = "fill" /\ mpc = "choose"
        /\ UNCHANGED <<next, stream, timer, pid, num, miscounted, child, packet, client,
                       ind, mnum, timerVars, age, late, lost>>
    BY <1>2 DEF Choose, Allocate, count, history
  <2>2. n \in Clients /\ n \in 0..MaxCreated /\ n \in Nat /\ n \notin live /\ n # Null
        /\ created < n /\ created \in Nat
    BY <1>0, <2>1, NewName
  <2>3. client = Null /\ ~Dead /\ tpc # "head" /\ Members = {}
    BY <1>0, <1>2, <2>1 DEF Creation, Chain, IsChain, Head, Round, Scan, Removal, Cut, Dead
  <2>4. tpc \notin {"get", "bump", "advance", "pid", "pop", "popfree", "walk", "unlink",
                    "relink"}
        /\ (tpc \in {"count", "loop", "visit"} => tclient = Null)
        /\ (tpc = "free" => temp \in live /\ temp = tclient)
    BY <1>0, <2>3 DEF Round, Scan, Removal, Cut
  <2> USE <2>1, <2>2, Bounds DEF timerVars
  <2>5. Types'
    <3>1. clients' \in Pointers /\ live' \subseteq Clients /\ created' \in 0..MaxCreated
          /\ mpc' \in MainAt
      BY <1>0, LiveAreClients DEF MainAt, Linking, Types
    <3>2. QED
      BY <1>0, <3>1 DEF Types
  <2>6. Allocation'
    <3>1. live' \subseteq 1..created' /\ lost' \subseteq 1..created'
      BY <1>0, <2>1, NewName
    <3>2. \A c \in Clients : next[c] # Null => next[c] <= created'
      BY <1>0, LiveAreClients DEF Allocation
    <3>3. QED
      BY <1>0, <3>1, <3>2, LiveAreClients DEF Allocation
  <2>7. Creation'
    BY <2>3 DEF Creation, New, Linking, Filling
  <2>8. Members' = {n}
    <3>1. n \notin lost /\ (tpc = "free" => temp # n)
      BY <1>0, <2>4, LiveAreClients DEF Allocation
    <3>2. Members' = Members \cup {n}
      BY <3>1, <2>4 DEF Members
    <3>3. QED
      BY <2>3, <3>2
  <2>9. Chain'
    <3>1. next'[n] = Null /\ Head' = n
      BY <1>0, <2>3 DEF Allocation, Head
    <3>2. Links'[n] = Null
      BY <3>1, <2>4 DEF Links, Succ
    <3>3. IsChain({n}, n, Links')
      BY <3>2, ChainOfOne
    <3>4. QED
      BY <2>8, <3>1, <3>3 DEF Chain
  <2>10. Round'
    BY <1>0, <2>3, <2>4 DEF Round, Scan, Removal, Cut
  <2>11. Ages'
    BY <1>0 DEF Ages
  <2>12. Counting'
    <3>1. IsFiniteSet(live) /\ Cardinality(live) \in Nat
      BY <1>0, LiveIsFinite
    <3>2. Cardinality(live') = Cardinality(live) + 1
      BY <3>1, FS_AddElement
    <3>3. Uncounted' = 1 /\ Uncounted = 0 /\ Returning' = Returning /\ Returning \in 0..1
      BY DEF Uncounted, Returning, Linking
    <3>4. (Cardinality(live') + Returning') - Uncounted' = (Cardinality(live) + Returning) - Uncounted
      BY <3>1, <3>2, <3>3
    <3>5. num' = num /\ tval' = tval /\ tpc' = tpc /\ mpc' # "store" /\ (~miscounted' => ~miscounted)
      OBVIOUS
    <3>6. QED
      BY <1>0, <2>3, <3>4, <3>5, Zenon DEF Counting
  <2>13. Killing'
    <3>1. (Intact' => Intact) /\ mpc \notin Filling /\ mpc' \in Filling /\ mpc' \in Linking
      BY <2>3, Zenon DEF Intact, Filling, Linking
    <3>2. tpc \in {"visit", "pid"} => tclient # n
      BY <2>4
    <3>3. pidtokill \in 1..created => pidtokill \in 1..n /\ pidtokill # n
      BY LiveAreClients, <1>0
    <3>4. (Intact => child[n] = "none") /\ \A c \in Clients : c > n => c > created /\ c # n
      BY <1>0, LiveAreClients DEF Killing
    <3>5. QED
      BY <1>0, <3>1, <3>2, <3>3, <3>4 DEF Killing
  <2>14. miscounted' \in BOOLEAN /\ (mpc' = "dead" <=> tpc' = "dead")
    BY <1>0
  <2>15. QED
    BY <2>5, <2>6, <2>7, <2>9, <2>10, <2>11, <2>12, <2>13, <2>14 DEF ReaperInv
<1>3. QED
  BY <1>1, <1>2

(* ... and the tail, which timerThread may be about to cut off.            *)
LEMMA LinkKeeps ==
    ASSUME ReaperInv, Link
    PROVE  ReaperInv'
<1>0. /\ Types /\ miscounted \in BOOLEAN /\ (mpc = "dead" <=> tpc = "dead")
      /\ Allocation /\ Creation /\ Chain /\ Round /\ Ages /\ Counting /\ Killing
  BY DEF ReaperInv
<1>1. CASE client \notin live
  BY <1>1, LostKeeps DEF Link, Access, Lost
<1>2. CASE client \in live
  <2>0. PICK n : n = created + 1
    OBVIOUS
  <2>1. /\ created < MaxCreated /\ created' = n /\ live' = live \cup {n} /\ clients' = clients
        /\ mpc' = "fill" /\ mpc = "link" /\ next' = [next EXCEPT ![client] = n]
        /\ lost' = IF client \in Leaving THEN lost \cup {n} ELSE lost
        /\ UNCHANGED <<stream, timer, pid, num, miscounted, child, packet, client,
                       ind, mnum, timerVars, age, late>>
    BY <1>2, <2>0 DEF Link, Access, Allocate, count
  <2>2. n \in Clients /\ n \in 0..MaxCreated /\ n \in Nat /\ n \notin live /\ n # Null
        /\ created < n /\ created \in Nat
    BY <1>0, <2>0, <2>1, NewName
  <2>3. /\ client \in Clients /\ client # Null /\ client # n /\ next[client] = Null /\ ~Dead
        /\ client < n /\ client \in Nat /\ next[n] = Null
    BY <1>0, <1>2, <2>1, <2>2, LiveAreClients DEF Creation, Dead, Allocation
  <2> USE <2>1, <2>2, Bounds DEF timerVars
  <2>4. next'[client] = n /\ \A c \in Clients : c # client => next'[c] = next[c]
    BY <1>0, <2>3 DEF Types
  <2>5. Types'
    <3>1. next' \in [Clients -> Pointers] /\ live' \subseteq Clients /\ created' \in 0..MaxCreated
          /\ mpc' \in MainAt /\ lost' \subseteq Clients
      BY <1>0, LiveAreClients DEF MainAt, Linking, Types
    <3>2. QED
      BY <1>0, <3>1 DEF Types
  <2>6. Allocation'
    <3>1. live' \subseteq 1..created' /\ lost' \subseteq 1..created'
      BY <1>0, <2>0, <2>1, NewName
    <3>2. \A c \in Clients : next'[c] # Null => next'[c] > c /\ next'[c] <= created'
      BY <1>0, <2>3, <2>4, LiveAreClients DEF Allocation
    <3>3. \A c \in Clients : c \notin live' => next'[c] = Null
      BY <1>0, <1>2, <2>4 DEF Allocation
    <3>4. QED
      BY <3>1, <3>2, <3>3 DEF Allocation
  <2>7. Creation'
    BY <2>3, <2>4 DEF Creation, New, Linking, Filling
  <2>9. /\ n \notin lost
        /\ tpc \in {"popfree", "relink", "free"} => temp \in live /\ temp # n
    BY <1>0, LiveAreClients DEF Allocation, Round, Scan, Removal, Cut
  <2>10. ASSUME client \in Leaving PROVE Chain' /\ Round'
    <3>1. Members' = Members
      BY <2>9, <2>10 DEF Members
    <3>2. Head' = Head
      BY DEF Head
    <3>3. \A c \in Members : Links'[c] = Links[c] /\ c \in Clients
      <4>1. client \in Members => client = temp /\ tpc \in {"popfree", "relink"}
        BY <2>10 DEF Leaving, Members
      <4>2. \A c \in Members : c \in Clients
        BY <1>0, LiveAreClients
      <4>3. \A c \in Members : Succ(c)' = Succ(c)
        BY <2>4, <4>1, <4>2 DEF Succ
      <4>4. QED
        BY <4>2, <4>3 DEF Links
    <3>4. Chain'
      BY <1>0, <2>3, <3>1, <3>2, <3>3, SameChain DEF Chain, Dead
    <3>5. Round'
      <4>1. \A c : Pos(c)' = Pos(c)
        BY <3>1 DEF Pos
      <4>2. tpc \in {"unlink", "relink"} => next'[current] = next[current]
        <5>1. tpc \in {"unlink", "relink"} => current \in Clients /\ next[current] # Null
          BY <1>0, LiveAreClients DEF Round, Scan, Removal, Cut
        <5>2. QED
          BY <2>3, <2>4, <5>1
      <4>3. tpc \in {"popfree", "head", "relink"} => after = Null \/ (after > temp /\ after <= n)
        <5>1. after \in Nat
          BY <1>0, Bounds DEF Types, Pointers, Null
        <5>2. QED
          BY <1>0, <5>1 DEF Round, Scan, Removal, Cut
      <4>4. tpc = "head" => temp \notin live' /\ temp <= n
        <5>1. tpc = "head" => temp # n /\ temp <= n
          BY <1>0, Bounds DEF Round, Scan, Removal, Cut, Types, Pointers, Null
        <5>2. QED
          BY <1>0, <5>1 DEF Round, Scan, Removal, Cut
      <4>5. \A c \in Members : c \in Members' /\ c \in Clients
        BY <1>0, <3>1, LiveAreClients
      <4>6. Scan'
        BY <1>0, <4>1, <4>5 DEF Round, Scan, Removal
      <4>7. Removal'
        BY <1>0, <4>2, <4>5 DEF Round, Removal
      <4>8. Cut'
        BY <1>0, <4>3, <4>4 DEF Round, Cut
      <4>9. QED
        BY <4>6, <4>7, <4>8 DEF Round
    <3>6. QED
      BY <3>4, <3>5
  <2>11. ASSUME client \notin Leaving PROVE Chain' /\ Round'
    <3>1. client \in Members /\ Members' = Members \cup {n}
      BY <1>2, <2>9, <2>11 DEF Members, Leaving
    <3>2. Head' = Head
      BY DEF Head
    <3>3. Links'[client] = n /\ Links[client] = Null /\ Links'[n] = Null
          /\ \A c \in Members \ {client} : Links'[c] = Links[c]
      <4>1. ~(tpc \in {"popfree", "relink"} /\ (client = temp \/ n = temp))
        BY <2>9, <2>11 DEF Leaving
      <4>2. Succ(client)' = n /\ Succ(client) = Null /\ Succ(n)' = Null
        BY <2>3, <2>4, <4>1 DEF Succ
      <4>3. \A c \in Members : c \in Clients
        BY <1>0, LiveAreClients
      <4>4. \A c \in Members \ {client} : Succ(c)' = Succ(c)
        BY <2>4, <4>3 DEF Succ
      <4>5. QED
        BY <2>3, <4>2, <4>3, <4>4 DEF Links
    <3>4. IsChain(Members \cup {n}, Head, Links')
      <4>1. Members \in SUBSET (Nat \ {Null}) /\ \A c \in Members : c < n
        BY <1>0, LiveAreClients
      <4>2. IsChain(Members, Head, Links)
        BY <1>0, <2>3 DEF Chain
      <4>3. QED
        BY <3>1, <3>3, <4>1, <4>2, ChainWithTail
    <3>5. Chain'
      BY <3>1, <3>2, <3>4 DEF Chain
    <3>6. Round'
      <4>1. \A c \in Members : Pos(c)' = Pos(c)
        <5>1. ASSUME NEW c \in Members PROVE Pos(c)' = Pos(c)
          <6>1. ~(n < c)
            BY <1>0, LiveAreClients
          <6>2. {d \in Members' : d < c} = {d \in Members : d < c}
            BY <3>1, <6>1
          <6>3. QED
            BY <6>2 DEF Pos
        <5>2. QED
          BY <5>1
      <4>2. tpc \in {"unlink", "relink"} => next'[current] = next[current]
        <5>1. tpc \in {"unlink", "relink"} => current \in Clients /\ next[current] # Null
          BY <1>0, LiveAreClients DEF Round, Scan, Removal, Cut
        <5>2. QED
          BY <2>3, <2>4, <5>1
      <4>3. tpc \in {"popfree", "head", "relink"} => after = Null \/ (after > temp /\ after <= n)
        <5>1. after \in Nat
          BY <1>0, Bounds DEF Types, Pointers, Null
        <5>2. QED
          BY <1>0, <5>1 DEF Round, Scan, Removal, Cut
      <4>4. tpc = "head" => temp \notin live' /\ temp <= n
        <5>1. tpc = "head" => temp # n /\ temp <= n
          BY <1>0, Bounds DEF Round, Scan, Removal, Cut, Types, Pointers, Null
        <5>2. QED
          BY <1>0, <5>1 DEF Round, Scan, Removal, Cut
      <4>5. \A c \in Members : c \in Members' /\ c \in Clients
        BY <1>0, <3>1, LiveAreClients
      <4>6. Scan'
        BY <1>0, <4>1, <4>5 DEF Round, Scan, Removal
      <4>7. Removal'
        BY <1>0, <4>2, <4>5 DEF Round, Removal
      <4>8. Cut'
        BY <1>0, <4>3, <4>4 DEF Round, Cut
      <4>9. QED
        BY <4>6, <4>7, <4>8 DEF Round
    <3>7. QED
      BY <3>5, <3>6
  <2>12. Ages'
    BY <1>0 DEF Ages
  <2>13. Counting'
    <3>1. IsFiniteSet(live) /\ Cardinality(live) \in Nat
      BY <1>0, LiveIsFinite
    <3>2. Cardinality(live') = Cardinality(live) + 1
      BY <3>1, FS_AddElement
    <3>3. Uncounted' = 1 /\ Uncounted = 0 /\ Returning' = Returning /\ Returning \in 0..1
      BY DEF Uncounted, Returning, Linking
    <3>4. (Cardinality(live') + Returning') - Uncounted' = (Cardinality(live) + Returning) - Uncounted
      BY <3>1, <3>2, <3>3
    <3>5. num' = num /\ tval' = tval /\ tpc' = tpc /\ mpc' # "store" /\ (~miscounted' => ~miscounted)
      OBVIOUS
    <3>6. QED
      BY <1>0, <2>3, <3>4, <3>5, Zenon DEF Counting
  <2>14. Killing'
    <3>1. (Intact' => Intact) /\ mpc \notin Filling /\ mpc' \in Filling /\ mpc' \in Linking
      <4>1. lost' = {} => lost = {}
        BY <1>0
      <4>2. QED
        BY <2>3, <4>1, Zenon DEF Intact, Filling, Linking
    <3>2. tpc \in {"visit", "pid"} => tclient # n
      BY <1>0, LiveAreClients DEF Round, Scan, Removal, Cut
    <3>3. pidtokill \in 1..created => pidtokill \in 1..n /\ pidtokill # n
      BY LiveAreClients, <1>0
    <3>4. (Intact => child[n] = "none") /\ \A c \in Clients : c > n => c > created /\ c # n
      BY <1>0, LiveAreClients DEF Killing
    <3>5. QED
      BY <1>0, <3>1, <3>2, <3>3, <3>4 DEF Killing
  <2>15. miscounted' \in BOOLEAN /\ (mpc' = "dead" <=> tpc' = "dead")
    BY <1>0
  <2>16. QED
    BY <2>5, <2>6, <2>7, <2>10, <2>11, <2>12, <2>13, <2>14, <2>15 DEF ReaperInv
<1>3. QED
  BY <1>1, <1>2

(* What main reaches through its pointer while it creates a client is that *)
(* client, or nothing at all.                                              *)
LEMMA NewIsCreated ==
    ASSUME Types, Allocation, Creation, mpc \in Filling \cup {"report"}, Path \subseteq live
    PROVE  New = created /\ created \in live /\ created \in Clients
<1>1. New \in live
  BY DEF Path
<1>2. New = created
  BY <1>1, LiveAreClients DEF Creation
<1>3. QED
  BY <1>1, <1>2, LiveAreClients

LEMMA PopenKeeps ==
    ASSUME ReaperInv, Popen \/ StorePid
    PROVE  ReaperInv'
<1>0. /\ Types /\ miscounted \in BOOLEAN /\ (mpc = "dead" <=> tpc = "dead")
      /\ Allocation /\ Creation /\ Chain /\ Round /\ Ages /\ Counting /\ Killing
  BY DEF ReaperInv
<1>1. CASE ~(Path \subseteq live)
  BY <1>1, LostKeeps DEF Popen, StorePid, Access, Lost
<1>2. CASE Path \subseteq live
  <2>1. /\ mpc \in {"popen", "pid"} /\ mpc' = IF mpc = "popen" THEN "pid" ELSE "report"
        /\ child' = IF mpc = "popen" THEN [child EXCEPT ![created] = "running"] ELSE child
        /\ pid' = IF mpc = "pid" THEN [pid EXCEPT ![New] = created] ELSE pid
        /\ UNCHANGED <<clients, next, stream, timer, live, created, num, miscounted, packet,
                       client, ind, mnum, timerVars, age, late, lost>>
    BY <1>2 DEF Popen, StorePid, Access, node, count, history
  <2>2. New = created /\ created \in live /\ created \in Clients
    BY <1>0, <1>2, <2>1, NewIsCreated DEF Filling
  <2> USE <2>1, <2>2, Bounds DEF timerVars
  <2>3. Types'
    <3>1. pid' \in [Clients -> Pointers] /\ mpc' \in MainAt
          /\ child' \in [Clients -> {"none", "running", "signalled", "waited"}]
      BY <1>0 DEF Types, MainAt, Linking, Pointers
    <3>2. QED
      BY <1>0, <3>1 DEF Types
  <2>4. Allocation'
    BY <1>0, LiveAreClients DEF Allocation, Types
  <2>5. Creation'
    BY <1>0 DEF Creation, New, Linking, Filling
  <2>6. Chain' /\ Round'
    <3>1. Members' = Members /\ Head' = Head /\ Links' = Links
          /\ \A c \in Pointers : Pos(c)' = Pos(c)
      BY ListStays
    <3>2. QED
      BY <1>0, <3>1 DEF Chain, Dead, Round, Scan, Removal, Cut, Types
  <2>7. Ages'
    BY <1>0 DEF Ages
  <2>8. Counting'
    <3>1. Uncounted' = Uncounted /\ Returning' = Returning /\ ~Dead /\ mpc' # "store"
      BY DEF Uncounted, Returning, Linking, Dead
    <3>2. num' = num /\ live' = live /\ tval' = tval /\ tpc' = tpc /\ (~miscounted' => ~miscounted)
      OBVIOUS
    <3>3. QED
      BY <1>0, <3>1, <3>2, Zenon DEF Counting
  <2>9. Killing'
    <3>1. (Intact' => Intact) /\ mpc \in Filling /\ mpc \in Linking /\ mpc' \in Linking
      BY Zenon DEF Intact, Dead, Linking, Filling
    <3>2. \A c \in Clients : child'[c] = child[c] \/ (c \in live /\ child'[c] = "running")
      BY <1>0 DEF Types
    <3>3. ASSUME NEW c \in live, pid[c] = c \/ (mpc \in Filling /\ c = created)
          PROVE  pid'[c] = c \/ (mpc' \in Filling /\ c = created)
      <4>1. CASE mpc = "popen"
        BY <3>3, <4>1 DEF Filling
      <4>2. CASE mpc = "pid"
        <5>1. pid \in [Clients -> Pointers] /\ c \in Clients
          BY <1>0, LiveAreClients DEF Types
        <5>2. QED
          BY <3>3, <4>2, <5>1
      <4>3. QED
        BY <4>1, <4>2
    <3>4. QED
      BY <1>0, <3>1, <3>2, <3>3, LiveAreClients DEF Killing
  <2>10. miscounted' \in BOOLEAN /\ (mpc' = "dead" <=> tpc' = "dead")
    BY <1>0
  <2>11. QED
    BY <2>3, <2>4, <2>5, <2>6, <2>7, <2>8, <2>9, <2>10 DEF ReaperInv
<1>3. QED
  BY <1>1, <1>2

LEMMA StoreNumKeeps ==
    ASSUME ReaperInv, StoreNum
    PROVE  ReaperInv'
<1>0. /\ Types /\ miscounted \in BOOLEAN /\ (mpc = "dead" <=> tpc = "dead")
      /\ Allocation /\ Creation /\ Chain /\ Round /\ Ages /\ Counting /\ Killing
  BY DEF ReaperInv
<1>1. /\ mpc = "store" /\ num' = Byte(mnum + 1) /\ mpc' = "poll" /\ packet' = AnyStream
      /\ client' = Null /\ ind' = 0 /\ mnum' = 0
      /\ UNCHANGED <<clients, next, stream, timer, pid, live, created, child, timerVars,
                     age, late, lost>>
  BY DEF StoreNum, MainIdle, node, history
<1>2. miscounted' = (miscounted \/ tpc = "store")
  BY DEF StoreNum
<1> USE <1>1, Bounds DEF timerVars
<1>3. Types'
  <2>1. num' \in 0..255 /\ mpc' \in MainAt
    BY <1>0, Bytes DEF Types, MainAt
  <2>2. QED
    BY <1>0, <2>1 DEF Types
<1>4. Allocation' /\ Creation'
  BY <1>0 DEF Allocation, Creation, New, Linking, Filling
<1>5. Chain' /\ Round'
  <2>1. Members' = Members /\ Head' = Head /\ Links' = Links
        /\ \A c \in Pointers : Pos(c)' = Pos(c)
    BY ListStays
  <2>2. QED
    BY <1>0, <2>1 DEF Chain, Dead, Round, Scan, Removal, Cut, Types
<1>6. Ages'
  BY <1>0 DEF Ages
<1>7. (~miscounted' => ~miscounted /\ tpc # "store")
  BY <1>2, Zenon
<1>8. Counting'
  <2>1. Uncounted' = 0 /\ Uncounted = 1 /\ Returning' = Returning /\ Returning \in 0..1 /\ ~Dead
    BY DEF Uncounted, Returning, Linking, Dead
  <2>2. Cardinality(live) \in Nat
    BY <1>0, LiveIsFinite
  <2>3. ASSUME mnum = num, num = Byte((Cardinality(live) + Returning) - Uncounted)
        PROVE  num' = Byte((Cardinality(live') + Returning') - Uncounted')
    <3>1. ((Cardinality(live) + Returning) - Uncounted) + 1 = (Cardinality(live) + Returning) - 0
          /\ (Cardinality(live) + Returning) - Uncounted \in Int
      BY <2>1, <2>2
    <3>2. num' = Byte(((Cardinality(live) + Returning) - Uncounted) + 1)
      BY <2>3, <3>1, ByteSteps
    <3>3. QED
      BY <2>1, <3>1, <3>2
  <2>4. mpc' # "store" /\ tpc' = tpc /\ mpc = "store"
    OBVIOUS
  <2>5. QED
    BY <1>0, <1>7, <2>1, <2>3, <2>4, Zenon DEF Counting
<1>9. Killing'
  <2>1. ~Dead /\ mpc' \notin Linking /\ mpc \notin Filling
    BY DEF Dead, Linking, Filling
  <2>2. Intact' => Intact
    BY <1>7, <2>1, Zenon DEF Intact
  <2>3. QED
    BY <1>0, <2>1, <2>2, Zenon DEF Killing
<1>10. miscounted' \in BOOLEAN
  BY <1>0, <1>2, Zenon
<1>11. mpc' = "dead" <=> tpc' = "dead"
  BY <1>0
<1>12. QED
  BY <1>3, <1>4, <1>5, <1>6, <1>8, <1>9, <1>10, <1>11 DEF ReaperInv

-----------------------------------------------------------------------------
(* timerThread: what it does between two changes of what main sees.        *)
Pids ==
    Intact =>
      /\ tpc \in {"visit", "pid"} /\ mpc \in Linking => tclient # created
      /\ tpc \in Removing \ {"pid"} => pidtokill = tclient

LEMMA TimerQuiet ==
    ASSUME ReaperInv,
           UNCHANGED <<clients, next, stream, timer, pid, live, created, num, miscounted,
                       child, mainVars, age, late, lost>>,
           tpc # "dead", tpc' \in TimerAt \ {"dead"},
           tpc \notin Midst, tpc' \notin Midst,
           tclient' \in Pointers, index' \in Nat, tval' \in 0..255,
           pidtokill' \in Pointers, current' \in Pointers, temp' \in Pointers,
           after' \in Pointers,
           tpc \notin {"kill", "wait"}, tpc' \notin {"kill", "wait"},
           tpc' \in Freed <=> tpc \in Freed,
           Scan', Removal', Ages', Pids', tpc' = "store" => tval' = num
    PROVE  ReaperInv'
<1>0. /\ Types /\ miscounted \in BOOLEAN /\ (mpc = "dead" <=> tpc = "dead")
      /\ Allocation /\ Creation /\ Chain /\ Round /\ Ages /\ Counting /\ Killing
  BY DEF ReaperInv
<1> USE DEF mainVars
<1>1. Types'
  BY <1>0 DEF Types
<1>2. Allocation' /\ Creation'
  BY <1>0 DEF Allocation, Creation, New
<1>3. Chain'
  <2>1. Members' = Members /\ Head' = Head /\ Links' = Links
    BY ListStays
  <2>2. QED
    BY <1>0, <2>1 DEF Chain, Dead
<1>4. Round'
  BY DEF Round, Cut, Midst
<1>5. Counting'
  <2>1. Uncounted' = Uncounted /\ Returning' = Returning
    BY DEF Uncounted, Returning
  <2>2. num' = num /\ live' = live /\ mnum' = mnum /\ mpc' = mpc /\ (~miscounted' => ~miscounted)
        /\ ~Dead
    BY <1>0 DEF Dead
  <2>3. QED
    BY <1>0, <2>1, <2>2, Zenon DEF Counting
<1>6. Killing'
  <2>1. Intact' => Intact
    BY Zenon DEF Intact, Dead
  <2>2. tpc \notin {"head", "kill"} /\ tpc' \notin {"head", "kill", "wait"}
    BY DEF Midst
  <2>3. QED
    BY <1>0, <2>1, <2>2, Zenon DEF Killing, Pids
<1>7. miscounted' \in BOOLEAN /\ (mpc' = "dead" <=> tpc' = "dead")
  BY <1>0
<1>8. QED
  BY <1>1, <1>2, <1>3, <1>4, <1>5, <1>6, <1>7 DEF ReaperInv

LEMMA TimerIdleKeeps ==
    ASSUME ReaperInv, TimerIdle, tpc \in {"count", "loop"},
           UNCHANGED <<clients, node, count, child, mainVars, history>>
    PROVE  ReaperInv'
<1>1. Scan' /\ Removal' /\ Ages' /\ Pids'
  BY DEF TimerIdle, Scan, Removal, Ages, Pids, Removing, ReaperInv, history, node
<1>2. QED
  BY <1>1, Bounds, TimerQuiet
     DEF TimerIdle, TimerAt, Midst, Freed, node, count, history, mainVars

(* The start of a pass. *)
LEMMA TickKeeps ==
    ASSUME ReaperInv, Tick
    PROVE  ReaperInv'
<1>0. Types /\ Allocation /\ Chain /\ Ages /\ (mpc = "dead" <=> tpc = "dead")
  BY DEF ReaperInv
<1>1. /\ tpc = "sleep" /\ tpc' = "count" /\ tclient' = clients /\ index' = 0
      /\ UNCHANGED <<clients, next, stream, timer, pid, live, created, num, miscounted, child,
                     mainVars, age, late, lost, tval, pidtokill, current, temp, after>>
  BY DEF Tick, node, count, history, removal
<1> USE <1>1
<1>2. Members' = Members /\ Head' = Head /\ Head = clients
      /\ \A c \in Pointers : Pos(c)' = Pos(c)
  BY ListStays DEF Midst, Head
<1>3. IsChain(Members, clients, Links)
  BY <1>0, <1>2 DEF Chain, Dead
<1>4. clients = Null \/ (clients \in Members /\ Pos(clients) = 0)
  BY <1>0, <1>2, <1>3, FirstPlace DEF IsChain
<1>5. clients \in Pointers /\ tclient' \in Pointers /\ index' \in Nat
  BY <1>0 DEF Types
<1>6. Scan'
  <2>1. Pos(tclient)' = Pos(clients)
    BY <1>2, <1>5 DEF Pos
  <2>2. QED
    BY <1>2, <1>4, <1>5, <2>1 DEF Scan
<1>7. Removal' /\ Ages' /\ Pids'
  BY <1>0 DEF Removal, Ages, Pids, Removing
<1>8. QED
  BY <1>0, <1>5, <1>6, <1>7, TimerQuiet DEF Types, TimerAt, Midst, Freed

LEMMA TimerCountKeeps ==
    ASSUME ReaperInv, TimerCount
    PROVE  ReaperInv'
<1>0. Types /\ Allocation /\ Chain /\ Ages /\ Round
  BY DEF ReaperInv
<1>1. CASE num = 0
  BY <1>1, TimerIdleKeeps DEF TimerCount
<1>2. CASE num # 0
  <2>1. /\ tpc = "count" /\ tpc' = "loop"
        /\ UNCHANGED <<clients, next, stream, timer, pid, live, created, num, miscounted,
                       child, mainVars, age, late, lost, tclient, index, tval, pidtokill,
                       current, temp, after>>
    BY <1>2 DEF TimerCount, node, count, history, removal
  <2> USE <2>1
  <2>2. Members' = Members /\ \A c \in Pointers : Pos(c)' = Pos(c)
    BY ListStays DEF Midst
  <2>3. tclient \in Pointers
    BY <1>0 DEF Types
  <2>4. Scan' /\ Removal' /\ Ages' /\ Pids'
    BY <1>0, <2>2, <2>3 DEF Scan, Removal, Round, Ages, Pids, Removing
  <2>5. QED
    BY <1>0, <2>4, TimerQuiet DEF Types, TimerAt, Midst, Freed
<1>3. QED
  BY <1>1, <1>2

(* While all is intact, timerThread does not come to a client that main    *)
(* has not counted: it is the last, and the index is below the count.      *)
LEMMA UncountedIsLast ==
    ASSUME ReaperInv, tpc = "loop", index < num, mpc \in Linking, Intact
    PROVE  tclient # created
<1>0. Types /\ Allocation /\ Creation /\ Chain /\ Round
  BY DEF ReaperInv
<1>1. num = Byte((Cardinality(live) + Returning) - Uncounted)
  BY Zenon DEF ReaperInv, Counting, Intact
<1>2. Returning = 0 /\ Uncounted = 1 /\ Members = live /\ created # Null
  BY <1>0 DEF Returning, Uncounted, Freed, Members, Creation, Intact, Null
<1>3. ASSUME tclient = created PROVE FALSE
  <2>1. tclient \in Members /\ Pos(tclient) = index
    BY <1>0, <1>2, <1>3 DEF Round, Scan
  <2>2. index = Cardinality(live) - 1 /\ Cardinality(live) >= 1 /\ Cardinality(live) \in Nat
    BY <1>0, <1>2, <1>3, <2>1, LastPlace, LiveIsFinite
  <2>3. (Cardinality(live) + 0) - 1 \in Nat /\ (Cardinality(live) + 0) - 1 = index
    BY <2>2
  <2>4. num <= index
    BY <1>1, <1>2, <2>3, Bytes
  <2>5. QED
    BY <2>4, <1>0 DEF Types
<1>4. QED
  BY <1>3

LEMMA TimerTestKeeps ==
    ASSUME ReaperInv, TimerTest
    PROVE  ReaperInv'
<1>0. Types /\ Allocation /\ Chain /\ Ages /\ Round
  BY DEF ReaperInv
<1>1. CASE ~(index < num)
  BY <1>1, TimerIdleKeeps DEF TimerTest
<1>2. CASE index < num
  <2>1. /\ tpc = "loop" /\ tpc' = "visit"
        /\ UNCHANGED <<clients, next, stream, timer, pid, live, created, num, miscounted,
                       child, mainVars, age, late, lost, tclient, index, tval, pidtokill,
                       current, temp, after>>
    BY <1>2 DEF TimerTest, node, count, history, removal
  <2> USE <2>1
  <2>2. Members' = Members /\ \A c \in Pointers : Pos(c)' = Pos(c)
    BY ListStays DEF Midst
  <2>3. tclient \in Pointers
    BY <1>0 DEF Types
  <2>4. Scan' /\ Removal' /\ Ages'
    BY <1>0, <2>2, <2>3 DEF Scan, Removal, Round, Ages, Removing
  <2>5. Pids'
    <3>1. Intact' => Intact
      BY Zenon DEF Intact, Dead, mainVars
    <3>2. Intact' /\ mpc' \in Linking => tclient' # created'
      BY <1>2, <3>1, UncountedIsLast DEF mainVars
    <3>3. tpc' \notin Removing
      BY DEF Removing
    <3>4. QED
      BY <3>2, <3>3, Zenon DEF Pids
  <2>6. QED
    BY <1>0, <2>4, <2>5, TimerQuiet DEF Types, TimerAt, Midst, Freed
<1>3. QED
  BY <1>1, <1>2

LEMMA TimerVisitKeeps ==
    ASSUME ReaperInv, TimerVisit
    PROVE  ReaperInv'
<1>0. Types /\ Allocation /\ Chain /\ Ages /\ Round /\ Killing
  BY DEF ReaperInv
<1> DEFINE x == IF tclient \in Raw THEN Null ELSE tclient
<1>1. CASE ~({x} \subseteq live)
  BY <1>1, LostKeeps DEF TimerVisit, Access, Lost, mainVars
<1>2. CASE {x} \subseteq live
  <2>1. tclient \in live /\ tclient # Null
    BY <1>0, <1>2, LiveAreClients
  <2>2. /\ tpc = "visit" /\ tpc' = IF Idle(tclient) THEN "pid" ELSE "get"
        /\ UNCHANGED <<clients, next, stream, timer, pid, live, created, num, miscounted,
                       child, mainVars, age, late, lost, tclient, index, tval, pidtokill,
                       current, temp, after>>
    BY <1>2 DEF TimerVisit, Access, node, count, history, removal
  <2> USE <2>2
  <2>3. Members' = Members /\ \A c \in Pointers : Pos(c)' = Pos(c)
    BY ListStays DEF Midst
  <2>4. tclient \in Pointers /\ tclient \in Clients /\ timer[tclient] \in 0..IdleTicks
        /\ age[tclient] \in 0..IdleTicks
    BY <1>0, <2>1, LiveAreClients DEF Types
  <2>5. Scan' /\ Removal'
    BY <1>0, <2>1, <2>3, <2>4 DEF Scan, Removal, Round
  <2>6. Ages'
    BY <1>0, <2>4, Bounds DEF Ages, Idle, Removing
  <2>7. Pids'
    <3>1. Intact' => Intact
      BY Zenon DEF Intact, Dead, mainVars
    <3>2. Intact => (mpc \in Linking => tclient # created)
      BY <1>0, <3>1 DEF Killing
    <3>3. tpc' \notin Removing \ {"pid"}
      BY DEF Removing
    <3>4. mpc' = mpc
      BY DEF mainVars
    <3>5. QED
      BY <3>1, <3>2, <3>3, <3>4, Zenon DEF Pids
  <2>8. QED
    BY <1>0, <2>5, <2>6, <2>7, TimerQuiet DEF Types, TimerAt, Midst, Freed
<1>3. QED
  BY <1>1, <1>2

LEMMA TimerGetKeeps ==
    ASSUME ReaperInv, TimerGet
    PROVE  ReaperInv'
<1>0. Types /\ Allocation /\ Chain /\ Ages /\ Round
  BY DEF ReaperInv
<1>1. /\ tpc = "get" /\ tpc' = "bump" /\ tval' = timer[tclient]
      /\ UNCHANGED <<clients, next, stream, timer, pid, live, created, num, miscounted,
                     child, mainVars, age, late, lost, tclient, index, pidtokill,
                     current, temp, after>>
  BY DEF TimerGet, node, count, history, removal
<1> USE <1>1
<1>2. Members' = Members /\ \A c \in Pointers : Pos(c)' = Pos(c)
  BY ListStays DEF Midst
<1>3. tclient \in Members /\ tclient \in Pointers /\ tclient \in Clients
  BY <1>0, LiveAreClients DEF Round, Scan, Types
<1>4. tval' \in 0..255 /\ timer[tclient] < IdleTicks
  BY <1>0, <1>3, Bounds DEF Types, Ages
<1>5. Scan' /\ Removal'
  BY <1>0, <1>2, <1>3 DEF Scan, Removal, Round
<1>6. Ages' /\ Pids'
  BY <1>0, <1>3, <1>4 DEF Ages, Pids, Removing
<1>7. QED
  BY <1>0, <1>4, <1>5, <1>6, TimerQuiet DEF Types, TimerAt, Midst, Freed

LEMMA TimerBumpKeeps ==
    ASSUME ReaperInv, TimerBump
    PROVE  ReaperInv'
<1>0. /\ Types /\ miscounted \in BOOLEAN /\ (mpc = "dead" <=> tpc = "dead")
      /\ Allocation /\ Creation /\ Chain /\ Round /\ Ages /\ Counting /\ Killing
  BY DEF ReaperInv
<1>1. /\ tpc = "bump" /\ tpc' = "advance" /\ tval' = 0
      /\ timer' = [timer EXCEPT ![tclient] = tval + 1]
      /\ age' = [age EXCEPT ![tclient] = IF age[tclient] < IdleTicks THEN age[tclient] + 1
                                         ELSE age[tclient]]
      /\ UNCHANGED <<clients, next, stream, pid, live, created, num, miscounted, child,
                     mpc, packet, client, ind, mnum, late, lost, tclient, index, pidtokill,
                     current, temp, after>>
  BY DEF TimerBump, count, mainVars, removal
<1> USE <1>1, Bounds
<1>2. tclient \in Members /\ tclient \in Clients
  BY <1>0, LiveAreClients DEF Round, Scan
<1>3. tval < IdleTicks /\ (tval <= age[tclient] \/ tclient \in late) /\ tval \in Nat
      /\ age[tclient] \in 0..IdleTicks
  BY <1>0, <1>2 DEF Ages, Types
<1>4. Types'
  <2>1. timer' \in [Clients -> 0..IdleTicks] /\ age' \in [Clients -> 0..IdleTicks]
    <3>1. tval + 1 \in 0..IdleTicks /\ (age[tclient] < IdleTicks => age[tclient] + 1 \in 0..IdleTicks)
      BY <1>3
    <3>2. timer' \in [Clients -> 0..IdleTicks]
      BY <1>0, <3>1 DEF Types
    <3>3. age' \in [Clients -> 0..IdleTicks]
      BY <1>0, <1>3, <3>1 DEF Types
    <3>4. QED
      BY <3>2, <3>3
  <2>2. tpc' \in TimerAt
    BY DEF TimerAt
  <2>3. QED
    BY <1>0, <2>1, <2>2 DEF Types
<1>5. Allocation' /\ Creation'
  BY <1>0 DEF Allocation, Creation, New
<1>6. Chain' /\ Round'
  <2>1. Members' = Members /\ Head' = Head /\ Links' = Links
        /\ \A c \in Pointers : Pos(c)' = Pos(c)
    BY ListStays DEF Midst
  <2>2. QED
    BY <1>0, <1>2, <2>1 DEF Chain, Dead, Round, Scan, Removal, Cut, Types
<1>7. Ages'
  <2>1. \A c \in Clients : c # tclient => timer'[c] = timer[c] /\ age'[c] = age[c]
    BY <1>0, <1>2 DEF Types
  <2>2. timer'[tclient] <= age'[tclient] \/ tclient \in late
    BY <1>0, <1>2, <1>3 DEF Types
  <2>3. QED
    BY <1>0, <2>1, <2>2 DEF Ages, Removing
<1>8. Counting'
  <2>1. Uncounted' = Uncounted /\ Returning' = Returning /\ tpc' # "store"
    BY DEF Uncounted, Returning, Freed
  <2>2. (~Dead' => ~Dead) /\ (~miscounted' => ~miscounted)
    BY DEF Dead
  <2>3. num' = num /\ live' = live /\ mnum' = mnum /\ mpc' = mpc
    OBVIOUS
  <2>4. QED
    BY <1>0, <2>1, <2>2, <2>3, Zenon DEF Counting
<1>9. Killing'
  <2>1. Intact' => Intact
    BY Zenon DEF Intact, Dead
  <2>2. tpc \notin {"head", "kill"} /\ tpc' \notin {"head", "kill", "wait", "visit", "pid"}
        /\ tpc' \notin Removing
    BY DEF Removing
  <2>3. QED
    BY <1>0, <2>1, <2>2, Zenon DEF Killing
<1>10. miscounted' \in BOOLEAN /\ (mpc' = "dead" <=> tpc' = "dead")
  BY <1>0
<1>11. QED
  BY <1>4, <1>5, <1>6, <1>7, <1>8, <1>9, <1>10 DEF ReaperInv

(* Outside a removal the links are those of the clients.                   *)
LEMMA PlainLinks ==
    ASSUME ReaperInv, tpc \notin Midst, tpc # "dead"
    PROVE  /\ IsChain(Members, clients, Links)
           /\ \A c \in Clients : Links[c] = next[c]
<1>1. Head = clients /\ \A c \in Clients : Links[c] = next[c]
  BY DEF Head, Links, Succ, Midst
<1>2. QED
  BY <1>1 DEF ReaperInv, Chain, Dead

LEMMA TimerAdvanceKeeps ==
    ASSUME ReaperInv, TimerAdvance
    PROVE  ReaperInv'
<1>0. Types /\ Allocation /\ Chain /\ Ages /\ Round
  BY DEF ReaperInv
<1>1. /\ tpc = "advance" /\ tpc' = "loop" /\ tclient' = next[tclient] /\ index' = index + 1
      /\ UNCHANGED <<clients, next, stream, timer, pid, live, created, num, miscounted,
                     child, mainVars, age, late, lost, tval, pidtokill, current, temp, after>>
  BY DEF TimerAdvance, node, count, history, removal
<1> USE <1>1
<1>2. Members' = Members /\ \A c \in Pointers : Pos(c)' = Pos(c)
  BY ListStays DEF Midst
<1>3. tclient \in Members /\ tclient \in Clients /\ Pos(tclient) = index
  BY <1>0, LiveAreClients DEF Round, Scan
<1>4. IsChain(Members, clients, Links) /\ Links[tclient] = next[tclient]
  BY <1>3, PlainLinks DEF Midst
<1>5. next[tclient] = Null \/ (next[tclient] \in Members /\ Pos(next[tclient]) = index + 1)
  <2>1. next[tclient] # Null => next[tclient] \in Members
    BY <1>3, <1>4 DEF IsChain
  <2>2. QED
    BY <1>0, <1>3, <1>4, <2>1, NextPlace
<1>6. tclient' \in Pointers /\ index' \in Nat
  BY <1>0, <1>3 DEF Types
<1>7. Scan'
  <2>1. Pos(tclient)' = Pos(next[tclient])
    BY <1>2, <1>6 DEF Pos
  <2>2. QED
    BY <1>2, <1>5, <2>1 DEF Scan
<1>8. Removal' /\ Ages' /\ Pids'
  BY <1>0 DEF Removal, Ages, Pids, Removing
<1>9. QED
  BY <1>0, <1>6, <1>7, <1>8, TimerQuiet DEF Types, TimerAt, Midst, Freed

(* The pid is that of the client found idle, and the walk starts at the    *)
(* head.                                                                   *)
LEMMA TimerPidKeeps ==
    ASSUME ReaperInv, TimerPid
    PROVE  ReaperInv'
<1>0. Types /\ Allocation /\ Chain /\ Ages /\ Round /\ Killing
  BY DEF ReaperInv
<1>1. /\ tpc = "pid" /\ pidtokill' = PidOfIdle
      /\ IF index = 0 THEN tpc' = "pop" /\ current' = current
                      ELSE tpc' = "walk" /\ current' = clients
      /\ UNCHANGED <<clients, next, stream, timer, pid, live, created, num, miscounted,
                     child, mainVars, age, late, lost, tclient, index, tval, temp, after>>
  BY DEF TimerPid, node, count, history
<1> USE <1>1
<1>2. Members' = Members /\ \A c \in Pointers : Pos(c)' = Pos(c)
  BY ListStays DEF Midst
<1>3. tclient \in Members /\ tclient \in Clients /\ tclient \in live /\ Pos(tclient) = index
  BY <1>0, LiveAreClients DEF Round, Scan
<1>4. IsChain(Members, clients, Links) /\ Head = clients
  BY PlainLinks DEF Midst, Head
<1>5. clients \in Members /\ Pos(clients) = 0 /\ (index = 0 => clients = tclient)
  BY <1>0, <1>3, <1>4, FirstPlace DEF IsChain
<1>6. pidtokill' = pid[tclient] /\ pidtokill' \in Pointers /\ current' \in Pointers
      /\ index \in Nat
  BY <1>0, <1>3, <1>5 DEF PidOfIdle, Types
<1>7. Scan'
  <2>1. Pos(tclient)' = Pos(tclient) /\ (index # 0 => Pos(current)' = Pos(clients))
    BY <1>0, <1>2 DEF Pos, Types
  <2>2. QED
    BY <1>3, <1>5, <1>6, <2>1 DEF Scan
<1>8. Removal' /\ Ages'
  BY <1>0, <1>2, <1>3, <1>5 DEF Removal, Ages, Removing
<1>9. Pids'
  <2>1. Intact' => Intact
    BY Zenon DEF Intact, Dead, mainVars
  <2>2. Intact => pid[tclient] = tclient
    BY <1>0, <1>3, MainPlaces DEF Killing
  <2>3. QED
    BY <1>6, <2>1, <2>2 DEF Pids
<1>10. QED
  BY <1>0, <1>6, <1>7, <1>8, <1>9, TimerQuiet DEF Types, TimerAt, Midst, Freed

(* remove_by_index comes to the client found idle, wherever it is.         *)
LEMMA WalkKeeps ==
    ASSUME ReaperInv, Walk
    PROVE  ReaperInv'
<1>0. Types /\ Allocation /\ Chain /\ Ages /\ Round /\ Killing
  BY DEF ReaperInv
<1>1. tpc = "walk"
  BY DEF Walk
<1>2. /\ tclient \in Members /\ current \in Members /\ current \in Clients
      /\ index \in Nat /\ index >= 1 /\ Pos(current) + index = Pos(tclient)
      /\ Pos(current) \in Nat
  BY <1>0, <1>1, LiveAreClients, LiveIsFinite DEF Round, Removal, Scan, Types
<1>3. IsChain(Members, clients, Links) /\ Links[current] = next[current]
  BY <1>1, <1>2, PlainLinks DEF Midst
<1>4. /\ next[current] \in Members /\ next[current] # Null
      /\ Pos(next[current]) = Pos(current) + 1
      /\ index = 1 => next[current] = tclient
  BY <1>0, <1>2, <1>3, WalkNears
<1>5. /\ \/ tpc' = "walk" /\ index > 1 /\ current' = next[current] /\ index' = index - 1
            /\ temp' = temp
         \/ tpc' = "unlink" /\ index = 1 /\ temp' = next[current] /\ current' = current
            /\ index' = index
      /\ UNCHANGED <<clients, next, stream, timer, pid, live, created, num, miscounted,
                     child, mainVars, age, late, lost, tclient, tval, pidtokill, after>>
  BY <1>1, <1>2, <1>4 DEF Walk, node, count, history
<1>6. Members' = Members /\ \A c \in Pointers : Pos(c)' = Pos(c)
  BY <1>1, <1>5, ListStays DEF Midst
<1>7. tclient \in Pointers /\ next[current] \in Pointers /\ current' \in Pointers
      /\ temp' \in Pointers /\ index' \in Nat
  BY <1>0, <1>2, <1>5 DEF Types
<1>8. Scan'
  <2>1. Pos(tclient)' = Pos(tclient) /\ (tpc' = "walk" => Pos(current)' = Pos(next[current]))
    BY <1>5, <1>6, <1>7 DEF Pos
  <2>2. tpc' = "walk" => index' >= 1 /\ Pos(next[current]) + index' = Pos(tclient)
    BY <1>2, <1>4, <1>5
  <2>3. QED
    BY <1>5, <2>1, <2>2 DEF Scan
<1>9. Removal'
  BY <1>2, <1>4, <1>5, <1>6 DEF Removal
<1>10. Ages'
  BY <1>0, <1>1, <1>5 DEF Ages, Removing
<1>11. Pids'
  <2>1. Intact' => Intact
    BY <1>5, Zenon DEF Intact, Dead, mainVars
  <2>2. Intact => pidtokill = tclient
    BY <1>0, <1>1 DEF Killing, Removing
  <2>3. QED
    BY <1>5, <2>1, <2>2 DEF Pids
<1>12. QED
  BY <1>0, <1>1, <1>5, <1>7, <1>8, <1>9, <1>10, <1>11, TimerQuiet DEF Types, TimerAt, Midst, Freed

LEMMA TimerLoadNumKeeps ==
    ASSUME ReaperInv, TimerLoadNum
    PROVE  ReaperInv'
<1>0. Types /\ Allocation /\ Chain /\ Ages /\ Round /\ Killing
  BY DEF ReaperInv
<1>1. /\ tpc = "load" /\ tpc' = "store" /\ tval' = num
      /\ UNCHANGED <<clients, next, stream, timer, pid, live, created, num, miscounted,
                     child, mainVars, age, late, lost, tclient, index, pidtokill, current,
                     temp, after>>
  BY DEF TimerLoadNum, node, count, history, removal
<1>2. Scan' /\ Removal' /\ Ages' /\ Pids'
  BY <1>0, <1>1 DEF Scan, Removal, Ages, Pids, Removing
<1>3. QED
  BY <1>0, <1>1, <1>2, TimerQuiet DEF Types, TimerAt, Midst, Freed

-----------------------------------------------------------------------------
(* timerThread: the removal. *)

(* The successor of the client to be removed is read; the links that count *)
(* stay what they are.                                                     *)
LEMMA CutKeeps ==
    ASSUME ReaperInv, PopLoad \/ Unlink
    PROVE  ReaperInv'
<1>0. /\ Types /\ miscounted \in BOOLEAN /\ (mpc = "dead" <=> tpc = "dead")
      /\ Allocation /\ Creation /\ Chain /\ Round /\ Ages /\ Counting /\ Killing
  BY DEF ReaperInv
<1>1. /\ tpc \in {"pop", "unlink"} /\ tpc' = IF tpc = "pop" THEN "popfree" ELSE "relink"
      /\ temp' = IF tpc = "pop" THEN clients ELSE temp
      /\ after' = next[temp']
      /\ UNCHANGED <<clients, next, stream, timer, pid, live, created, num, miscounted, child,
                     mpc, packet, client, ind, mnum, age, late, lost, tclient, index, tval,
                     pidtokill, current>>
  BY DEF PopLoad, Unlink, node, count, history, mainVars
<1> USE <1>1
<1>2. temp' = tclient /\ tclient \in Members /\ tclient \in Clients
  BY <1>0, LiveAreClients DEF Round, Removal
<1>3. after' \in Pointers /\ (after' = Null \/ (after' > temp' /\ after' <= created))
  BY <1>0, <1>2 DEF Types, Allocation
<1>4. Types'
  <2>1. temp' \in Pointers /\ tpc' \in TimerAt
    BY <1>0 DEF Types, TimerAt
  <2>2. QED
    BY <1>0, <1>3, <2>1 DEF Types
<1>5. Allocation' /\ Creation'
  BY <1>0 DEF Allocation, Creation, New
<1>6. Members' = Members /\ Head' = Head
  BY DEF Members, Head
<1>7. Chain'
  <2>1. \A c \in Clients : Succ(c)' = Succ(c)
    BY <1>1 DEF Succ
  <2>2. Links' = Links
    BY <2>1 DEF Links
  <2>3. QED
    BY <1>0, <1>6, <2>2 DEF Chain, Dead
<1>8. Round'
  <2>1. Scan' /\ Cut'
    BY <1>0, <1>3 DEF Scan, Cut
  <2>2. Removal'
    BY <1>0, <1>2, <1>6 DEF Removal, Round
  <2>3. QED
    BY <2>1, <2>2 DEF Round
<1>9. Ages'
  BY <1>0 DEF Ages, Removing
<1>10. Counting'
  <2>1. Uncounted' = Uncounted /\ Returning' = Returning /\ tpc' # "store"
    BY DEF Uncounted, Returning, Freed
  <2>2. (~Dead' => ~Dead) /\ (~miscounted' => ~miscounted)
    BY DEF Dead
  <2>3. num' = num /\ live' = live /\ mnum' = mnum /\ mpc' = mpc
    OBVIOUS
  <2>4. QED
    BY <1>0, <2>1, <2>2, <2>3, Zenon DEF Counting
<1>11. Killing'
  <2>1. Intact' => Intact
    BY Zenon DEF Intact, Dead
  <2>2. tpc \notin {"head", "kill"} /\ tpc' \notin {"head", "kill", "wait", "visit", "pid"}
        /\ tpc \in Removing \ {"pid"}
    BY DEF Removing
  <2>3. QED
    BY <1>0, <2>1, <2>2, Zenon DEF Killing
<1>12. miscounted' \in BOOLEAN /\ (mpc' = "dead" <=> tpc' = "dead")
  BY <1>0
<1>13. QED
  BY <1>4, <1>5, <1>7, <1>8, <1>9, <1>10, <1>11, <1>12 DEF ReaperInv

(* The two frees: of the head, which main still reads as the head, and of  *)
(* a client that is no longer linked.                                      *)
LEMMA FreeKeeps ==
    ASSUME ReaperInv, PopFree \/ FreeNode
    PROVE  ReaperInv'
<1>0. /\ Types /\ miscounted \in BOOLEAN /\ (mpc = "dead" <=> tpc = "dead")
      /\ Allocation /\ Creation /\ Chain /\ Round /\ Ages /\ Counting /\ Killing
  BY DEF ReaperInv
<1>1. PICK x : x = temp
  OBVIOUS
<1>2. /\ tpc \in {"popfree", "free"} /\ tpc' = IF tpc = "popfree" THEN "head" ELSE "kill"
      /\ live' = live \ {x} /\ next' = [next EXCEPT ![x] = Null]
      /\ stream' = [stream EXCEPT ![x] = AnyStream] /\ timer' = [timer EXCEPT ![x] = 0]
      /\ pid' = [pid EXCEPT ![x] = Null] /\ age' = [age EXCEPT ![x] = 0]
      /\ late' = late \ {x} /\ temp = x
      /\ UNCHANGED <<clients, created, num, miscounted, child, mpc, packet, client, ind, mnum,
                     tclient, index, tval, pidtokill, current, temp, after, lost>>
  BY <1>1 DEF PopFree, FreeNode, Free, count, mainVars, removal
<1> USE <1>2, Bounds
<1>3. /\ x = tclient /\ x \in live /\ x \in Clients /\ x # Null /\ x <= created /\ x \in 1..created
      /\ tpc = "popfree" => x \in Members /\ clients = x
  BY <1>0, LiveAreClients DEF Round, Removal, Allocation
<1>4. \A c \in Clients : c # x => next'[c] = next[c] /\ timer'[c] = timer[c] /\ age'[c] = age[c]
                                  /\ pid'[c] = pid[c]
  BY <1>0 DEF Types
<1>5. next'[x] = Null /\ timer'[x] = 0 /\ age'[x] = 0
  BY <1>0, <1>3 DEF Types
<1>6. Types'
  <2>1. next' \in [Clients -> Pointers] /\ stream' \in [Clients -> Streams]
        /\ timer' \in [Clients -> 0..IdleTicks] /\ pid' \in [Clients -> Pointers]
        /\ age' \in [Clients -> 0..IdleTicks]
    BY <1>0 DEF Types
  <2>2. live' \subseteq Clients /\ late' \subseteq Clients /\ tpc' \in TimerAt
    BY <1>0 DEF Types, TimerAt, Freed
  <2>3. QED
    BY <1>0, <2>1, <2>2 DEF Types
<1>7. Allocation'
  BY <1>0, <1>4, <1>5 DEF Allocation
<1>8. Creation'
  <2>1. client # Null => client \in Clients
    BY <1>0 DEF Types, Pointers
  <2>2. New' = New \/ New' = Null
    BY <1>4, <1>5, <2>1 DEF New
  <2>3. \A c \in live' : c # x /\ c \in Clients
    BY <1>0 DEF Types
  <2>4. QED
    BY <1>0, <1>4, <2>2, <2>3 DEF Creation
<1>9. ~Dead
  BY <1>0 DEF Dead
<1>10. Chain'
  <2>1. Members \in SUBSET (Nat \ {Null}) /\ \A c \in Members : c \in Clients
    BY <1>0, LiveAreClients
  <2>2. IsChain(Members, Head, Links)
    BY <1>0, <1>9 DEF Chain
  <2>3. CASE tpc = "popfree"
    <3>1. Members' = Members \ {x}
      BY <2>3 DEF Members
    <3>2. Head = x /\ Links[x] = after /\ Head' = after
      BY <1>3, <2>3 DEF Head, Links, Succ
    <3>3. \A c \in Members \ {x} : Links'[c] = Links[c]
      BY <1>4, <2>1, <2>3 DEF Links, Succ
    <3>4. QED
      BY <1>3, <2>1, <2>2, <2>3, <3>1, <3>2, <3>3, ChainWithoutHead DEF Chain
  <2>4. CASE tpc = "free"
    <3>1. Members' = Members /\ x \notin Members
      BY <2>4 DEF Members
    <3>2. Head' = Head
      BY <2>4 DEF Head
    <3>3. \A c \in Members : Links'[c] = Links[c]
      BY <1>4, <2>1, <2>4, <3>1 DEF Links, Succ
    <3>4. QED
      BY <2>2, <3>1, <3>2, <3>3, SameChain DEF Chain
  <2>5. QED
    BY <2>3, <2>4
<1>11. Round'
  BY <1>0, <1>3 DEF Round, Scan, Removal, Cut
<1>12. Ages'
  BY <1>0, <1>4, <1>5 DEF Ages, Removing
<1>13. Counting'
  <2>1. IsFiniteSet(live) /\ Cardinality(live) \in Nat
    BY <1>0, LiveIsFinite
  <2>2. Cardinality(live') = Cardinality(live) - 1
    BY <1>3, <2>1, FS_RemoveElement
  <2>3. Returning' = 1 /\ Returning = 0 /\ Uncounted' = Uncounted /\ Uncounted \in 0..1
    BY DEF Uncounted, Returning, Freed
  <2>4. (Cardinality(live') + Returning') - Uncounted' = (Cardinality(live) + Returning) - Uncounted
    BY <2>1, <2>2, <2>3
  <2>5. num' = num /\ mnum' = mnum /\ mpc' = mpc /\ tpc' # "store" /\ (~miscounted' => ~miscounted)
    OBVIOUS
  <2>6. QED
    BY <1>0, <1>9, <2>4, <2>5, Zenon DEF Counting
<1>14. Killing'
  <2>1. Intact' => Intact
    BY <1>9, Zenon DEF Intact
  <2>2. tpc \in Removing \ {"pid"} /\ tpc' \notin Removing /\ tpc' \in {"head", "kill"}
    BY DEF Removing
  <2>3. Intact => pidtokill = x
    BY <1>0, <1>3, <2>2 DEF Killing
  <2>4. \A c \in live' : c \in live /\ c # x /\ c \in Clients
    BY <1>0 DEF Types
  <2>5. ASSUME Intact
        PROVE  /\ pidtokill \in 1..created /\ pidtokill \notin live'
               /\ \A c \in live' : pid'[c] = c \/ (mpc \in Filling /\ c = created)
               /\ \A c \in Clients :
                    /\ child[c] = "running" => c \in live' \/ pidtokill = c
                    /\ child[c] \in {"signalled", "waited"} => c \notin live'
                    /\ c > created => child[c] = "none"
    BY <1>0, <1>3, <1>4, <2>3, <2>4, <2>5 DEF Killing
  <2>6. QED
    BY <2>1, <2>2, <2>5 DEF Killing
<1>15. miscounted' \in BOOLEAN /\ (mpc' = "dead" <=> tpc' = "dead")
  BY <1>0
<1>16. QED
  BY <1>6, <1>7, <1>8, <1>10, <1>11, <1>12, <1>13, <1>14, <1>15 DEF ReaperInv

(* The store of the head; a client that main is creating behind it is      *)
(* reached no more.                                                        *)
LEMMA PopHeadKeeps ==
    ASSUME ReaperInv, PopHead
    PROVE  ReaperInv'
<1>0. /\ Types /\ miscounted \in BOOLEAN /\ (mpc = "dead" <=> tpc = "dead")
      /\ Allocation /\ Creation /\ Chain /\ Round /\ Ages /\ Counting /\ Killing
  BY DEF ReaperInv
<1>1. /\ tpc = "head" /\ tpc' = "kill" /\ clients' = after
      /\ UNCHANGED <<next, stream, timer, pid, live, created, num, miscounted, child,
                     mpc, packet, client, ind, mnum, age, late, lost, tclient, index, tval,
                     pidtokill, current, temp, after>>
  BY DEF PopHead, node, count, history, mainVars, removal
<1> USE <1>1
<1>2. /\ clients = temp /\ temp # Null /\ after \in Pointers
      /\ after = Null \/ (after > temp /\ after <= created)
      /\ temp \in Nat /\ after \in Nat /\ created \in Nat
  BY <1>0, Bounds DEF Round, Cut, Types, Pointers, Null
<1>3. Types'
  BY <1>0, <1>2 DEF Types, TimerAt, Freed
<1>4. Allocation'
  BY <1>0 DEF Allocation
<1>5. Creation'
  <2>1. clients = created => after = Null
    BY <1>2
  <2>2. New' = New \/ (New = clients /\ New' = after)
    BY DEF New
  <2>3. New \in {created, Null} => New' \in {created, Null}
    BY <1>2, <2>1, <2>2
  <2>4. QED
    BY <1>0, <2>3 DEF Creation
<1>6. Chain' /\ Round'
  <2>1. Members' = Members /\ Head' = Head
    BY DEF Members, Head
  <2>2. \A c \in Clients : Succ(c)' = Succ(c)
    BY DEF Succ
  <2>3. Links' = Links
    BY <2>2 DEF Links
  <2>4. QED
    BY <1>0, <2>1, <2>3 DEF Chain, Dead, Round, Scan, Removal, Cut
<1>7. Ages'
  BY <1>0 DEF Ages, Removing
<1>8. Counting'
  <2>1. Uncounted' = Uncounted /\ Returning' = Returning /\ tpc' # "store"
    BY DEF Uncounted, Returning, Freed
  <2>2. (~Dead' => ~Dead) /\ (~miscounted' => ~miscounted)
    BY DEF Dead
  <2>3. num' = num /\ live' = live /\ mnum' = mnum /\ mpc' = mpc
    OBVIOUS
  <2>4. QED
    BY <1>0, <2>1, <2>2, <2>3, Zenon DEF Counting
<1>9. Killing'
  <2>1. Intact' => Intact
    BY Zenon DEF Intact, Dead
  <2>2. tpc' \notin Removing
    BY DEF Removing
  <2>3. QED
    BY <1>0, <2>1, <2>2, Zenon DEF Killing
<1>10. miscounted' \in BOOLEAN /\ (mpc' = "dead" <=> tpc' = "dead")
  BY <1>0
<1>11. QED
  BY <1>3, <1>4, <1>5, <1>6, <1>7, <1>8, <1>9, <1>10 DEF ReaperInv

(* The store of the link, after which the client is on the list no more,   *)
(* and neither is what main has linked behind it since the load.           *)
LEMMA RelinkKeeps ==
    ASSUME ReaperInv, Relink
    PROVE  ReaperInv'
<1>0. /\ Types /\ miscounted \in BOOLEAN /\ (mpc = "dead" <=> tpc = "dead")
      /\ Allocation /\ Creation /\ Chain /\ Round /\ Ages /\ Counting /\ Killing
  BY DEF ReaperInv
<1>1. PICK q, x : q = current /\ x = temp
  OBVIOUS
<1>2. /\ tpc = "relink" /\ tpc' = "free" /\ next' = [next EXCEPT ![q] = after]
      /\ current = q /\ temp = x
      /\ UNCHANGED <<clients, stream, timer, pid, live, created, num, miscounted, child,
                     mpc, packet, client, ind, mnum, age, late, lost, tclient, index, tval,
                     pidtokill, current, temp, after>>
  BY <1>1 DEF Relink, count, history, mainVars, removal
<1> USE <1>2
<1>3. /\ x = tclient /\ x \in Members /\ q \in Members /\ next[q] = x
      /\ q \in Clients /\ x \in Clients /\ x \in live /\ q # x /\ q < x /\ x # Null
      /\ after \in Pointers /\ (after = Null \/ (after > x /\ after <= created))
      /\ created \in Nat /\ x \in Nat /\ q \in Nat /\ after \in Nat
  <2>1. x = tclient /\ x \in Members /\ q \in Members /\ next[q] = x
        /\ (after = Null \/ (after > x /\ after <= created))
    BY <1>0 DEF Round, Removal, Cut
  <2>2. q \in Clients /\ x \in Clients /\ x \in live /\ x # Null /\ created \in Nat
        /\ x \in Nat /\ q \in Nat
    BY <1>0, <2>1, LiveAreClients
  <2>3. q < x /\ q # x
    BY <1>0, <2>1, <2>2 DEF Allocation
  <2>4. after \in Pointers /\ after \in Nat
    BY <1>0, Bounds DEF Types, Pointers, Null
  <2>5. QED
    BY <2>1, <2>2, <2>3, <2>4
<1>4. next'[q] = after /\ \A c \in Clients : c # q => next'[c] = next[c]
  BY <1>0, <1>3 DEF Types
<1>5. Types'
  <2>1. next' \in [Clients -> Pointers] /\ tpc' \in TimerAt
    BY <1>0, <1>3 DEF Types, TimerAt
  <2>2. QED
    BY <1>0, <2>1 DEF Types
<1>6. Allocation'
  <2>1. q \in live
    BY <1>0, <1>3, LiveAreClients
  <2>2. \A c \in Clients : next'[c] # Null => next'[c] > c /\ next'[c] <= created
    BY <1>0, <1>3, <1>4 DEF Allocation
  <2>3. QED
    BY <1>0, <1>4, <2>1, <2>2 DEF Allocation
<1>7. Creation'
  <2>1. client # Null => client \in Clients
    BY <1>0 DEF Types, Pointers
  <2>2. client # q \/ client = Null => New' = New
    BY <1>4, <2>1 DEF New
  <2>3. client = q /\ client # Null => New = x /\ New' = after
    BY <1>3, <1>4 DEF New
  <2>4. x = created => after = Null
    BY <1>3
  <2>5. New \in {created, Null} => New' \in {created, Null}
    BY <1>3, <2>2, <2>3, <2>4
  <2>6. client \in live /\ next[client] = Null => next'[client] = Null
    BY <1>0, <1>3, <1>4, LiveAreClients
  <2>7. QED
    BY <1>0, <2>5, <2>6 DEF Creation
<1>8. Chain'
  <2>1. Members \in SUBSET (Nat \ {Null}) /\ \A c \in Members : c \in Clients
    BY <1>0, LiveAreClients
  <2>2. IsChain(Members, Head, Links)
    BY <1>0 DEF Chain, Dead
  <2>3. Members' = Members \ {x} /\ Head' = Head
    BY DEF Members, Head
  <2>4. Links[q] = x /\ Links[x] = after /\ Links'[q] = after
    BY <1>3, <1>4 DEF Links, Succ
  <2>5. \A c \in Members \ {q, x} : Links'[c] = Links[c]
    BY <1>4, <2>1 DEF Links, Succ
  <2>6. QED
    BY <1>3, <2>1, <2>2, <2>3, <2>4, <2>5, ChainWithoutNext DEF Chain
<1>9. Round'
  BY <1>0, <1>3 DEF Round, Scan, Removal, Cut
<1>10. Ages'
  BY <1>0 DEF Ages, Removing
<1>11. Counting'
  <2>1. Uncounted' = Uncounted /\ Returning' = Returning /\ tpc' # "store"
    BY DEF Uncounted, Returning, Freed
  <2>2. (~Dead' => ~Dead) /\ (~miscounted' => ~miscounted)
    BY DEF Dead
  <2>3. num' = num /\ live' = live /\ mnum' = mnum /\ mpc' = mpc
    OBVIOUS
  <2>4. QED
    BY <1>0, <2>1, <2>2, <2>3, Zenon DEF Counting
<1>12. Killing'
  <2>1. Intact' => Intact
    BY Zenon DEF Intact, Dead
  <2>2. tpc \notin {"head", "kill"} /\ tpc' \notin {"head", "kill", "wait", "visit", "pid"}
        /\ tpc \in Removing \ {"pid"}
    BY DEF Removing
  <2>3. QED
    BY <1>0, <2>1, <2>2, Zenon DEF Killing
<1>13. miscounted' \in BOOLEAN /\ (mpc' = "dead" <=> tpc' = "dead")
  BY <1>0
<1>14. QED
  BY <1>5, <1>6, <1>7, <1>8, <1>9, <1>10, <1>11, <1>12, <1>13 DEF ReaperInv

LEMMA KillKeeps ==
    ASSUME ReaperInv, Kill \/ Wait
    PROVE  ReaperInv'
<1>0. /\ Types /\ miscounted \in BOOLEAN /\ (mpc = "dead" <=> tpc = "dead")
      /\ Allocation /\ Creation /\ Chain /\ Round /\ Ages /\ Counting /\ Killing
  BY DEF ReaperInv
<1>1. CASE tpc = "kill" /\ pidtokill = Null
  BY <1>1, LostKeeps DEF Kill, Wait, Lost
<1>2. CASE ~(tpc = "kill" /\ pidtokill = Null)
  <2>1. /\ tpc \in {"kill", "wait"} /\ tpc' = IF tpc = "kill" THEN "wait" ELSE "load"
        /\ child' = [child EXCEPT ![pidtokill] = IF tpc = "kill" THEN "signalled" ELSE "waited"]
        /\ UNCHANGED <<clients, next, stream, timer, pid, live, created, num, miscounted,
                       mpc, packet, client, ind, mnum, age, late, lost, tclient, index, tval,
                       pidtokill, current, temp, after>>
    BY <1>2 DEF Kill, Wait, node, count, history, mainVars, removal
  <2> USE <2>1
  <2>2. Types'
    <3>1. child' \in [Clients -> {"none", "running", "signalled", "waited"}] /\ tpc' \in TimerAt
      BY <1>0 DEF Types, TimerAt, Freed
    <3>2. QED
      BY <1>0, <3>1 DEF Types
  <2>3. Allocation' /\ Creation'
    BY <1>0 DEF Allocation, Creation, New
  <2>4. Chain' /\ Round'
    <3>1. Members' = Members /\ Head' = Head /\ Links' = Links
          /\ \A c \in Pointers : Pos(c)' = Pos(c)
      BY ListStays DEF Midst
    <3>2. QED
      BY <1>0, <3>1 DEF Chain, Dead, Round, Scan, Removal, Cut
  <2>5. Ages'
    BY <1>0 DEF Ages, Removing
  <2>6. Counting'
    <3>1. Uncounted' = Uncounted /\ Returning' = Returning /\ tpc' # "store"
      BY DEF Uncounted, Returning, Freed
    <3>2. (~Dead' => ~Dead) /\ (~miscounted' => ~miscounted)
      BY DEF Dead
    <3>3. num' = num /\ live' = live /\ mnum' = mnum /\ mpc' = mpc
      OBVIOUS
    <3>4. QED
      BY <1>0, <3>1, <3>2, <3>3, Zenon DEF Counting
  <2>7. Killing'
    <3>1. Intact' => Intact
      BY Zenon DEF Intact, Dead
    <3>2. tpc' \notin Removing /\ tpc' \notin {"visit", "pid", "head", "kill"}
      BY DEF Removing
    <3>3. ASSUME Intact
          PROVE  /\ pidtokill \in 1..created /\ pidtokill \notin live
                 /\ \A c \in live : pid[c] = c \/ (mpc \in Filling /\ c = created)
                 /\ \A c \in Clients :
                      /\ child'[c] = "running" => c \in live
                      /\ child'[c] \in {"signalled", "waited"} => c \notin live
                      /\ c > created => child'[c] = "none"
      <4>1. pidtokill \in 1..created /\ pidtokill \notin live
        BY <1>0, <3>3 DEF Killing
      <4>2. \A c \in live : pid[c] = c \/ (mpc \in Filling /\ c = created)
        BY <1>0, <3>3 DEF Killing
      <4>3. \A c \in Clients : c # pidtokill => child'[c] = child[c]
        BY <1>0 DEF Types
      <4>4. child'[pidtokill] \in {"signalled", "waited"} /\ ~(pidtokill > created)
            /\ pidtokill \in Clients
        BY <1>0, <4>1, Bounds DEF Types, Pointers, Null
      <4>5. \A c \in Clients : c # pidtokill =>
              /\ child[c] = "running" => c \in live
              /\ child[c] \in {"signalled", "waited"} => c \notin live
              /\ c > created => child[c] = "none"
        BY <1>0, <3>3 DEF Killing
      <4>6. QED
        BY <4>1, <4>2, <4>3, <4>4, <4>5
    <3>4. QED
      BY <3>1, <3>2, <3>3 DEF Killing
  <2>8. miscounted' \in BOOLEAN /\ (mpc' = "dead" <=> tpc' = "dead")
    BY <1>0
  <2>9. QED
    BY <2>2, <2>3, <2>4, <2>5, <2>6, <2>7, <2>8 DEF ReaperInv
<1>3. QED
  BY <1>1, <1>2

LEMMA TimerStoreNumKeeps ==
    ASSUME ReaperInv, TimerStoreNum
    PROVE  ReaperInv'
<1>0. /\ Types /\ miscounted \in BOOLEAN /\ (mpc = "dead" <=> tpc = "dead")
      /\ Allocation /\ Creation /\ Chain /\ Round /\ Ages /\ Counting /\ Killing
  BY DEF ReaperInv
<1>1. /\ tpc = "store" /\ num' = Byte(tval - 1) /\ tpc' = "sleep" /\ tclient' = Null
      /\ index' = 0 /\ tval' = 0 /\ pidtokill' = Null /\ current' = Null /\ temp' = Null
      /\ after' = Null
      /\ UNCHANGED <<clients, next, stream, timer, pid, live, created, child,
                     mpc, packet, client, ind, mnum, age, late, lost>>
  BY DEF TimerStoreNum, TimerIdle, node, history, mainVars
<1>2. miscounted' = (miscounted \/ mpc = "store")
  BY DEF TimerStoreNum
<1> USE <1>1, Bounds
<1>3. Types'
  <2>1. num' \in 0..255 /\ tpc' \in TimerAt
    BY <1>0, Bytes DEF Types, TimerAt
  <2>2. QED
    BY <1>0, <2>1 DEF Types
<1>4. Allocation' /\ Creation'
  BY <1>0 DEF Allocation, Creation, New
<1>5. Chain' /\ Round'
  <2>1. Members' = Members /\ Head' = Head /\ Links' = Links
    BY ListStays DEF Midst
  <2>2. QED
    BY <1>0, <2>1 DEF Chain, Dead, Round, Scan, Removal, Cut
<1>6. Ages'
  BY <1>0 DEF Ages, Removing
<1>7. (~miscounted' => ~miscounted /\ mpc # "store")
  BY <1>2, Zenon
<1>8. (~Dead' => ~Dead) /\ mpc' = mpc /\ mnum' = mnum /\ tpc' # "store"
  BY DEF Dead
<1>9. Counting'
  <2>1. Returning' = 0 /\ Returning = 1 /\ Uncounted' = Uncounted /\ Uncounted \in 0..1
    BY DEF Uncounted, Returning, Freed
  <2>2. Cardinality(live) \in Nat
    BY <1>0, LiveIsFinite
  <2>3. ASSUME tval = num, num = Byte((Cardinality(live) + Returning) - Uncounted)
        PROVE  num' = Byte((Cardinality(live') + Returning') - Uncounted')
    <3>1. ((Cardinality(live) + Returning) - Uncounted) - 1 = (Cardinality(live) + 0) - Uncounted
          /\ (Cardinality(live) + Returning) - Uncounted \in Int
      BY <2>1, <2>2
    <3>2. num' = Byte(((Cardinality(live) + Returning) - Uncounted) - 1)
      BY <2>3, <3>1, ByteSteps
    <3>3. QED
      BY <2>1, <3>1, <3>2
  <2>4. QED
    BY <1>0, <1>1, <1>7, <1>8, <2>3, Zenon DEF Counting
<1>10. Killing'
  <2>1. tpc' \notin Removing /\ tpc' \notin {"visit", "pid", "head", "kill", "wait"}
        /\ tpc \notin {"head", "kill"}
    BY DEF Removing
  <2>2. Intact' => Intact
    <3>1. lost' = lost
      BY <1>1
    <3>2. QED
      BY <1>7, <1>8, <3>1, Zenon DEF Intact
  <2>3. QED
    BY <1>0, <2>1, <2>2, Zenon DEF Killing
<1>11. miscounted' \in BOOLEAN
  BY <1>0, <1>2, Zenon
<1>12. mpc' = "dead" <=> tpc' = "dead"
  BY <1>0
<1>13. QED
  BY <1>3, <1>4, <1>5, <1>6, <1>9, <1>10, <1>11, <1>12 DEF ReaperInv

-----------------------------------------------------------------------------
LEMMA ServerInitHolds == Init => ReaperInv
<1> SUFFICES ASSUME Init PROVE ReaperInv
  OBVIOUS
<1> USE Bounds
<1>1. Types
  BY DEF Init, Types, MainAt, TimerAt, AnyStream
<1>2. Allocation /\ Creation
  BY DEF Init, Allocation, Creation, Linking, Filling
<1>3. Chain
  <2>1. Members = {} /\ Head = Null
    BY DEF Init, Members, Head
  <2>2. QED
    BY <2>1 DEF Chain, IsChain
<1>4. Round /\ Ages
  BY DEF Init, Round, Scan, Removal, Cut, Ages, Removing, Null
<1>5. Counting
  <2>1. Cardinality(live) = 0 /\ num = 0 /\ mpc = "poll" /\ tpc = "sleep"
    BY FS_EmptySet DEF Init
  <2>2. Uncounted = 0 /\ Returning = 0
    BY <2>1 DEF Uncounted, Returning, Linking, Freed
  <2>3. num = Byte((Cardinality(live) + Returning) - Uncounted)
    BY <2>1, <2>2 DEF Byte
  <2>4. mpc # "store" /\ tpc # "store"
    BY <2>1
  <2>5. QED
    BY <2>3, <2>4, Zenon DEF Counting
<1>6. Killing
  <2>1. tpc \notin Removing /\ tpc \notin {"visit", "pid", "head", "kill", "wait"}
    BY DEF Init, Removing
  <2>2. live = {} /\ \A c \in Clients : child[c] = "none"
    BY DEF Init
  <2>3. \A c \in Clients : child[c] \notin {"running", "signalled", "waited"}
    BY <2>2
  <2>4. QED
    BY <2>1, <2>2, <2>3, Zenon DEF Killing
<1>7. miscounted \in BOOLEAN
  BY Zenon DEF Init
<1>8. mpc # "dead" /\ tpc # "dead"
  BY DEF Init
<1>9. QED
  BY <1>1, <1>2, <1>3, <1>4, <1>5, <1>6, <1>7, <1>8 DEF ReaperInv

LEMMA StutterKeeps ==
    ASSUME ReaperInv, UNCHANGED vars
    PROVE  ReaperInv'
<1>0. Types /\ Creation /\ Counting /\ (mpc = "dead" <=> tpc = "dead")
  BY DEF ReaperInv
<1>1. UNCHANGED <<clients, next, stream, timer, pid, live, created, num, miscounted, child,
                  mpc, packet, client, ind, mnum, timerVars, age, late, lost>>
  BY DEF vars, timerVars
<1>2. CASE mpc = "dead"
  <2>1. Lost
    BY <1>0, <1>1, <1>2 DEF Lost, node, count, timerVars, removal, history
  <2>2. QED
    BY <2>1, LostKeeps
<1>3. CASE mpc \in {"fill", "popen", "pid", "report", "link", "choose"}
  <2>1. mpc # "dead" /\ mpc' \in MainAt \ {"dead"}
    BY <1>0, <1>1, <1>3 DEF Types
  <2>2. QED
    BY <1>0, <1>1, <1>3, <2>1, MainQuiet DEF Types, Creation
<1>4. CASE mpc \notin {"dead", "fill", "popen", "pid", "report", "link", "choose"}
  <2>1. mpc # "dead" /\ mpc' \in MainAt \ {"dead"}
    BY <1>0, <1>1, <1>4 DEF Types
  <2>2. QED
    BY <1>0, <1>1, <1>4, <2>1, MainQuiet DEF Types
<1>5. QED
  BY <1>2, <1>3, <1>4

LEMMA ServerStepHolds == ReaperInv /\ [Next]_vars => ReaperInv'
<1> SUFFICES ASSUME ReaperInv, [Next]_vars PROVE ReaperInv'
  OBVIOUS
<1>1. CASE UNCHANGED vars
  BY <1>1, StutterKeeps
<1>2. CASE Main
  BY <1>2, MainReads, RefreshKeeps, ChooseKeeps, LinkKeeps, PopenKeeps, StoreNumKeeps
     DEF Main, MainWork
<1>3. CASE Timer
  BY <1>3, TickKeeps, TimerCountKeeps, TimerTestKeeps, TimerVisitKeeps, TimerGetKeeps,
     TimerBumpKeeps, TimerAdvanceKeeps, TimerPidKeeps, CutKeeps, FreeKeeps, PopHeadKeeps,
     WalkKeeps, RelinkKeeps, KillKeeps, TimerLoadNumKeeps, TimerStoreNumKeeps DEF Timer
<1>4. QED
  BY <1>1, <1>2, <1>3 DEF Next

LEMMA ReaperInvHolds == Spec => []ReaperInv
  BY ServerInitHolds, ServerStepHolds, PTL DEF Spec

-----------------------------------------------------------------------------
(* main appends at the tail (vban_receptor_jack/main.cpp:218-231) and      *)
(* timerThread takes out idle clients anywhere (vban_client_list.cpp:38-91)*)
(* without a lock: whatever the order of their loads and stores, the       *)
(* clients that are not freed form one list in order of arrival, but for   *)
(* those linked behind a client being removed, as long as the program has  *)
(* not followed a null or freed pointer.                                   *)
THEOREM ListStaysAChain == Spec => []ServerInv
<1>1. ReaperInv => ServerInv
  <2> SUFFICES ASSUME ReaperInv PROVE TypeOK /\ ListIsChain
    BY DEF ServerInv
  <2>1. Types /\ Allocation /\ Chain
    BY DEF ReaperInv
  <2>2. Types /\ miscounted \in BOOLEAN
    BY DEF ReaperInv
  <2>3. TypeOK
    BY <2>2, TypesAreTypes, Zenon
  <2>4. \A c \in Members : Links[c] = Succ(c) /\ c # Null
    BY <2>1, LiveAreClients, Bounds DEF Links
  <2>5. QED
    BY <2>1, <2>3, <2>4 DEF Chain, IsChain, ListIsChain
<1>2. QED
  BY <1>1, ReaperInvHolds, PTL

(* As long as the list and the count are intact, no removal forgets the    *)
(* child of the client removed, and none kills the child of a client that  *)
(* stays, or the receptor (vban_functions.cpp:222-234).                    *)
THEOREM NoChildIsForgotten == Spec => []NoOrphanChild
<1>1. ReaperInv => NoOrphanChild
  <2> SUFFICES ASSUME ReaperInv, Intact PROVE NoOrphanChild
    BY Zenon DEF NoOrphanChild
  <2>1. Killing /\ Types
    BY DEF ReaperInv
  <2>2. \A x \in 1..created : x # Null
    BY DEF Null
  <2>3. tpc \in {"kill", "wait"} => tpc \in {"head", "kill", "wait"}
    OBVIOUS
  <2>4. QED
    BY <2>1, <2>2, <2>3, Zenon DEF NoOrphanChild, Killing
<1>2. QED
  BY <1>1, ReaperInvHolds, PTL

(* active_clients_num counts the clients exactly until an increment of     *)
(* main and a decrement of timerThread overlap (vban_functions.cpp:239,    *)
(* vban_receptor_jack/main.cpp:260).                                       *)
THEOREM PlacesAreCounted == Spec => []CountIsExact
<1>1. ReaperInv => CountIsExact
  BY Zenon DEF ReaperInv, Counting, CountIsExact
<1>2. QED
  BY <1>1, ReaperInvHolds, PTL

(* timerThread frees a client only after IdleTicks silent passes, or when  *)
(* it overlooks the reset of its timer (vban_functions.cpp:219-242).       *)
THEOREM ClientsGrowOld == Spec => SilentClientsOnly
<1>1. ReaperInv /\ [Next]_vars
        => [\A c \in live \ live' : age[c] >= IdleTicks \/ c \in late]_vars
  <2> SUFFICES ASSUME ReaperInv, Next, NEW c \in live \ live'
               PROVE  age[c] >= IdleTicks \/ c \in late
    OBVIOUS
  <2>1. ~Main
    <3>1. Main => live \subseteq live'
      BY DEF Main, MainWork, Receive, LoopTest, Visit, Refresh, Forward, Decide, Choose,
             Room, Start, TailTest, Advance, Link, Fill, Popen, StorePid, Report, LoadNum,
             StoreNum, Access, Allocate, node
    <3>2. QED
      BY <3>1
  <2>2. tpc \in {"popfree", "free"} /\ c = temp
    BY <2>1 DEF Next, Timer, Tick, TimerCount, TimerTest, TimerVisit, TimerGet, TimerBump,
       TimerAdvance, TimerPid, PopLoad, PopFree, PopHead, Walk, Unlink, Relink, FreeNode,
       Kill, Wait, TimerLoadNum, TimerStoreNum, Access, Free, node
  <2>3. Removal /\ Ages
    BY DEF ReaperInv, Round
  <2>4. QED
    BY <2>2, <2>3 DEF Removal, Ages, Removing
<1>2. QED
  BY <1>1, ReaperInvHolds, PTL DEF Spec, SilentClientsOnly

=============================================================================
