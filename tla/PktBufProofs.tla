----------------------------- MODULE PktBufProofs -----------------------------
(***************************************************************************)
(* Proofs about pktbuf: who waits for a packet, in which order packets are *)
(* given out, and when a timeout is told.                                  *)
(*                                                                         *)
(* A client that waits is registered in readwait_ and in the timer queue;  *)
(* a second reader would take its place.  That it never does rests on the  *)
(* order of events: tools run one after the other, and the server is done  *)
(* with a tool that went away before it reads the second request of its    *)
(* successor, because every turn serves all that is ready.                 *)
(*                                                                         *)
(* The order of the packets is an invariant of the ring, of the batch that *)
(* bpf hands over and of what the readers got; one batch is written by a   *)
(* loop, over which the proof goes by induction.  That the ring is a queue *)
(* is shown the same way: a write keeps what a queue of RbSize keeps, and  *)
(* so does a batch, packet by packet.                                      *)
(***************************************************************************)
EXTENDS PktBuf, FiniteSetTheorems, SequenceTheorems, WellFoundedInduction, TLAPS

-----------------------------------------------------------------------------
(* Least elements and induction over the naturals, by a set for a predicate *)

\* Min, as CHOOSE defines it, is the least element of a set of naturals.
LEMMA MinIsLeast ==
  ASSUME NEW S, S \subseteq Nat, S # {}
  PROVE  /\ Min(S) \in S
         /\ \A y \in S : Min(S) <= y
PROOF
  <1>1. \E x \in S : \A y \in S : ~(<<y, x>> \in OpToRel(<, Nat))
    BY NatLessThanWellFounded, WFMin, Zenon
  <1>2. \A x, y \in Nat : y < x => <<y, x>> \in OpToRel(<, Nat)
    BY DEF OpToRel
  <1>3. PICK x \in S : \A y \in S : ~(<<y, x>> \in OpToRel(<, Nat))
    BY <1>1
  <1>4. ASSUME NEW y \in S PROVE x <= y
    <2>1. x \in Nat /\ y \in Nat
      OBVIOUS
    <2>2. ~(y < x)
      BY <2>1, <1>2, <1>3, Zenon
    <2> QED
      BY <2>1, <2>2
  <1> QED
    BY <1>4 DEF Min

\* A set of naturals that holds 0 and with each number the next one holds them all.
LEMMA InductionOnNat ==
  ASSUME NEW G, 0 \in G, \A n \in Nat : n \in G => n + 1 \in G
  PROVE  Nat \subseteq G
PROOF
  <1> DEFINE T == {n \in Nat : n \notin G}
  <1>1. SUFFICES ASSUME T # {} PROVE FALSE
    OBVIOUS
  <1>2. Min(T) \in T /\ \A y \in T : Min(T) <= y
    BY <1>1, MinIsLeast
  <1>3. PICK m \in Nat : m \notin G /\ \A y \in T : m <= y
    BY <1>2
  <1>4. m - 1 \in Nat
    BY <1>3
  <1>5. m - 1 \in G
    BY <1>3, <1>4
  <1> QED
    BY <1>3, <1>4, <1>5

-----------------------------------------------------------------------------
(* The invariant of the server's connections                                *)

Asked == Requests \cup {None, "connect"}
Replies == {"ok", "packet", "timeout", "dumped", "empty"}
Slot == [n : Int, at : Int]
Rings == [slots : [0 .. RbSize -> Slot], rp : 0 .. RbSize, wp : 0 .. RbSize,
          mode : {"WRAP", "NOWRAP"}]
Tools == [fd : Int, alive : BOOLEAN, req : Asked, asked : Asked, ans : Replies \cup {None},
          deadline : Int, dp : 0 .. RbSize, packet : Slot]

Accepted(c) == tool[c].fd # -1

ConnTypes ==
  /\ tool \in [Clients -> Tools]
  /\ backlog \in Seq(Clients)
  /\ IsFiniteSet(leaked)
  /\ turn \subseteq Int

\* No two connections share a descriptor, and a turn is about descriptors that are open
Descriptors ==
  /\ \A c \in Clients : Accepted(c) => tool[c].fd > AcceptFd
  /\ \A c, d \in Clients : c # d /\ Accepted(c) => tool[c].fd # tool[d].fd
  /\ \A f \in turn : f \in {BpfFd, AcceptFd} \/ \E c \in Clients : Accepted(c) /\ tool[c].fd = f

\* The tool that runs is the last in the backlog, or it was accepted and nobody is in
\* the backlog; a turn that accepts serves all the connections there are
Connecting ==
  /\ AcceptFd \in turn => /\ backlog # <<>>
                          /\ \A c \in Clients : Accepted(c) => tool[c].fd \in turn
  /\ \A k \in DOMAIN backlog : ~Accepted(backlog[k]) /\ tool[backlog[k]].req = "connect"
  /\ \A j, k \in DOMAIN backlog : j # k => backlog[j] # backlog[k]
  /\ \A c \in Clients : tool[c].alive => \/ backlog = <<>> /\ Accepted(c)
                                         \/ backlog # <<>> /\ c = backlog[Len(backlog)]

OneAlive == \A c, d \in Clients : tool[c].alive /\ tool[d].alive => c = d

\* c is a tool that went away and d its successor: the server has read the last request
\* of c before the first of d, and will be done with c before the second of d
Precedes(c, d) ==
  /\ ~tool[c].alive
  /\ IF tool[d].req = "connect"
     THEN /\ tool[c].req # None => tool[c].fd \in turn /\ tool[d].fd \notin turn
          /\ tool[d].fd \in turn => tool[c].fd \in turn
     ELSE tool[c].req = None /\ tool[c].fd \in turn /\ tool[d].fd \notin turn

InTurns ==
  \A c, d \in Clients :
    c # d /\ Accepted(c) /\ Accepted(d) => Precedes(c, d) \/ Precedes(d, c)

ConnInv == Descriptors /\ Connecting /\ OneAlive /\ InTurns

-----------------------------------------------------------------------------
(* The steps, as far as the connections tell them apart                     *)

Least(f) == f \in turn /\ \A g \in turn : f <= g

\* The connection of c, its process and its request are what they were
SameFor(c) ==
  /\ tool'[c].fd = tool[c].fd /\ tool'[c].req = tool[c].req
  /\ tool'[c].alive <=> tool[c].alive

Selecting ==
  /\ turn = {} /\ turn' = Ready
  /\ \A c \in Clients : SameFor(c)
  /\ backlog' = backlog

Quiet ==
  /\ turn' \in {turn, turn \ {BpfFd}}
  /\ \A c \in Clients : SameFor(c)
  /\ backlog' = backlog

Accepting ==
  /\ Least(AcceptFd) /\ turn' = turn \ {AcceptFd}
  /\ LET c == Head(backlog)
     IN \A d \in Clients :
          IF d = c THEN /\ tool'[d].fd \in Int /\ tool'[d].fd > AcceptFd
                        /\ \A x \in Clients : tool'[d].fd # tool[x].fd
                        /\ tool'[d].req = tool[d].req
                        /\ tool'[d].alive <=> tool[d].alive
          ELSE SameFor(d)
  /\ backlog' = Tail(backlog)

\* The server reads a request of c, or that the connection is lost
ServedOf(c) ==
  /\ Least(tool[c].fd) /\ turn' = turn \ {tool[c].fd}
  /\ backlog' = backlog
  /\ \A d \in Clients \ {c} : SameFor(d)
  /\ \/ tool'[c] = NoTool
     \/ /\ tool[c].req # None /\ tool'[c].req = None
        /\ tool'[c].fd = tool[c].fd
        /\ tool'[c].alive <=> tool[c].alive

AskingOf(c) ==
  /\ turn' = turn /\ backlog' = backlog
  /\ tool[c].alive /\ tool[c].req # "connect" /\ tool'[c].req # "connect"
  /\ tool'[c].fd = tool[c].fd /\ tool'[c].alive
  /\ \A d \in Clients \ {c} : SameFor(d)

Ending(c) ==
  /\ turn' = turn /\ backlog' = backlog
  /\ tool'[c].fd = tool[c].fd /\ tool'[c].req = tool[c].req /\ ~tool'[c].alive
  /\ \A d \in Clients \ {c} : SameFor(d)

ConnectingOf(c) ==
  /\ turn' = turn /\ backlog' = Append(backlog, c)
  /\ \A d \in Clients : ~tool[d].alive
  /\ tool[c].fd = -1 /\ tool[c].req = None
  /\ tool'[c].fd = -1 /\ tool'[c].req = "connect" /\ tool'[c].alive
  /\ \A d \in Clients \ {c} : SameFor(d)

ConnStep ==
  \/ Selecting \/ Quiet \/ Accepting
  \/ \E c \in Clients : ServedOf(c) \/ AskingOf(c) \/ Ending(c) \/ ConnectingOf(c)
-----------------------------------------------------------------------------
(* The invariant is kept by each kind of step                               *)

LEMMA SelectingKeeps == ConnTypes /\ ConnTypes' /\ ConnInv /\ Selecting => ConnInv'
PROOF
  <1> SUFFICES ASSUME ConnTypes, ConnTypes', ConnInv, Selecting PROVE ConnInv'
    OBVIOUS
  <1> USE DEF Selecting, SameFor
  <1>0. /\ AcceptFd \in Ready => backlog # <<>>
        /\ \A c \in Clients : Accepted(c) /\ ~tool[c].alive => tool[c].fd \in Ready
        /\ \A f \in Ready : f \in {BpfFd, AcceptFd}
                              \/ \E c \in Clients : Accepted(c) /\ tool[c].fd = f
    <2>1. \A c \in Clients : Accepted(c) /\ ~tool[c].alive => tool[c].fd \in Ready
      BY DEF Ready, Accepted
    <2>2. \A c \in Clients : Accepted(c) => tool[c].fd # AcceptFd
      BY DEF ConnInv, Descriptors, AcceptFd, ConnTypes, Tools
    <2>3. AcceptFd \in Ready => backlog # <<>>
      BY <2>2 DEF Ready, AcceptFd, BpfFd, Accepted
    <2>4. \A f \in Ready : f \in {BpfFd, AcceptFd}
                              \/ \E c \in Clients : Accepted(c) /\ tool[c].fd = f
      BY DEF Ready, Accepted
    <2> QED
      BY <2>1, <2>3, <2>4
  <1>1. Descriptors'
    BY <1>0 DEF ConnInv, Descriptors, Accepted
  <1>2. Connecting'
    <2>1. \A c \in Clients : AcceptFd \in Ready /\ Accepted(c) => ~tool[c].alive
      BY <1>0 DEF ConnInv, Connecting, Accepted, ConnTypes
    <2> QED
      BY <1>0, <2>1 DEF ConnInv, Connecting, Accepted, ConnTypes
  <1>3. OneAlive'
    BY DEF ConnInv, OneAlive
  <1>4. InTurns'
    <2> SUFFICES ASSUME NEW c \in Clients, NEW d \in Clients, c # d, Accepted(c), Accepted(d),
                        Precedes(c, d)
                 PROVE  Precedes(c, d)'
      BY DEF ConnInv, InTurns, Accepted
    <2> QED
      BY <1>0 DEF Precedes, Accepted
  <1> QED
    BY <1>1, <1>2, <1>3, <1>4 DEF ConnInv

LEMMA QuietKeeps == ConnTypes /\ ConnTypes' /\ ConnInv /\ Quiet => ConnInv'
PROOF
  <1> SUFFICES ASSUME ConnTypes, ConnTypes', ConnInv, Quiet PROVE ConnInv'
    OBVIOUS
  <1>0. /\ \A c \in Clients : SameFor(c)
        /\ backlog' = backlog
        /\ turn' \subseteq turn
        /\ \A f \in turn : f # BpfFd => f \in turn'
        /\ \A c \in Clients : Accepted(c) => tool[c].fd # BpfFd
    BY DEF Quiet, ConnInv, Descriptors, BpfFd, AcceptFd, ConnTypes, Tools
  <1>1. Descriptors'
    BY <1>0 DEF ConnInv, Descriptors, Accepted, SameFor
  <1>2. Connecting'
    <2>1. AcceptFd \in turn' => /\ backlog' # <<>>
                                /\ \A c \in Clients : Accepted(c)' => tool'[c].fd \in turn'
      BY <1>0 DEF ConnInv, Connecting, Accepted, SameFor
    <2>2. \A k \in DOMAIN backlog : backlog[k] \in Clients
      BY ElementOfSeq DEF ConnTypes
    <2>3. \A k \in DOMAIN backlog' : tool'[backlog'[k]].fd = -1 /\ tool'[backlog'[k]].req = "connect"
      BY <1>0, <2>2 DEF ConnInv, Connecting, Accepted, SameFor
    <2>4. \A j, k \in DOMAIN backlog' : j # k => backlog'[j] # backlog'[k]
      BY <1>0 DEF ConnInv, Connecting
    <2>5. \A c \in Clients : tool'[c].alive => \/ backlog' = <<>> /\ Accepted(c)'
                                               \/ backlog' # <<>> /\ c = backlog'[Len(backlog')]
      BY <1>0 DEF ConnInv, Connecting, Accepted, SameFor
    <2> QED
      BY <2>1, <2>3, <2>4, <2>5 DEF Connecting, Accepted
  <1>3. OneAlive'
    BY <1>0 DEF ConnInv, OneAlive, SameFor
  <1>4. InTurns'
    <2> SUFFICES ASSUME NEW c \in Clients, NEW d \in Clients, c # d, Accepted(c), Accepted(d),
                        Precedes(c, d)
                 PROVE  Precedes(c, d)'
      BY <1>0 DEF ConnInv, InTurns, Accepted, SameFor
    <2> QED
      BY <1>0 DEF Precedes, Accepted, SameFor
  <1> QED
    BY <1>1, <1>2, <1>3, <1>4 DEF ConnInv

LEMMA AcceptingKeeps == ConnTypes /\ ConnTypes' /\ ConnInv /\ Accepting => ConnInv'
PROOF
  <1> SUFFICES ASSUME ConnTypes, ConnTypes', ConnInv, Accepting PROVE ConnInv'
    OBVIOUS
  <1>0. /\ AcceptFd \in turn /\ turn' = turn \ {AcceptFd} /\ backlog' = Tail(backlog)
        /\ backlog # <<>>
    BY DEF Accepting, Least, ConnInv, Connecting
  <1>a. PICK a : a = Head(backlog)
    OBVIOUS
  <1>1. /\ a = backlog[1] /\ a \in Clients /\ Len(backlog) \in Nat /\ Len(backlog) > 0
        /\ DOMAIN backlog = 1 .. Len(backlog)
        /\ Len(backlog') = Len(backlog) - 1
        /\ DOMAIN backlog' = 1 .. Len(backlog) - 1
        /\ \A k \in DOMAIN backlog' : backlog'[k] = backlog[k + 1] /\ k + 1 \in DOMAIN backlog
        /\ \A k \in DOMAIN backlog : backlog[k] \in Clients
    <2>1. backlog \in Seq(Clients)
      BY DEF ConnTypes
    <2> QED
      BY <1>0, <1>a, <2>1, HeadTailProperties, ElementOfSeq, LenProperties
  <1>2. /\ tool'[a].fd > AcceptFd /\ tool'[a].fd \in Int
        /\ tool'[a].req = "connect" /\ tool[a].req = "connect" /\ ~Accepted(a)
        /\ tool'[a].alive <=> tool[a].alive
        /\ \A x \in Clients : tool'[a].fd # tool[x].fd
        /\ \A d \in Clients \ {a} : SameFor(d)
    BY <1>1, <1>a DEF Accepting, ConnInv, Connecting
  <1>3. \A c \in Clients : Accepted(c) => tool[c].fd \in turn' /\ ~tool[c].alive
    <2>1. \A c \in Clients : Accepted(c) => tool[c].fd \in turn
      BY <1>0 DEF ConnInv, Connecting
    <2>2. \A c \in Clients : Accepted(c) => tool[c].fd # AcceptFd
      BY DEF ConnInv, Descriptors, AcceptFd, ConnTypes, Tools
    <2>3. \A k \in DOMAIN backlog : ~Accepted(backlog[k])
      BY DEF ConnInv, Connecting
    <2>4. \A c \in Clients : tool[c].alive => c = backlog[Len(backlog)]
      BY <1>0 DEF ConnInv, Connecting
    <2> QED
      BY <1>0, <1>1, <2>1, <2>2, <2>3, <2>4
  <1>4. tool'[a].fd \notin turn
    BY <1>2 DEF ConnInv, Descriptors, AcceptFd, BpfFd
  <1>5. \A c \in Clients \ {a} : Accepted(c)' <=> Accepted(c)
    BY <1>2 DEF Accepted, SameFor
  <1>6. Descriptors'
    <2>1. \A c \in Clients : Accepted(c)' => tool'[c].fd > AcceptFd
      BY <1>2, <1>5 DEF ConnInv, Descriptors, SameFor
    <2>2. \A c, d \in Clients : c # d /\ Accepted(c)' => tool'[c].fd # tool'[d].fd
      BY <1>2, <1>5 DEF ConnInv, Descriptors, SameFor
    <2>3. \A f \in turn' : f \in {BpfFd, AcceptFd}
                             \/ \E c \in Clients : Accepted(c)' /\ tool'[c].fd = f
      BY <1>0, <1>2, <1>5 DEF ConnInv, Descriptors, SameFor
    <2> QED
      BY <2>1, <2>2, <2>3 DEF Descriptors
  <1>7. Connecting'
    <2>1. AcceptFd \notin turn'
      BY <1>0
    <2>2. \A k \in DOMAIN backlog' : backlog'[k] # a
      BY <1>1 DEF ConnInv, Connecting
    <2>3. \A k \in DOMAIN backlog' : tool'[backlog'[k]].fd = -1 /\ tool'[backlog'[k]].req = "connect"
      BY <1>1, <1>2, <2>2 DEF ConnInv, Connecting, SameFor, Accepted
    <2>4. \A j, k \in DOMAIN backlog' : j # k => backlog'[j] # backlog'[k]
      BY <1>1 DEF ConnInv, Connecting
    <2>5. ASSUME NEW c \in Clients, tool'[c].alive
          PROVE  \/ backlog' = <<>> /\ Accepted(c)'
                 \/ backlog' # <<>> /\ c = backlog'[Len(backlog')]
      <3>1. tool[c].alive
        BY <2>5, <1>2 DEF SameFor
      <3>2. c = backlog[Len(backlog)]
        BY <3>1, <1>0 DEF ConnInv, Connecting
      <3>3. CASE Len(backlog) = 1
        <4>1. c = a
          BY <3>2, <3>3, <1>1
        <4>2. backlog' = <<>>
          BY <3>3, <1>1, <1>0, EmptySeq, HeadTailProperties DEF ConnTypes
        <4> QED
          BY <4>1, <4>2, <1>2 DEF Accepted, AcceptFd
      <3>4. CASE Len(backlog) > 1
        <4>1. backlog' # <<>>
          BY <3>4, <1>1
        <4>2. backlog'[Len(backlog')] = backlog[Len(backlog)]
          BY <3>4, <1>1
        <4> QED
          BY <4>1, <4>2, <3>2
      <3> QED
        BY <3>3, <3>4, <1>1
    <2> QED
      BY <2>1, <2>3, <2>4, <2>5 DEF Connecting, Accepted
  <1>8. OneAlive'
    BY <1>2 DEF ConnInv, OneAlive, SameFor
  <1>9. InTurns'
    <2>1. ASSUME NEW c \in Clients \ {a}, Accepted(c)
          PROVE  Precedes(c, a)'
      <3>1. tool'[c].fd = tool[c].fd /\ ~tool'[c].alive
        BY <2>1, <1>2, <1>3 DEF SameFor
      <3>2. tool'[c].fd \in turn' /\ tool'[a].fd \notin turn'
        BY <2>1, <3>1, <1>0, <1>3, <1>4
      <3>3. tool'[a].req = "connect"
        BY <1>2
      <3> QED
        BY <3>1, <3>2, <3>3 DEF Precedes
    <2>2. ASSUME NEW c \in Clients \ {a}, NEW d \in Clients \ {a}, Accepted(c), Accepted(d),
                 Precedes(c, d)
          PROVE  Precedes(c, d)'
      <3>1. SameFor(c) /\ SameFor(d)
        BY <1>2
      <3>2. /\ tool[c].fd # AcceptFd /\ tool[d].fd # AcceptFd
        BY <2>2 DEF ConnInv, Descriptors, AcceptFd, ConnTypes, Tools
      <3> QED
        BY <2>2, <3>1, <3>2, <1>0 DEF Precedes, SameFor
    <2>3. SUFFICES ASSUME NEW c \in Clients, NEW d \in Clients, c # d, Accepted(c)', Accepted(d)'
                   PROVE  (Precedes(c, d) \/ Precedes(d, c))'
      BY DEF InTurns
    <2>4. CASE c = a
      BY <2>1, <2>3, <2>4, <1>5
    <2>5. CASE d = a
      BY <2>1, <2>3, <2>5, <1>5
    <2>6. CASE c # a /\ d # a
      <3>1. Accepted(c) /\ Accepted(d)
        BY <2>3, <2>6, <1>5
      <3>2. Precedes(c, d) \/ Precedes(d, c)
        BY <2>3, <3>1 DEF ConnInv, InTurns
      <3> QED
        BY <2>2, <2>6, <3>1, <3>2
    <2> QED
      BY <2>4, <2>5, <2>6
  <1> QED
    BY <1>6, <1>7, <1>8, <1>9 DEF ConnInv

LEMMA ServedKeeps ==
  ASSUME NEW c \in Clients, ConnTypes, ConnTypes', ConnInv, ServedOf(c)
  PROVE  ConnInv'
PROOF
  <1>0. /\ tool[c].fd \in turn /\ turn' = turn \ {tool[c].fd} /\ backlog' = backlog
        /\ \A g \in turn : tool[c].fd <= g
        /\ \A d \in Clients \ {c} : SameFor(d)
    BY DEF ServedOf, Least
  <1>1. /\ tool[c].fd # -1 /\ tool[c].fd > AcceptFd
        /\ \A d \in Clients \ {c} : tool[d].fd # tool[c].fd
        /\ AcceptFd \notin turn
    <2>1. \A f \in turn : f # -1
      BY DEF ConnInv, Descriptors, BpfFd, AcceptFd, Accepted
    <2>2. Accepted(c)
      BY <1>0, <2>1 DEF Accepted
    <2>3. tool[c].fd > AcceptFd /\ tool[c].fd \in Int
      BY <2>2 DEF ConnInv, Descriptors, ConnTypes, Tools
    <2> QED
      BY <1>0, <2>2, <2>3 DEF ConnInv, Descriptors, Accepted, AcceptFd
  <1>2. \/ tool'[c].fd = -1 /\ ~tool'[c].alive /\ tool'[c].req = None
        \/ /\ tool[c].req # None /\ tool'[c].req = None
           /\ tool'[c].fd = tool[c].fd /\ (tool'[c].alive <=> tool[c].alive)
    BY DEF ServedOf, NoTool
  <1>3. \A d \in Clients : Accepted(d)' => Accepted(d) /\ tool'[d].fd = tool[d].fd
    BY <1>0, <1>1, <1>2 DEF Accepted, SameFor
  <1>4. \A d \in Clients \ {c} : Accepted(d)' <=> Accepted(d)
    BY <1>0 DEF Accepted, SameFor
  <1>5. Descriptors'
    <2>1. \A d \in Clients : Accepted(d)' => tool'[d].fd > AcceptFd
      BY <1>3 DEF ConnInv, Descriptors
    <2>2. ASSUME NEW d \in Clients, NEW e \in Clients, d # e, Accepted(d)'
          PROVE  tool'[d].fd # tool'[e].fd
      BY <2>2, <1>3 DEF ConnInv, Descriptors, Accepted
    <2>3. ASSUME NEW f \in turn', f \notin {BpfFd, AcceptFd}
          PROVE  \E d \in Clients : Accepted(d)' /\ tool'[d].fd = f
      <3>1. PICK d \in Clients : Accepted(d) /\ tool[d].fd = f
        BY <2>3, <1>0 DEF ConnInv, Descriptors
      <3>2. d # c
        BY <2>3, <3>1, <1>0
      <3> QED
        BY <3>1, <3>2, <1>0 DEF Accepted, SameFor
    <2> QED
      BY <2>1, <2>2, <2>3 DEF Descriptors
  <1>6. Connecting'
    <2>1. \A k \in DOMAIN backlog : backlog[k] \in Clients \ {c}
      <3>1. \A k \in DOMAIN backlog : backlog[k] \in Clients
        BY ElementOfSeq DEF ConnTypes
      <3> QED
        BY <3>1, <1>1 DEF ConnInv, Connecting, Accepted
    <2>2. \A k \in DOMAIN backlog' : tool'[backlog'[k]].fd = -1 /\ tool'[backlog'[k]].req = "connect"
      BY <1>0, <2>1 DEF ConnInv, Connecting, Accepted, SameFor
    <2>3. \A j, k \in DOMAIN backlog' : j # k => backlog'[j] # backlog'[k]
      BY <1>0 DEF ConnInv, Connecting
    <2>4. ASSUME NEW d \in Clients, tool'[d].alive
          PROVE  \/ backlog' = <<>> /\ Accepted(d)'
                 \/ backlog' # <<>> /\ d = backlog'[Len(backlog')]
      <3>1. tool[d].alive /\ tool'[d].fd = tool[d].fd
        BY <2>4, <1>0, <1>2 DEF SameFor
      <3> QED
        BY <3>1, <1>0 DEF ConnInv, Connecting, Accepted
    <2>5. AcceptFd \notin turn'
      BY <1>0, <1>1
    <2> QED
      BY <2>2, <2>3, <2>4, <2>5 DEF Connecting, Accepted
  <1>7. OneAlive'
    <2>1. \A d \in Clients : tool'[d].alive => tool[d].alive
      BY <1>0, <1>2 DEF SameFor
    <2> QED
      BY <2>1 DEF ConnInv, OneAlive
  <1>8. InTurns'
    <2>1. SUFFICES ASSUME NEW d \in Clients, NEW e \in Clients, d # e, Accepted(d)', Accepted(e)',
                          Precedes(d, e)
                   PROVE  Precedes(d, e)'
      BY <1>3 DEF ConnInv, InTurns
    <2>2. /\ ~tool'[d].alive
          /\ tool'[d].fd = tool[d].fd /\ tool'[e].fd = tool[e].fd /\ tool[d].fd # tool[e].fd
      BY <2>1, <1>0, <1>2, <1>3 DEF Precedes, SameFor, ConnInv, Descriptors
    <2>3. CASE c # d /\ c # e
      <3>1. SameFor(d) /\ SameFor(e) /\ tool[d].fd # tool[c].fd /\ tool[e].fd # tool[c].fd
        BY <2>3, <1>0, <1>1
      <3> QED
        BY <2>1, <3>1, <1>0 DEF Precedes, SameFor
    <2>4. CASE c = d
      <3>1. tool[d].req # None /\ tool'[d].req = None /\ SameFor(e)
        BY <2>1, <2>4, <1>0, <1>2 DEF Accepted
      <3>2. tool[e].req = "connect" /\ tool[e].fd \notin turn
        BY <2>1, <3>1 DEF Precedes
      <3>3. tool'[e].req = "connect" /\ tool'[e].fd \notin turn'
        BY <3>1, <3>2, <1>0 DEF SameFor
      <3> QED
        BY <2>2, <3>1, <3>3 DEF Precedes
    <2>5. CASE c = e
      <3>1. tool[e].fd \in turn /\ tool'[e].req = None /\ SameFor(d)
        BY <2>1, <2>5, <1>0, <1>2 DEF Accepted
      <3>2. tool[d].req = None /\ tool[d].fd \in turn
        BY <2>1, <3>1 DEF Precedes
      <3>3. tool'[d].req = None /\ tool'[d].fd \in turn' /\ tool'[e].fd \notin turn'
        BY <2>2, <2>5, <3>1, <3>2, <1>0 DEF SameFor
      <3>4. tool'[e].req # "connect"
        BY <3>1 DEF None
      <3> QED
        BY <2>2, <3>3, <3>4 DEF Precedes
    <2> QED
      BY <2>3, <2>4, <2>5
  <1> QED
    BY <1>5, <1>6, <1>7, <1>8 DEF ConnInv

LEMMA AskingKeeps ==
  ASSUME NEW c \in Clients, ConnTypes, ConnTypes', ConnInv, AskingOf(c)
  PROVE  ConnInv'
PROOF
  <1>0. /\ turn' = turn /\ backlog' = backlog
        /\ \A d \in Clients : tool'[d].fd = tool[d].fd /\ (tool'[d].alive <=> tool[d].alive)
        /\ \A d \in Clients \ {c} : tool'[d].req = tool[d].req
        /\ tool[c].alive /\ tool[c].req # "connect" /\ tool'[c].req # "connect"
    BY DEF AskingOf, SameFor
  <1>1. \A k \in DOMAIN backlog : backlog[k] \in Clients \ {c}
    <2>1. \A k \in DOMAIN backlog : backlog[k] \in Clients
      BY ElementOfSeq DEF ConnTypes
    <2> QED
      BY <2>1, <1>0 DEF ConnInv, Connecting
  <1>2. Descriptors'
    BY <1>0 DEF ConnInv, Descriptors, Accepted
  <1>3. Connecting'
    <2>1. \A k \in DOMAIN backlog' : tool'[backlog'[k]].fd = -1 /\ tool'[backlog'[k]].req = "connect"
      BY <1>0, <1>1 DEF ConnInv, Connecting, Accepted
    <2>2. \A j, k \in DOMAIN backlog' : j # k => backlog'[j] # backlog'[k]
      BY <1>0 DEF ConnInv, Connecting
    <2>3. \A d \in Clients : tool'[d].alive => \/ backlog' = <<>> /\ Accepted(d)'
                                               \/ backlog' # <<>> /\ d = backlog'[Len(backlog')]
      BY <1>0 DEF ConnInv, Connecting, Accepted
    <2>4. AcceptFd \in turn' => /\ backlog' # <<>>
                                /\ \A d \in Clients : Accepted(d)' => tool'[d].fd \in turn'
      BY <1>0 DEF ConnInv, Connecting, Accepted
    <2> QED
      BY <2>1, <2>2, <2>3, <2>4 DEF Connecting, Accepted
  <1>4. OneAlive'
    BY <1>0 DEF ConnInv, OneAlive
  <1>5. InTurns'
    <2>1. SUFFICES ASSUME NEW d \in Clients, NEW e \in Clients, d # e, Precedes(d, e)
                   PROVE  Precedes(d, e)'
      BY <1>0 DEF ConnInv, InTurns, Accepted
    <2>2. d # c
      BY <2>1, <1>0 DEF Precedes
    <2> QED
      BY <2>1, <2>2, <1>0 DEF Precedes
  <1> QED
    BY <1>2, <1>3, <1>4, <1>5 DEF ConnInv

LEMMA EndingKeeps ==
  ASSUME NEW c \in Clients, ConnTypes, ConnTypes', ConnInv, Ending(c)
  PROVE  ConnInv'
PROOF
  <1>0. /\ turn' = turn /\ backlog' = backlog
        /\ \A d \in Clients : tool'[d].fd = tool[d].fd /\ tool'[d].req = tool[d].req
        /\ \A d \in Clients : tool'[d].alive => tool[d].alive
    BY DEF Ending, SameFor
  <1>1. \A k \in DOMAIN backlog : backlog[k] \in Clients
    BY ElementOfSeq DEF ConnTypes
  <1>2. Descriptors'
    BY <1>0 DEF ConnInv, Descriptors, Accepted
  <1>3. Connecting'
    <2>1. \A k \in DOMAIN backlog' : tool'[backlog'[k]].fd = -1 /\ tool'[backlog'[k]].req = "connect"
      BY <1>0, <1>1 DEF ConnInv, Connecting, Accepted
    <2>2. \A j, k \in DOMAIN backlog' : j # k => backlog'[j] # backlog'[k]
      BY <1>0 DEF ConnInv, Connecting
    <2>3. \A d \in Clients : tool'[d].alive => \/ backlog' = <<>> /\ Accepted(d)'
                                               \/ backlog' # <<>> /\ d = backlog'[Len(backlog')]
      BY <1>0 DEF ConnInv, Connecting, Accepted
    <2>4. AcceptFd \in turn' => /\ backlog' # <<>>
                                /\ \A d \in Clients : Accepted(d)' => tool'[d].fd \in turn'
      BY <1>0 DEF ConnInv, Connecting, Accepted
    <2> QED
      BY <2>1, <2>2, <2>3, <2>4 DEF Connecting, Accepted
  <1>4. OneAlive'
    BY <1>0 DEF ConnInv, OneAlive
  <1>5. InTurns'
    <2>1. SUFFICES ASSUME NEW d \in Clients, NEW e \in Clients, d # e, Precedes(d, e)
                   PROVE  Precedes(d, e)'
      BY <1>0 DEF ConnInv, InTurns, Accepted
    <2> QED
      BY <2>1, <1>0 DEF Precedes
  <1> QED
    BY <1>2, <1>3, <1>4, <1>5 DEF ConnInv

LEMMA ConnectingKeeps ==
  ASSUME NEW c \in Clients, ConnTypes, ConnTypes', ConnInv, ConnectingOf(c)
  PROVE  ConnInv'
PROOF
  <1>0. /\ turn' = turn /\ backlog' = Append(backlog, c)
        /\ \A d \in Clients : ~tool[d].alive
        /\ tool[c].fd = -1 /\ tool[c].req = None
        /\ tool'[c].fd = -1 /\ tool'[c].req = "connect" /\ tool'[c].alive
        /\ \A d \in Clients \ {c} : SameFor(d)
    BY DEF ConnectingOf
  <1>1. /\ \A d \in Clients : tool'[d].fd = tool[d].fd
        /\ \A d \in Clients : tool'[d].alive => d = c
    BY <1>0 DEF SameFor
  <1>2. /\ Len(backlog) \in Nat /\ DOMAIN backlog = 1 .. Len(backlog)
        /\ Len(backlog') = Len(backlog) + 1 /\ DOMAIN backlog' = 1 .. Len(backlog) + 1
        /\ \A k \in DOMAIN backlog : backlog'[k] = backlog[k]
        /\ backlog'[Len(backlog) + 1] = c
        /\ \A k \in DOMAIN backlog : backlog[k] \in Clients
    <2>1. backlog \in Seq(Clients)
      BY DEF ConnTypes
    <2> QED
      BY <1>0, <2>1, AppendProperties, ElementOfSeq, LenProperties
  <1>3. \A k \in DOMAIN backlog : backlog[k] # c
    BY <1>0 DEF ConnInv, Connecting, None
  <1>4. Descriptors'
    BY <1>0, <1>1 DEF ConnInv, Descriptors, Accepted
  <1>5. Connecting'
    <2>1. \A k \in DOMAIN backlog' : tool'[backlog'[k]].fd = -1 /\ tool'[backlog'[k]].req = "connect"
      BY <1>0, <1>1, <1>2, <1>3 DEF ConnInv, Connecting, Accepted, SameFor
    <2>2. \A j, k \in DOMAIN backlog' : j # k => backlog'[j] # backlog'[k]
      BY <1>2, <1>3 DEF ConnInv, Connecting
    <2>3. backlog' # <<>>
      BY <1>2
    <2>4. AcceptFd \in turn' => \A d \in Clients : Accepted(d)' => tool'[d].fd \in turn'
      BY <1>0, <1>1 DEF ConnInv, Connecting, Accepted
    <2> QED
      BY <2>1, <2>2, <2>3, <2>4, <1>1, <1>2 DEF Connecting, Accepted
  <1>6. OneAlive'
    BY <1>1 DEF OneAlive
  <1>7. InTurns'
    <2>1. SUFFICES ASSUME NEW d \in Clients, NEW e \in Clients, d # e, Accepted(d), Accepted(e),
                          Precedes(d, e)
                   PROVE  Precedes(d, e)'
      BY <1>1 DEF ConnInv, InTurns, Accepted
    <2>2. SameFor(d) /\ SameFor(e)
      BY <2>1, <1>0 DEF Accepted
    <2> QED
      BY <2>1, <2>2, <1>0 DEF Precedes, SameFor
  <1> QED
    BY <1>4, <1>5, <1>6, <1>7 DEF ConnInv

LEMMA ConnKeeps == ConnTypes /\ ConnTypes' /\ ConnInv /\ ConnStep => ConnInv'
PROOF
  BY SelectingKeeps, QuietKeeps, AcceptingKeeps, ServedKeeps, AskingKeeps, EndingKeeps,
     ConnectingKeeps DEF ConnStep

-----------------------------------------------------------------------------
(* Helpers                                                                  *)

\* accept(): the lowest descriptor that is not used is new, whatever is used.
LEMMA LowestFree ==
  ASSUME NEW used, IsFiniteSet(used)
  PROVE  LET fd == Min((0 .. Cardinality(used)) \ used) IN fd \in Nat /\ fd \notin used
PROOF
  <1>1. Cardinality(used) \in Nat
    BY FS_CardinalityType
  <1>2. Cardinality(0 .. Cardinality(used)) = Cardinality(used) + 1
    BY <1>1, FS_Interval
  <1>3. ~(0 .. Cardinality(used) \subseteq used)
    BY <1>1, <1>2, FS_Subset
  <1>4. (0 .. Cardinality(used)) \ used # {} /\ (0 .. Cardinality(used)) \ used \subseteq Nat
    BY <1>1, <1>3
  <1> QED
    BY <1>4, MinIsLeast

\* The timer queue with one timer or none
LEMMA QueueOfOne ==
  ASSUME NEW at, NEW r
  PROVE  /\ tqInsert(<<>>, at, r) = <<[at |-> at, receiver |-> r]>>
         /\ tqRemove(<<>>, r) = <<>>
         /\ tqRemove(<<[at |-> at, receiver |-> r]>>, r) = <<>>
         /\ \A s : s # r => tqRemove(<<[at |-> at, receiver |-> r]>>, s)
                              = <<[at |-> at, receiver |-> r]>>
PROOF
  <1> DEFINE q == <<[at |-> at, receiver |-> r]>>
  <1>1. tqInsert(<<>>, at, r) = q
    BY DEF tqInsert
  <1>2. \A s : tqRemove(<<>>, s) = <<>>
    BY DEF tqRemove
  <1>3. Len(q) = 1 /\ DOMAIN q = {1} /\ q[1].receiver = r
    OBVIOUS
  <1>4. \A s : s # r => {k \in DOMAIN q : q[k].receiver = s} = {}
    BY <1>3
  <1>5. {k \in DOMAIN q : q[k].receiver = r} = {1}
    BY <1>3
  <1>6. Min({1}) = 1
    BY MinIsLeast
  <1>7. RemoveAt(q, 1) = <<>>
    BY <1>3 DEF RemoveAt
  <1> QED
    BY <1>1, <1>2, <1>4, <1>5, <1>6, <1>7 DEF tqRemove

\* The operations of the ring keep its pointers inside it.
LEMMA RingTypes ==
  ASSUME NEW r \in Rings
  PROVE  /\ rbRead(r) \in Rings /\ rbClear(r) \in Rings
         /\ \A p \in Slot : rbWrite(r, p) \in Rings
         /\ \A n \in 0 .. RbSize : readn(r, n) \in Slot
         /\ \A m \in {"WRAP", "NOWRAP"} : [r EXCEPT !.mode = m] \in Rings
         /\ isEmpty(rbClear(r))
         /\ datanum(r) \in 0 .. RbSize /\ (datanum(r) = 0 <=> isEmpty(r))
PROOF
  <1> USE PbAssumption
  <1>1. r.rp \in 0 .. RbSize /\ r.wp \in 0 .. RbSize /\ r.slots \in [0 .. RbSize -> Slot]
    BY DEF Rings
  <1>2. \A x \in 0 .. RbSize : nextPoint(x) \in 0 .. RbSize
    BY DEF nextPoint, rbLen
  <1>3. rbRead(r) \in Rings
    BY <1>2 DEF rbRead, Rings
  <1>4. rbClear(r) \in Rings /\ isEmpty(rbClear(r))
    <2>1. 0 \in 0 .. RbSize
      OBVIOUS
    <2>2. [r EXCEPT !.rp = 0, !.wp = 0] \in Rings
      BY <2>1 DEF Rings
    <2>3. [r EXCEPT !.rp = 0, !.wp = 0].rp = 0 /\ [r EXCEPT !.rp = 0, !.wp = 0].wp = 0
      BY DEF Rings
    <2> QED
      BY <2>2, <2>3 DEF rbClear, isEmpty
  <1>5. ASSUME NEW p \in Slot PROVE rbWrite(r, p) \in Rings
    <2> DEFINE w == nextPoint(r.wp)
               x == IF isFull(r) THEN nextPoint(r.rp) ELSE r.rp
    <2>1. w \in 0 .. RbSize /\ x \in 0 .. RbSize
      BY <1>1, <1>2
    <2> HIDE DEF w, x
    <2>2. [r.slots EXCEPT ![r.wp] = p] \in [0 .. RbSize -> Slot]
      BY <1>1
    <2>3. [r EXCEPT !.slots[r.wp] = p, !.wp = w, !.rp = x] \in Rings
      BY <2>1, <2>2 DEF Rings
    <2> QED
      BY <2>3 DEF rbWrite, w, x
  <1>6. \A n \in 0 .. RbSize : place(r, n) \in 0 .. RbSize
    BY <1>1 DEF place, rbLen
  <1>7. NoPacket \in Slot
    BY DEF NoPacket, Slot
  <1>8. \A n \in 0 .. RbSize : readn(r, n) \in Slot
    BY <1>1, <1>6, <1>7 DEF readn
  <1>9. \A m \in {"WRAP", "NOWRAP"} : [r EXCEPT !.mode = m] \in Rings
    BY DEF Rings
  <1>10. datanum(r) \in 0 .. RbSize /\ (datanum(r) = 0 <=> isEmpty(r))
    BY <1>1 DEF datanum, isEmpty, rbLen
  <1> QED
    BY <1>3, <1>4, <1>5, <1>8, <1>9, <1>10

\* The loop of BpfAgent::receive() computes its result packet by packet.
LEMMA FilteredIs ==
  ASSUME NEW batch, Len(batch) \in Nat
  PROVE  /\ Filtered(batch)[0] = [fifo |-> fifo, ring |-> ring]
         /\ \A k \in 1 .. Len(batch) :
              Filtered(batch)[k] = Filter(Filtered(batch)[k - 1], batch[k])
PROOF
  <1> DEFINE s0 == [fifo |-> fifo, ring |-> ring]
             Is(h, n) == h = [k \in 0 .. n |-> IF k = 0 THEN s0 ELSE Filter(h[k - 1], batch[k])]
             G == {n \in Nat : \E h : Is(h, n)}
  <1>1. 0 \in G
    <2>1. Is([k \in 0 .. 0 |-> s0], 0)
      OBVIOUS
    <2> QED
      BY <2>1
  <1>2. ASSUME NEW n \in Nat, n \in G PROVE n + 1 \in G
    <2>1. PICK h : Is(h, n)
      BY <1>2
    <2> DEFINE g == [k \in 0 .. n + 1 |-> IF k <= n THEN h[k] ELSE Filter(h[n], batch[n + 1])]
    <2>2. \A k \in 0 .. n : h[k] = IF k = 0 THEN s0 ELSE Filter(h[k - 1], batch[k])
      BY <2>1
    <2>3. \A k \in 0 .. n + 1 : g[k] = IF k = 0 THEN s0 ELSE Filter(g[k - 1], batch[k])
      <3>1. SUFFICES ASSUME NEW k \in 0 .. n + 1
                     PROVE  g[k] = IF k = 0 THEN s0 ELSE Filter(g[k - 1], batch[k])
        OBVIOUS
      <3>2. CASE k = 0
        BY <3>2, <2>2
      <3>3. CASE k \in 1 .. n
        <4>1. g[k] = h[k] /\ g[k - 1] = h[k - 1]
          BY <3>3
        <4> QED
          BY <3>3, <4>1, <2>2
      <3>4. CASE k = n + 1
        <4>1. g[k] = Filter(h[n], batch[n + 1]) /\ g[k - 1] = h[n]
          BY <3>4
        <4> QED
          BY <3>4, <4>1
      <3> QED
        BY <3>2, <3>3, <3>4
    <2>4. Is(g, n + 1)
      <3> DEFINE e == [k \in 0 .. n + 1 |-> IF k = 0 THEN s0 ELSE Filter(g[k - 1], batch[k])]
      <3>1. \A k \in 0 .. n + 1 : g[k] = e[k]
        BY <2>3
      <3>2. DOMAIN g = 0 .. n + 1 /\ DOMAIN e = 0 .. n + 1
        OBVIOUS
      <3>3. g = [k \in 0 .. n + 1 |-> g[k]] /\ e = [k \in 0 .. n + 1 |-> e[k]]
        OBVIOUS
      <3>4. g = e
        <4> HIDE DEF g, e
        <4> QED
          BY <3>1, <3>3
      <3> QED
        BY <3>4
    <2> HIDE DEF g, Is
    <2> QED
      BY <2>4
  <1>3. \E h : Is(h, Len(batch))
    <2> HIDE DEF Is
    <2>1. Nat \subseteq G
      <3> HIDE DEF G
      <3> QED
        BY <1>1, <1>2, InductionOnNat
    <2> QED
      BY <2>1
  <1>4. Is(Filtered(batch), Len(batch))
    BY <1>3 DEF Filtered
  <1> QED
    BY <1>4

\* A pair of sent packets and a ring, as the loop hands it on
Pair(s) == s \in [fifo : {s.fifo}, ring : Rings]

LEMMA FilterPair ==
  ASSUME NEW s, Pair(s), NEW p \in Slot
  PROVE  /\ Pair(Filter(s, p))
         /\ Filter(s, p).ring \in {s.ring, rbWrite(s.ring, p)}
PROOF
  <1>1. rbWrite(s.ring, p) \in Rings
    BY RingTypes DEF Pair
  <1>2. CASE s.fifo # <<>> /\ Head(s.fifo) = p.n
    <2>1. Filter(s, p) = [s EXCEPT !.fifo = Tail(s.fifo)]
      BY <1>2 DEF Filter
    <2>2. PICK new : new = Tail(s.fifo)
      OBVIOUS
    <2>3. /\ [s EXCEPT !.fifo = new] \in [fifo : {new}, ring : Rings]
          /\ [s EXCEPT !.fifo = new].fifo = new /\ [s EXCEPT !.fifo = new].ring = s.ring
      BY DEF Pair
    <2> QED
      BY <2>1, <2>2, <2>3 DEF Pair
  <1>3. CASE ~(s.fifo # <<>> /\ Head(s.fifo) = p.n) /\ run
    <2>1. Filter(s, p) = [s EXCEPT !.ring = rbWrite(s.ring, p)]
      BY <1>3 DEF Filter
    <2>2. PICK new \in Rings : new = rbWrite(s.ring, p)
      BY <1>1
    <2>3. /\ [s EXCEPT !.ring = new] \in [fifo : {s.fifo}, ring : Rings]
          /\ [s EXCEPT !.ring = new].fifo = s.fifo /\ [s EXCEPT !.ring = new].ring = new
      BY DEF Pair
    <2> QED
      BY <2>1, <2>2, <2>3 DEF Pair
  <1>4. CASE ~(s.fifo # <<>> /\ Head(s.fifo) = p.n) /\ ~run
    <2>1. Filter(s, p) = s
      BY <1>4 DEF Filter
    <2> QED
      BY <2>1
  <1> QED
    BY <1>2, <1>3, <1>4

LEMMA FilteredPairs ==
  ASSUME ring \in Rings, NEW batch \in Seq(Slot)
  PROVE  \A k \in 0 .. Len(batch) : Pair(Filtered(batch)[k])
PROOF
  <1> DEFINE G == {n \in Nat : n <= Len(batch) => Pair(Filtered(batch)[n])}
  <1>0. Len(batch) \in Nat /\ \A k \in 1 .. Len(batch) : batch[k] \in Slot
    BY ElementOfSeq, LenProperties
  <1>1. 0 \in G
    BY <1>0, FilteredIs DEF Pair
  <1>2. ASSUME NEW n \in Nat, n \in G PROVE n + 1 \in G
    <2>1. SUFFICES ASSUME n + 1 <= Len(batch) PROVE Pair(Filtered(batch)[n + 1])
      OBVIOUS
    <2>2. Pair(Filtered(batch)[n])
      BY <1>0, <1>2, <2>1
    <2>3. Filtered(batch)[n + 1] = Filter(Filtered(batch)[n], batch[n + 1])
      <3>1. n + 1 \in 1 .. Len(batch) /\ (n + 1) - 1 = n
        BY <1>0, <2>1
      <3> QED
        BY <1>0, <3>1, FilteredIs
    <2>4. batch[n + 1] \in Slot
      BY <1>0, <2>1
    <2> QED
      BY <2>2, <2>3, <2>4, FilterPair
  <1>3. Nat \subseteq G
    <2> HIDE DEF G
    <2> QED
      BY <1>1, <1>2, InductionOnNat
  <1> QED
    BY <1>0, <1>3

\* The ring after the loop, before readydata() looks at it
FilteredRing(batch) == Filtered(batch)[Len(batch)].ring

\* readydata() answers the client that waits, if there is one and the ring is not empty.
LEMMA ReceivedIs ==
  ASSUME ring \in Rings, NEW batch \in Seq(Slot), readwait # Nobody => isEmpty(ring)
  PROVE  /\ FilteredRing(batch) \in Rings
         /\ \/ /\ isEmpty(FilteredRing(batch)) \/ readwait = Nobody
               /\ Received(batch).ring = FilteredRing(batch)
               /\ Received(batch).tool = tool /\ Received(batch).timers = timers
               /\ Received(batch).readwait = readwait /\ Received(batch).got = got
            \/ /\ ~isEmpty(FilteredRing(batch)) /\ readwait # Nobody
               /\ batch # <<>> /\ Head(batch) = batch[1] /\ batch[1] \in Slot
               /\ Received(batch).ring = rbRead(FilteredRing(batch))
               /\ Received(batch).tool = Answered(tool, readwait, "packet", batch[1], 0)
               /\ Received(batch).timers = tqRemove(timers, readwait)
               /\ Received(batch).readwait = Nobody
               /\ Received(batch).got = Append(got, batch[1].n)
PROOF
  <1>0. Len(batch) \in Nat /\ Len(batch) \in 0 .. Len(batch)
    BY LenProperties
  <1>a. PICK f : f = Filtered(batch)[Len(batch)]
    OBVIOUS
  <1> DEFINE s == With(f.fifo, f.ring)
  <1>1. f.ring \in Rings
    <2>1. Pair(f)
      BY <1>0, <1>a, FilteredPairs
    <2> QED
      BY <2>1 DEF Pair
  <1>2. Received(batch) = readydata(s, batch)
    BY <1>a DEF Received
  <1>3. s = [fifo |-> f.fifo, ring |-> f.ring, tool |-> tool, timers |-> timers,
             readwait |-> readwait, got |-> got]
    BY DEF With
  <1>4. batch = <<>> => f.ring = ring
    <2>1. ASSUME batch = <<>> PROVE Len(batch) = 0
      BY <2>1
    <2>2. Filtered(batch)[0].ring = ring
      BY <1>0, FilteredIs
    <2> QED
      BY <1>a, <2>1, <2>2
  <1>5. FilteredRing(batch) = f.ring
    BY <1>a DEF FilteredRing
  <1>6. batch # <<>> => Head(batch) = batch[1] /\ batch[1] \in Slot
    BY HeadTailProperties, ElementOfSeq
  <1>7. CASE isEmpty(f.ring) \/ readwait = Nobody
    <2>1. Received(batch) = s
      BY <1>2, <1>3, <1>7 DEF readydata
    <2> QED
      BY <1>1, <1>3, <1>5, <1>7, <2>1
  <1>8. CASE ~isEmpty(f.ring) /\ readwait # Nobody
    <2>1. batch # <<>>
      BY <1>4, <1>8
    <2>3. Received(batch) =
            [fifo |-> f.fifo, ring |-> rbRead(f.ring),
             tool |-> Answered(tool, readwait, "packet", Head(batch), 0),
             timers |-> tqRemove(timers, readwait), readwait |-> Nobody,
             got |-> Append(got, Head(batch).n)]
      BY <1>2, <1>3, <1>8 DEF readydata
    <2> QED
      BY <1>1, <1>5, <1>6, <1>8, <2>1, <2>3
  <1> QED
    BY <1>7, <1>8

-----------------------------------------------------------------------------
(* Types                                                                    *)

Types ==
  /\ ConnTypes
  /\ ring \in Rings /\ kbuf \in Seq(Slot) /\ got \in Seq(Int) /\ wire \in Seq(Int)
  /\ readwait \in Clients \cup {Nobody}
  /\ now \in Int /\ arrived \in Int /\ sent \in Int

LEMMA AnsweredIs ==
  ASSUME NEW t \in [Clients -> Tools], NEW c \in Clients, NEW ans \in Replies, NEW p \in Slot,
         NEW dp \in 0 .. RbSize
  PROVE  LET a == Answered(t, c, ans, p, dp)
         IN  /\ a \in [Clients -> Tools]
             /\ \A d \in Clients : d # c => a[d] = t[d]
             /\ a[c].req = None /\ a[c].fd = t[c].fd /\ (a[c].alive <=> t[c].alive)
             /\ a[c].asked = t[c].asked /\ a[c].deadline = t[c].deadline
             /\ a[c].ans = IF t[c].alive THEN ans ELSE None
PROOF
  <1> DEFINE n == IF t[c].alive THEN ans ELSE None
  <1>1. n \in Replies \cup {None} /\ t[c] \in Tools
    OBVIOUS
  <1>2. None \in Asked
    BY DEF Asked
  <1> HIDE DEF n
  <1> DEFINE r == [t[c] EXCEPT !.req = None, !.ans = n, !.packet = p, !.dp = dp]
  <1>3. \A x \in Tools :
          LET y == [x EXCEPT !.req = None, !.ans = n, !.packet = p, !.dp = dp]
          IN  /\ y \in Tools
              /\ y.req = None /\ y.fd = x.fd /\ (y.alive <=> x.alive)
              /\ y.asked = x.asked /\ y.deadline = x.deadline /\ y.ans = n
    BY <1>1, <1>2 DEF Tools
  <1>4. Answered(t, c, ans, p, dp) = [t EXCEPT ![c] = r]
    BY <1>1 DEF Answered, n
  <1>5. /\ r \in Tools
        /\ r.req = None /\ r.fd = t[c].fd /\ (r.alive <=> t[c].alive)
        /\ r.asked = t[c].asked /\ r.deadline = t[c].deadline /\ r.ans = n
    BY <1>1, <1>3
  <1> HIDE DEF r
  <1>6. /\ [t EXCEPT ![c] = r] \in [Clients -> Tools]
        /\ [t EXCEPT ![c] = r][c] = r
        /\ \A d \in Clients : d # c => [t EXCEPT ![c] = r][d] = t[d]
    BY <1>5
  <1> QED
    BY <1>4, <1>5, <1>6 DEF n

\* The response to a request: the server goes on, or its client is gone and so is it
Replied(t, c) ==
  /\ tool' \in [Clients -> Tools] /\ IsFiniteSet(leaked')
  /\ \A d \in Clients : d # c => tool'[d] = t[d]
  /\ \/ tool'[c] = NoTool /\ ~t[c].alive
     \/ /\ t[c].alive /\ tool'[c].alive /\ tool'[c].req = None /\ tool'[c].ans \in Replies
        /\ tool'[c].fd = t[c].fd

LEMMA NoToolType == NoTool \in Tools
PROOF
  <1>1. NoPacket \in Slot
    BY DEF NoPacket, Slot
  <1>2. 0 \in 0 .. RbSize /\ -1 \in Int
    BY PbAssumption
  <1> QED
    BY <1>1, <1>2 DEF NoTool, Tools, Asked

LEMMA RespondsIs ==
  ASSUME NEW t \in [Clients -> Tools], NEW c \in Clients, NEW ans \in Replies, NEW p \in Slot,
         NEW dp \in 0 .. RbSize, IsFiniteSet(leaked), Responds(t, c, ans, p, dp)
  PROVE  /\ Replied(t, c)
         /\ tool'[c].ans \in {ans, None}
PROOF
  <1>1. CASE t[c].alive
    <2>1. tool' = Answered(t, c, ans, p, dp) /\ leaked' = leaked
      BY <1>1 DEF Responds
    <2> QED
      BY <1>1, <2>1, AnsweredIs DEF Replied
  <1>2. CASE ~t[c].alive
    <2>1. tool' = [t EXCEPT ![c] = NoTool] /\ leaked' = leaked \cup {t[c].fd}
      BY <1>2 DEF Responds
    <2>2. /\ [t EXCEPT ![c] = NoTool] \in [Clients -> Tools]
          /\ [t EXCEPT ![c] = NoTool][c] = NoTool
          /\ \A d \in Clients : d # c => [t EXCEPT ![c] = NoTool][d] = t[d]
      BY NoToolType
    <2>3. IsFiniteSet(leaked')
      BY <2>1, FS_AddElement
    <2>4. NoTool.ans = None
      BY DEF NoTool
    <2> QED
      BY <1>2, <2>1, <2>2, <2>3, <2>4 DEF Replied
  <1> QED
    BY <1>1, <1>2

-----------------------------------------------------------------------------
(* The client that waits                                                    *)

TimersOf(t, r) ==
  IF r = Nobody \/ t[r].deadline = 0 THEN <<>> ELSE <<[at |-> t[r].deadline, receiver |-> r]>>

\* The parts of OneWaiter, and that nobody has an answer before its request is read
Asking ==
  /\ \A c \in Clients : tool[c].ans # None => tool[c].alive /\ tool[c].req = None
  /\ readwait # Nobody => tool[readwait].ans = None

Told ==
  \A c \in Clients : tool[c].alive /\ tool[c].asked = "read" /\ tool[c].req = None
                       /\ tool[c].ans = None => readwait = c

Reader ==
  /\ readwait # Nobody => isEmpty(ring) /\ Accepted(readwait) /\ tool[readwait].req = None
  /\ timers = TimersOf(tool, readwait)

WaitInv == Asking /\ Told /\ Reader

DueNow == current \in Int /\ (current # -1 => turn = {} /\ tqDue(timers, current) /\ current <= now)

LEMMA WaitIsOneWaiter == WaitInv => OneWaiter
PROOF
  BY DEF WaitInv, Told, Reader, OneWaiter, TimersOf, Alive, Accepted

\* The timers are expired at a time that has come, and only while one is due.
LEMMA DueKeeps ==
  ASSUME DueNow, now \in Int,
         \/ \E ready : Selects(ready)
         \/ \E fd, q : Notifies(fd, q)
         \/ \E c : Expires(c)
         \/ UNCHANGED cmVars
         \/ Tick
  PROVE  DueNow' /\ now' \in Int /\ now <= now'
PROOF
  <1>1. CASE \E ready : Selects(ready)
    BY <1>1 DEF Selects, DueNow
  <1>2. CASE \E fd, q : Notifies(fd, q)
    BY <1>2 DEF Notifies, DueNow
  <1>3. CASE \E c : Expires(c)
    BY <1>3 DEF Expires, DueNow
  <1>4. CASE UNCHANGED cmVars
    BY <1>4 DEF cmVars, DueNow
  <1>5. CASE Tick
    BY <1>5, PbAssumption DEF Tick, DueNow
  <1> QED
    BY <1>1, <1>2, <1>3, <1>4, <1>5

\* The server answers a request of c, or finds c gone, and nobody waits but who did.
LEMMA AnswerStep ==
  ASSUME NEW c \in Clients, Types, WaitInv, tool[c].req # None, Replied(tool, c),
         timers' = timers, readwait' = readwait, isEmpty(ring) => isEmpty(ring')
  PROVE  WaitInv'
PROOF
  <1>1. c # readwait
    BY PbAssumption DEF WaitInv, Reader, Nobody
  <1>2. tool'[c] = NoTool => ~tool'[c].alive /\ tool'[c].ans = None
    BY DEF NoTool
  <1>3. readwait # Nobody => tool'[readwait] = tool[readwait]
    BY <1>1 DEF Replied, Types
  <1>4. Asking'
    BY <1>1, <1>2, <1>3 DEF Replied, WaitInv, Asking
  <1>5. Told'
    BY <1>1, <1>2 DEF Replied, WaitInv, Told, Replies, None
  <1>6. Reader'
    BY <1>3 DEF WaitInv, Reader, TimersOf, Accepted
  <1> QED
    BY <1>4, <1>5, <1>6 DEF WaitInv

\* What Serves and Replied say of the connections
LEMMA ServeStep ==
  ASSUME NEW c \in Clients, Types, NEW t, NEW request \in Asked \ {None}, NEW q,
         Serves(c, request, q), Replied(t, c), t \in [Clients -> Tools],
         \A d \in Clients : t[d].fd = tool[d].fd /\ t[d].req = tool[d].req
                              /\ (t[d].alive <=> tool[d].alive)
  PROVE  ConnTypes' /\ ServedOf(c) /\ timers' = q /\ tool[c].req # None
PROOF
  <1>1. /\ Least(tool[c].fd) /\ turn' = turn \ {tool[c].fd} /\ timers' = q
        /\ tool[c].req = request /\ backlog' = backlog
    BY DEF Serves, Notifies, Least
  <1>2. ConnTypes'
    BY <1>1 DEF Types, ConnTypes, Replied
  <1>3. \A d \in Clients \ {c} : SameFor(d)
    BY DEF Replied, SameFor
  <1>4. \/ tool'[c] = NoTool
        \/ tool'[c].req = None /\ tool'[c].fd = tool[c].fd /\ (tool'[c].alive <=> tool[c].alive)
    BY DEF Replied
  <1> QED
    BY <1>1, <1>2, <1>3, <1>4 DEF ServedOf

-----------------------------------------------------------------------------
(* The steps of the server                                                  *)

W == Types /\ ConnInv /\ WaitInv /\ DueNow

Goal == Types' /\ ConnStep /\ WaitInv'

\* The part of Types that is not about connections
Stores ==
  /\ ring \in Rings /\ kbuf \in Seq(Slot) /\ got \in Seq(Int) /\ wire \in Seq(Int)
  /\ readwait \in Clients \cup {Nobody}
  /\ now \in Int /\ arrived \in Int /\ sent \in Int

LEMMA SimpleStep ==
  ASSUME NEW c \in Clients, W, NEW r \in Asked \ {None}, Simple(c, r),
         ring' \in Rings, isEmpty(ring) => isEmpty(ring'), kbuf' \in {kbuf, <<>>}
  PROVE  Goal
PROOF
  <1>1. Serves(c, r, timers) /\ Responds(tool, c, "ok", NoPacket, 0)
    BY DEF Simple
  <1>2. "ok" \in Replies /\ NoPacket \in Slot /\ 0 \in 0 .. RbSize
    BY PbAssumption DEF Replies, NoPacket, Slot
  <1>3. tool \in [Clients -> Tools] /\ IsFiniteSet(leaked)
    BY DEF W, Types, ConnTypes
  <1>4. Replied(tool, c)
    BY <1>1, <1>2, <1>3, RespondsIs
  <1>5. ConnTypes' /\ ServedOf(c) /\ timers' = timers /\ tool[c].req # None
    BY <1>1, <1>3, <1>4, ServeStep DEF W
  <1>6. WaitInv'
    BY <1>4, <1>5, AnswerStep DEF W, Simple
  <1>7. Stores'
    <2>1. kbuf' \in Seq(Slot)
      <3>1. kbuf \in Seq(Slot) /\ <<>> \in Seq(Slot)
        BY EmptySeq DEF W, Types
      <3> QED
        BY <3>1
    <2> QED
      BY <2>1 DEF W, Types, Stores, Simple, Serves, Notifies
  <1> QED
    BY <1>5, <1>6, <1>7 DEF Goal, Types, Stores, ConnStep

LEMMA SimpleSteps ==
  ASSUME NEW c \in Clients, W,
         \/ connectRequest(c) \/ wrapRequest(c) \/ nowrapRequest(c)
         \/ captureRequest(c) \/ stopRequest(c)
  PROVE  Goal
PROOF
  <1>0. ring \in Rings
    BY DEF W, Types
  <1>1. ASSUME NEW r, Simple(c, r) PROVE r \in Asked
    BY <1>1 DEF Simple, Serves, W, Types, ConnTypes, Tools
  <1>2. /\ "connect" # None /\ "status" # None /\ "wrap" # None /\ "nowrap" # None
        /\ "capture" # None /\ "stop" # None
    BY DEF None
  <1>3. CASE connectRequest(c)
    <2>1. PICK r \in {"connect", "status"} : Simple(c, r)
      BY <1>3 DEF connectRequest
    <2> QED
      BY <1>0, <1>1, <1>2, <1>3, <2>1, SimpleStep DEF connectRequest
  <1>4. ASSUME NEW m \in {"WRAP", "NOWRAP"}, ring' = [ring EXCEPT !.mode = m]
        PROVE  ring' \in Rings /\ (isEmpty(ring) => isEmpty(ring'))
    <2>1. ring' \in Rings
      BY <1>0, <1>4, RingTypes
    <2>2. ring'.wp = ring.wp /\ ring'.rp = ring.rp
      BY <1>0, <1>4 DEF Rings
    <2> QED
      BY <2>1, <2>2 DEF isEmpty
  <1>5. CASE wrapRequest(c)
    <2>1. Simple(c, "wrap") /\ ring' = [ring EXCEPT !.mode = "WRAP"] /\ kbuf' = kbuf
      BY <1>5 DEF wrapRequest
    <2> QED
      BY <1>1, <1>2, <1>4, <2>1, SimpleStep
  <1>6. CASE nowrapRequest(c)
    <2>1. Simple(c, "nowrap") /\ ring' = [ring EXCEPT !.mode = "NOWRAP"] /\ kbuf' = kbuf
      BY <1>6 DEF nowrapRequest
    <2> QED
      BY <1>1, <1>2, <1>4, <2>1, SimpleStep
  <1>7. CASE captureRequest(c)
    <2>1. Simple(c, "capture") /\ ring' = ring /\ kbuf' = <<>>
      BY <1>7 DEF captureRequest
    <2> QED
      BY <1>0, <1>1, <1>2, <2>1, SimpleStep
  <1>8. CASE stopRequest(c)
    <2>1. Simple(c, "stop") /\ ring' = ring /\ kbuf' = kbuf
      BY <1>8 DEF stopRequest
    <2> QED
      BY <1>0, <1>1, <1>2, <2>1, SimpleStep
  <1> QED
    BY <1>3, <1>5, <1>6, <1>7, <1>8

\* A request whose answer leaves the readers alone
LEMMA LoneStep ==
  ASSUME NEW c \in Clients, W, NEW r \in Asked \ {None}, Serves(c, r, timers),
         NEW ans \in Replies, NEW p \in Slot, NEW dp \in 0 .. RbSize,
         Responds(tool, c, ans, p, dp), readwait' = readwait, isEmpty(ring) => isEmpty(ring'),
         Stores'
  PROVE  Goal
PROOF
  <1>1. tool \in [Clients -> Tools] /\ IsFiniteSet(leaked)
    BY DEF W, Types, ConnTypes
  <1>2. Replied(tool, c)
    BY <1>1, RespondsIs
  <1>3. ConnTypes' /\ ServedOf(c) /\ timers' = timers /\ tool[c].req # None
    BY <1>1, <1>2, ServeStep DEF W
  <1>4. WaitInv'
    BY <1>2, <1>3, AnswerStep DEF W
  <1> QED
    BY <1>3, <1>4 DEF Goal, Types, Stores, ConnStep

LEMMA ReqAsked == W => \A c \in Clients : tool[c].req \in Asked
PROOF
  BY DEF W, Types, ConnTypes, Tools

LEMMA WriteStep == ASSUME NEW c \in Clients, W, writeRequest(c) PROVE Goal
PROOF
  <1>1. Serves(c, "write", timers) /\ Responds(tool, c, "ok", NoPacket, 0)
    BY DEF writeRequest
  <1>2. "write" \in Asked \ {None}
    BY <1>1, ReqAsked DEF Serves, None
  <1>3. "ok" \in Replies /\ NoPacket \in Slot /\ 0 \in 0 .. RbSize
    BY PbAssumption DEF Replies, NoPacket, Slot
  <1>4. Stores'
    <2>1. -(sent + 1) \in Int /\ sent + 1 \in Int /\ wire \in Seq(Int)
      BY DEF W, Types
    <2>2. Append(wire, -(sent + 1)) \in Seq(Int)
      BY <2>1, AppendProperties
    <2> QED
      BY <2>1, <2>2 DEF writeRequest, Serves, Notifies, Stores, W, Types
  <1>5. readwait' = readwait /\ ring' = ring
    BY DEF writeRequest
  <1>6. isEmpty(ring) => isEmpty(ring')
    BY <1>5
  <1> QED
    BY <1>1, <1>2, <1>3, <1>4, <1>5, <1>6, LoneStep

LEMMA DumpStep == ASSUME NEW c \in Clients, W, dumpRequest(c) PROVE Goal
PROOF
  <1> DEFINE next == tool[c].dp + 1
             ans == IF isEmpty(ring) THEN "empty" ELSE "dumped"
             dp == IF isEmpty(ring) \/ next >= datanum(ring) THEN 0 ELSE next
             p == readn(ring, tool[c].dp)
  <1>1. Serves(c, "dump", timers) /\ Responds(tool, c, ans, p, dp)
    BY DEF dumpRequest
  <1>2. "dump" \in Asked \ {None}
    BY <1>1, ReqAsked DEF Serves, None
  <1>3. ans \in Replies
    BY DEF Replies
  <1>4. ring \in Rings /\ tool[c].dp \in 0 .. RbSize
    BY DEF W, Types, ConnTypes, Tools
  <1>5. p \in Slot
    BY <1>4, RingTypes
  <1>6. dp \in 0 .. RbSize
    <2>1. datanum(ring) \in 0 .. RbSize
      BY <1>4, RingTypes
    <2> QED
      BY <1>4, <2>1, PbAssumption
  <1>7. Stores' /\ readwait' = readwait /\ ring' = ring
    BY DEF dumpRequest, Serves, Notifies, Stores, W, Types
  <1>8. isEmpty(ring) => isEmpty(ring')
    BY <1>7
  <1> HIDE DEF ans, dp, p
  <1> QED
    BY <1>1, <1>2, <1>3, <1>5, <1>6, <1>7, <1>8, LoneStep

\* The timers of the client that waits, and of none
LEMMA TimersAre ==
  ASSUME W, NEW c \in Clients
  PROVE  /\ readwait = Nobody => timers = <<>>
         /\ tqRemove(timers, c) = IF readwait = c THEN <<>> ELSE timers
         /\ readwait # Nobody => tqRemove(timers, readwait) = <<>>
PROOF
  <1>1. timers = TimersOf(tool, readwait)
    BY DEF W, WaitInv, Reader
  <1>2. c # Nobody
    BY PbAssumption DEF Nobody
  <1>3. CASE timers = <<>>
    <2>1. \A s : tqRemove(<<>>, s) = <<>>
      BY QueueOfOne
    <2> QED
      BY <1>3, <2>1
  <1>4. CASE timers # <<>>
    <2>1. PICK at : timers = <<[at |-> at, receiver |-> readwait]>>
      BY <1>1, <1>4 DEF TimersOf
    <2>2. tqRemove(timers, readwait) = <<>> /\ \A s : s # readwait => tqRemove(timers, s) = timers
      BY <2>1, QueueOfOne
    <2>3. readwait # Nobody
      BY <1>1, <1>4 DEF TimersOf
    <2> QED
      BY <2>2, <2>3
  <1> QED
    BY <1>3, <1>4

\* Nobody else waits when the server reads a request to read: a client that waits and has
\* a successor has gone, and the server finds that out before it reads the request.
LEMMA NoOtherReader ==
  ASSUME NEW c \in Clients, W, tool[c].fd \in turn, tool[c].req = "read"
  PROVE  readwait = Nobody /\ Accepted(c)
PROOF
  <1>1. Accepted(c)
    BY DEF W, ConnInv, Descriptors, Accepted, BpfFd, AcceptFd
  <1>2. readwait # c
    BY PbAssumption DEF W, WaitInv, Reader, Nobody, None
  <1>3. ASSUME readwait # Nobody PROVE FALSE
    <2>1. readwait \in Clients /\ Accepted(readwait) /\ tool[readwait].req = None
      BY <1>3 DEF W, Types, WaitInv, Reader
    <2>2. Precedes(readwait, c) \/ Precedes(c, readwait)
      BY <1>1, <1>2, <2>1 DEF W, ConnInv, InTurns
    <2> QED
      BY <2>1, <2>2 DEF Precedes, None
  <1> QED
    BY <1>1, <1>3

LEMMA WaitStep ==
  ASSUME NEW c \in Clients, W, Serves(c, "read", WithDeadline(c)), isEmpty(ring), ring' = ring,
         readwait' = c, tool' = [tool EXCEPT ![c].req = None], leaked' = leaked, Stores'
  PROVE  Goal
PROOF
  <1>1. /\ tool[c].req = "read" /\ tool[c].fd \in turn /\ timers' = WithDeadline(c)
        /\ backlog' = backlog /\ turn' = turn \ {tool[c].fd} /\ Least(tool[c].fd)
    BY DEF Serves, Notifies, Least
  <1>2. readwait = Nobody /\ Accepted(c) /\ timers = <<>>
    BY <1>1, NoOtherReader, TimersAre
  <1>3. \A x \in Tools : LET y == [x EXCEPT !.req = None]
                         IN  /\ y \in Tools /\ y.req = None /\ y.fd = x.fd
                             /\ (y.alive <=> x.alive) /\ y.ans = x.ans /\ y.deadline = x.deadline
    BY DEF Tools, Asked
  <1>4. tool \in [Clients -> Tools] /\ tool[c] \in Tools
    BY DEF W, Types, ConnTypes
  <1>5. /\ tool' \in [Clients -> Tools] /\ \A d \in Clients : d # c => tool'[d] = tool[d]
        /\ tool'[c].req = None /\ tool'[c].fd = tool[c].fd /\ tool'[c].ans = tool[c].ans
        /\ (tool'[c].alive <=> tool[c].alive) /\ tool'[c].deadline = tool[c].deadline
    <2>1. PICK y \in Tools : y = [tool[c] EXCEPT !.req = None]
      BY <1>3, <1>4
    <2>2. tool' = [tool EXCEPT ![c] = y]
      BY <2>1
    <2>3. /\ y.req = None /\ y.fd = tool[c].fd /\ (y.alive <=> tool[c].alive)
          /\ y.ans = tool[c].ans /\ y.deadline = tool[c].deadline
      BY <1>3, <1>4, <2>1
    <2>4. tool' \in [Clients -> Tools] /\ tool'[c] = y /\ \A d \in Clients : d # c => tool'[d] = tool[d]
      BY <1>4, <2>2
    <2> QED
      BY <2>3, <2>4
  <1>6. ConnTypes' /\ ServedOf(c)
    <2>1. ConnTypes'
      BY <1>1, <1>5 DEF W, Types, ConnTypes
    <2>2. \A d \in Clients \ {c} : SameFor(d)
      BY <1>5 DEF SameFor
    <2> QED
      BY <1>1, <1>5, <2>1, <2>2 DEF ServedOf, None
  <1>7. Asking'
    <2>1. tool[c].ans = None
      BY <1>1 DEF W, WaitInv, Asking, None
    <2> QED
      BY <1>5, <2>1 DEF W, WaitInv, Asking
  <1>8. Told'
    <2>1. \A d \in Clients : d # Nobody
      BY PbAssumption DEF Nobody
    <2> QED
      BY <1>2, <1>5, <2>1 DEF W, WaitInv, Told
  <1>9. Reader'
    <2>1. c # Nobody
      BY PbAssumption DEF Nobody
    <2>2. timers' = TimersOf(tool', c)
      BY <1>1, <1>2, <1>5, <2>1, QueueOfOne DEF WithDeadline, TimersOf
    <2> QED
      BY <1>2, <1>5, <2>2 DEF Reader, Accepted
  <1> QED
    BY <1>6, <1>7, <1>8, <1>9 DEF Goal, Types, Stores, ConnStep, WaitInv

LEMMA ReadStep == ASSUME NEW c \in Clients, W, readRequest(c) PROVE Goal
PROOF
  <1> DEFINE p == readn(ring, 0)
  <1>1. ring \in Rings /\ got \in Seq(Int) /\ 0 \in 0 .. RbSize
    BY PbAssumption DEF W, Types
  <1>2. p \in Slot /\ rbRead(ring) \in Rings
    BY <1>1, RingTypes
  <1>3. "timeout" \in Replies /\ "packet" \in Replies /\ NoPacket \in Slot
    BY DEF Replies, NoPacket, Slot
  <1>4. \A q : Serves(c, "read", q) => "read" \in Asked \ {None} /\ readwait # c
    <2>1. c # Nobody
      BY PbAssumption DEF Nobody
    <2> QED
      BY <2>1, ReqAsked DEF Serves, None, W, WaitInv, Reader
  <1> HIDE DEF p
  <1>5. CASE /\ isEmpty(ring)
             /\ Serves(c, "read", WithDeadline(c))
             /\ readwait' = c
             /\ tool' = [tool EXCEPT ![c].req = None]
             /\ UNCHANGED <<ring, got, leaked>>
    <2>1. Stores'
      BY <1>5 DEF readRequest, Serves, Notifies, Stores, W, Types
    <2> QED
      BY <1>5, <2>1, WaitStep
  <1>6. CASE /\ ~isEmpty(ring) /\ Late(p, tool[c].deadline)
             /\ Serves(c, "read", timers)
             /\ Responds(tool, c, "timeout", NoPacket, 0)
             /\ UNCHANGED <<readwait, ring, got>>
    <2>1. Stores'
      BY <1>6 DEF readRequest, Serves, Notifies, Stores, W, Types
    <2> QED
      BY <1>1, <1>3, <1>4, <1>6, <2>1, LoneStep
  <1>7. CASE /\ ~isEmpty(ring) /\ ~Late(p, tool[c].deadline)
             /\ Serves(c, "read", tqRemove(timers, c))
             /\ Responds(tool, c, "packet", p, 0)
             /\ ring' = rbRead(ring)
             /\ got' = Append(got, p.n)
             /\ UNCHANGED readwait
    <2>1. Stores'
      <3>1. p.n \in Int
        BY <1>2 DEF Slot
      <3>2. Append(got, p.n) \in Seq(Int)
        BY <1>1, <3>1, AppendProperties
      <3> QED
        BY <1>2, <1>7, <3>2 DEF readRequest, Serves, Notifies, Stores, W, Types
    <2>2. tqRemove(timers, c) = timers
      BY <1>4, <1>7, TimersAre
    <2> QED
      BY <1>1, <1>2, <1>3, <1>4, <1>7, <2>1, <2>2, LoneStep
  <1> QED
    BY <1>5, <1>6, <1>7 DEF readRequest, p

\* The client that waits is answered, and nobody waits any more.
LEMMA HandedIs ==
  ASSUME W, readwait # Nobody, NEW ans \in Replies, NEW p \in Slot,
         NEW t, t = Answered(tool, readwait, ans, p, 0)
  PROVE  /\ readwait \in Clients /\ t \in [Clients -> Tools]
         /\ \A d \in Clients : /\ t[d].fd = tool[d].fd /\ t[d].req = tool[d].req
                               /\ t[d].alive <=> tool[d].alive
         /\ \A d \in Clients : t[d].ans # None => t[d].alive /\ t[d].req = None
         /\ \A d \in Clients : ~(/\ t[d].alive /\ t[d].asked = "read" /\ t[d].req = None
                                 /\ t[d].ans = None)
         /\ tqRemove(timers, readwait) = <<>>
PROOF
  <1>1. /\ readwait \in Clients /\ tool \in [Clients -> Tools] /\ 0 \in 0 .. RbSize
        /\ tool[readwait].req = None
    BY PbAssumption DEF W, Types, ConnTypes, WaitInv, Reader
  <1>2. PICK r \in Clients : r = readwait
    BY <1>1
  <1>3. /\ t \in [Clients -> Tools]
        /\ \A d \in Clients : d # r => t[d] = tool[d]
        /\ t[r].req = None /\ t[r].fd = tool[r].fd /\ (t[r].alive <=> tool[r].alive)
        /\ t[r].ans = IF tool[r].alive THEN ans ELSE None
    BY <1>1, <1>2, AnsweredIs
  <1>4. ans # None
    BY DEF Replies, None
  <1>5. \A d \in Clients : t[d].ans # None => t[d].alive /\ t[d].req = None
    BY <1>2, <1>3 DEF W, WaitInv, Asking
  <1>6. \A d \in Clients : ~(t[d].alive /\ t[d].asked = "read" /\ t[d].req = None /\ t[d].ans = None)
    BY <1>2, <1>3, <1>4 DEF W, WaitInv, Told
  <1>7. tqRemove(timers, readwait) = <<>>
    BY <1>1, TimersAre
  <1> QED
    BY <1>1, <1>2, <1>3, <1>5, <1>6, <1>7

LEMMA LostStep == ASSUME NEW c \in Clients, W, connectionLost(c) PROVE Goal
PROOF
  <1>1. /\ Least(tool[c].fd) /\ turn' = turn \ {tool[c].fd} /\ timers' = tqRemove(timers, c)
        /\ backlog' = backlog /\ ~tool[c].alive
        /\ readwait' = IF readwait = c THEN Nobody ELSE readwait
    BY DEF connectionLost, Serves, Notifies, Least
  <1>2. /\ tool \in [Clients -> Tools] /\ tool' = [tool EXCEPT ![c] = NoTool]
        /\ leaked' = leaked /\ ring' = ring
    BY DEF connectionLost, W, Types, ConnTypes
  <1>3. /\ tool' \in [Clients -> Tools] /\ tool'[c] = NoTool
        /\ \A d \in Clients : d # c => tool'[d] = tool[d]
    BY <1>2, NoToolType
  <1>4. ConnTypes'
    BY <1>1, <1>2, <1>3 DEF W, Types, ConnTypes
  <1>5. ServedOf(c)
    BY <1>1, <1>3 DEF ServedOf, SameFor
  <1>6. NoTool.ans = None /\ ~NoTool.alive
    BY DEF NoTool
  <1>7. timers' = IF readwait = c THEN <<>> ELSE timers
    BY <1>1, TimersAre
  <1>8. Asking'
    BY <1>1, <1>3, <1>6 DEF W, WaitInv, Asking, Types
  <1>9. Told'
    BY <1>1, <1>3, <1>6 DEF W, WaitInv, Told
  <1>10. Reader'
    <2>1. CASE readwait = c
      BY <1>1, <1>7, <2>1 DEF Reader, TimersOf
    <2>2. CASE readwait # c
      <3>1. readwait # Nobody => tool'[readwait] = tool[readwait]
        BY <1>3, <2>2 DEF W, Types
      <3> QED
        BY <1>1, <1>2, <1>7, <2>2, <3>1 DEF W, WaitInv, Reader, TimersOf, Accepted
    <2> QED
      BY <2>1, <2>2
  <1>11. Stores'
    BY <1>1 DEF W, Types, Stores, connectionLost, Serves, Notifies
  <1> QED
    BY <1>4, <1>5, <1>8, <1>9, <1>10, <1>11 DEF Goal, Types, Stores, ConnStep, WaitInv

LEMMA TimeoutStep == ASSUME NEW c \in Clients, W, timeout(c) PROVE Goal /\ readwait = c
PROOF
  <1>1. /\ c = Head(timers).receiver /\ timers' = Tail(timers) /\ turn' = turn /\ timers # <<>>
        /\ readwait' = Nobody /\ tool' = Answered(tool, c, "timeout", NoPacket, 0)
        /\ backlog' = backlog /\ leaked' = leaked /\ ring' = ring
    BY DEF timeout, Expires, W, DueNow, tqDue
  <1>2. readwait = c /\ Tail(timers) = <<>>
    <2>1. timers = TimersOf(tool, readwait)
      BY DEF W, WaitInv, Reader
    <2>2. PICK at : timers = <<[at |-> at, receiver |-> readwait]>>
      BY <1>1, <2>1 DEF TimersOf
    <2> QED
      BY <1>1, <2>2
  <1>3. "timeout" \in Replies /\ NoPacket \in Slot
    BY DEF Replies, NoPacket, Slot
  <1>4. readwait # Nobody
    BY <1>2, PbAssumption DEF Nobody
  <1>5. /\ tool' \in [Clients -> Tools]
        /\ \A d \in Clients : SameFor(d)
        /\ \A d \in Clients : tool'[d].ans # None => tool'[d].alive /\ tool'[d].req = None
        /\ \A d \in Clients : ~(/\ tool'[d].alive /\ tool'[d].asked = "read"
                                /\ tool'[d].req = None /\ tool'[d].ans = None)
    BY <1>1, <1>2, <1>3, <1>4, HandedIs DEF SameFor
  <1>6. ConnTypes' /\ ConnStep
    BY <1>1, <1>5 DEF W, Types, ConnTypes, ConnStep, Quiet
  <1>7. WaitInv'
    BY <1>1, <1>2, <1>5 DEF WaitInv, Asking, Told, Reader, TimersOf
  <1>8. Stores'
    BY <1>1 DEF W, Types, Stores, timeout, Expires
  <1> QED
    BY <1>2, <1>6, <1>7, <1>8 DEF Goal, Types, Stores

LEMMA ReceiveStep == ASSUME W, receive PROVE Goal
PROOF
  <1> DEFINE s == Received(kbuf)
  <1>1. /\ turn' = turn \ {BpfFd} /\ timers' = s.timers /\ ring' = s.ring /\ tool' = s.tool
        /\ readwait' = s.readwait /\ got' = s.got /\ kbuf' = <<>>
        /\ UNCHANGED <<backlog, leaked, wire, now, arrived, sent>>
    BY DEF receive, Notifies
  <1>2. /\ ring \in Rings /\ kbuf \in Seq(Slot) /\ got \in Seq(Int) /\ <<>> \in Seq(Slot)
        /\ readwait # Nobody => isEmpty(ring)
    BY EmptySeq DEF W, Types, WaitInv, Reader
  <1>3. PICK r \in Rings : r = FilteredRing(kbuf)
    BY <1>2, ReceivedIs
  <1>4. rbRead(r) \in Rings
    BY RingTypes
  <1> HIDE DEF s
  <1>5. CASE /\ isEmpty(r) \/ readwait = Nobody
             /\ s.ring = r /\ s.tool = tool /\ s.timers = timers
             /\ s.readwait = readwait /\ s.got = got
    <2>1. ConnTypes' /\ ConnStep
      BY <1>1, <1>5 DEF W, Types, ConnTypes, ConnStep, Quiet, SameFor
    <2>2. WaitInv'
      BY <1>1, <1>5 DEF W, WaitInv, Asking, Told, Reader, TimersOf, Accepted
    <2>3. Stores'
      BY <1>1, <1>2, <1>5 DEF W, Types, Stores
    <2> QED
      BY <2>1, <2>2, <2>3 DEF Goal, Types, Stores
  <1>6. CASE /\ readwait # Nobody
             /\ kbuf[1] \in Slot
             /\ s.ring = rbRead(r) /\ s.tool = Answered(tool, readwait, "packet", kbuf[1], 0)
             /\ s.timers = tqRemove(timers, readwait) /\ s.readwait = Nobody
             /\ s.got = Append(got, kbuf[1].n)
    <2>1. "packet" \in Replies
      BY DEF Replies
    <2>2. /\ tool' \in [Clients -> Tools]
          /\ \A d \in Clients : SameFor(d)
          /\ \A d \in Clients : tool'[d].ans # None => tool'[d].alive /\ tool'[d].req = None
          /\ \A d \in Clients : ~(/\ tool'[d].alive /\ tool'[d].asked = "read"
                                  /\ tool'[d].req = None /\ tool'[d].ans = None)
          /\ tqRemove(timers, readwait) = <<>>
      BY <1>1, <1>6, <2>1, HandedIs DEF SameFor
    <2>3. ConnTypes' /\ ConnStep
      BY <1>1, <2>2 DEF W, Types, ConnTypes, ConnStep, Quiet
    <2>4. WaitInv'
      BY <1>1, <1>6, <2>2 DEF WaitInv, Asking, Told, Reader, TimersOf
    <2>5. Stores'
      <3>1. kbuf[1].n \in Int
        BY <1>6 DEF Slot
      <3>2. Append(got, kbuf[1].n) \in Seq(Int)
        BY <1>2, <3>1, AppendProperties
      <3> QED
        BY <1>1, <1>2, <1>4, <1>6, <3>2 DEF W, Types, Stores
    <2> QED
      BY <2>3, <2>4, <2>5 DEF Goal, Types, Stores
  <1> QED
    BY <1>2, <1>3, <1>5, <1>6, ReceivedIs DEF s

LEMMA ClearStep == ASSUME NEW c \in Clients, W, clearRequest(c) PROVE Goal
PROOF
  <1>a. PICK s : s = IF fifo = <<>> THEN With(fifo, ring) ELSE Received(kbuf)
    OBVIOUS
  <1>1. /\ Serves(c, "clear", s.timers) /\ Responds(s.tool, c, "ok", NoPacket, 0)
        /\ ring' = rbClear(s.ring) /\ readwait' = s.readwait /\ got' = s.got
        /\ kbuf' = <<>> /\ wire' = wire /\ sent' = sent
    BY <1>a DEF clearRequest
  <1>2. /\ ring \in Rings /\ kbuf \in Seq(Slot) /\ got \in Seq(Int) /\ <<>> \in Seq(Slot)
        /\ readwait # Nobody => isEmpty(ring)
        /\ tool \in [Clients -> Tools] /\ IsFiniteSet(leaked)
    BY EmptySeq DEF W, Types, ConnTypes, WaitInv, Reader
  <1>3. "clear" \in Asked \ {None} /\ tool[c].req # None
    BY <1>1, ReqAsked DEF Serves, None
  <1>4. "ok" \in Replies /\ "packet" \in Replies /\ NoPacket \in Slot /\ 0 \in 0 .. RbSize
    BY PbAssumption DEF Replies, NoPacket, Slot
  <1>5. \/ /\ s.ring \in Rings /\ s.tool = tool /\ s.timers = timers
           /\ s.readwait = readwait /\ s.got = got
        \/ /\ readwait # Nobody /\ kbuf[1] \in Slot
           /\ s.ring \in Rings /\ s.tool = Answered(tool, readwait, "packet", kbuf[1], 0)
           /\ s.timers = tqRemove(timers, readwait) /\ s.readwait = Nobody
           /\ s.got = Append(got, kbuf[1].n)
    <2>1. CASE fifo = <<>>
      BY <1>2, <1>a, <2>1 DEF With
    <2>2. CASE fifo # <<>>
      <3>1. PICK r \in Rings : r = FilteredRing(kbuf)
        BY <1>2, ReceivedIs
      <3>2. rbRead(r) \in Rings
        BY RingTypes
      <3>3. s = Received(kbuf)
        BY <1>a, <2>2
      <3> QED
        BY <1>2, <3>1, <3>2, <3>3, ReceivedIs
    <2> QED
      BY <2>1, <2>2
  <1>6. ring' \in Rings /\ isEmpty(ring')
    BY <1>1, <1>5, RingTypes
  <1>7. Stores'
    <2>1. kbuf[1] \in Slot => Append(got, kbuf[1].n) \in Seq(Int)
      <3>1. kbuf[1] \in Slot => kbuf[1].n \in Int
        BY DEF Slot
      <3> QED
        BY <1>2, <3>1, AppendProperties
    <2>2. s.got \in Seq(Int) /\ s.readwait \in Clients \cup {Nobody}
      BY <1>2, <1>5, <2>1 DEF W, Types
    <2> QED
      BY <1>1, <1>2, <1>6, <2>2 DEF Stores, W, Types, Serves, Notifies
  <1>8. CASE /\ s.tool = tool /\ s.timers = timers /\ s.readwait = readwait
    BY <1>1, <1>3, <1>4, <1>6, <1>7, <1>8, LoneStep
  <1>9. CASE /\ readwait # Nobody /\ kbuf[1] \in Slot
             /\ s.tool = Answered(tool, readwait, "packet", kbuf[1], 0)
             /\ s.timers = tqRemove(timers, readwait) /\ s.readwait = Nobody
    <2>1. PICK t : t = s.tool
      OBVIOUS
    <2>2. /\ t \in [Clients -> Tools]
          /\ \A d \in Clients : /\ t[d].fd = tool[d].fd /\ t[d].req = tool[d].req
                                /\ t[d].alive <=> tool[d].alive
          /\ \A d \in Clients : t[d].ans # None => t[d].alive /\ t[d].req = None
          /\ \A d \in Clients : ~(/\ t[d].alive /\ t[d].asked = "read" /\ t[d].req = None
                                  /\ t[d].ans = None)
          /\ tqRemove(timers, readwait) = <<>>
      BY <1>4, <1>9, <2>1, HandedIs
    <2>3. Replied(t, c)
      BY <1>1, <1>2, <1>4, <2>1, <2>2, RespondsIs
    <2>4. ConnTypes' /\ ServedOf(c) /\ timers' = <<>>
      BY <1>1, <1>3, <1>9, <2>2, <2>3, ServeStep DEF W
    <2>5. tool'[c] = NoTool => ~tool'[c].alive /\ tool'[c].ans = None
      BY DEF NoTool
    <2>6. Asking' /\ Told'
      BY <1>1, <1>9, <2>2, <2>3, <2>5 DEF Asking, Told, Replied, Replies, None
    <2>7. Reader'
      BY <1>1, <1>9, <2>4 DEF Reader, TimersOf
    <2> QED
      BY <1>7, <2>4, <2>6, <2>7 DEF Goal, Types, Stores, ConnStep, WaitInv
  <1> QED
    BY <1>5, <1>8, <1>9

LEMMA AcceptStep == ASSUME W, accept PROVE Goal
PROOF
  <1>a. PICK c : c = Head(backlog)
    OBVIOUS
  <1> DEFINE used == {BpfFd, AcceptFd} \cup leaked \cup {tool[d].fd : d \in Clients}
             fd == Min((0 .. Cardinality(used)) \ used)
  <1>1. /\ AcceptFd \in turn /\ Least(AcceptFd) /\ turn' = turn \ {AcceptFd} /\ timers' = timers
        /\ tool' = [tool EXCEPT ![c].fd = fd] /\ backlog' = Tail(backlog)
        /\ leaked' = leaked /\ ring' = ring /\ readwait' = readwait
    BY <1>a DEF accept, Notifies, Least
  <1>2. /\ backlog # <<>> /\ backlog \in Seq(Clients) /\ tool \in [Clients -> Tools]
        /\ IsFiniteSet(leaked)
    BY <1>1 DEF W, Types, ConnTypes, ConnInv, Connecting
  <1>3. c \in Clients /\ Tail(backlog) \in Seq(Clients) /\ ~Accepted(c)
    <2>1. c = backlog[1] /\ 1 \in DOMAIN backlog
      BY <1>2, <1>a, HeadTailProperties, LenProperties
    <2> QED
      BY <1>2, <1>a, <2>1, HeadTailProperties, ElementOfSeq DEF W, ConnInv, Connecting
  <1>4. fd \in Nat /\ fd \notin used
    <2>1. IsFiniteSet({tool[d].fd : d \in Clients})
      <3> DEFINE T == {tool[d].fd : d \in Clients}
                 f == [d \in Clients |-> tool[d].fd]
      <3>1. f \in Surjection(Clients, T)
        BY DEF Surjection
      <3>2. IsFiniteSet(Clients)
        BY PbAssumption
      <3> HIDE DEF T, f
      <3>3. IsFiniteSet(T)
        BY <3>1, <3>2, FS_Surjection
      <3> QED
        BY <3>3 DEF T
    <2>2. IsFiniteSet({BpfFd, AcceptFd} \cup leaked)
      <3>1. IsFiniteSet((leaked \cup {BpfFd}) \cup {AcceptFd})
        BY <1>2, FS_AddElement
      <3>2. (leaked \cup {BpfFd}) \cup {AcceptFd} = {BpfFd, AcceptFd} \cup leaked
        OBVIOUS
      <3> QED
        BY <3>1, <3>2
    <2>3. IsFiniteSet(used)
      BY <2>1, <2>2, FS_Union
    <2> HIDE DEF used
    <2> QED
      BY <2>3, LowestFree
  <1>5. /\ fd \in Int /\ fd > AcceptFd /\ \A d \in Clients : fd # tool[d].fd
    <2>1. 0 \in used /\ 1 \in used /\ \A d \in Clients : tool[d].fd \in used
      BY DEF BpfFd, AcceptFd
    <2> HIDE DEF used, fd
    <2> QED
      BY <1>4, <2>1 DEF AcceptFd
  <1> HIDE DEF fd
  <1>6. \A x \in Tools : LET y == [x EXCEPT !.fd = fd]
                         IN  /\ y \in Tools /\ y.fd = fd /\ y.req = x.req /\ y.ans = x.ans
                             /\ (y.alive <=> x.alive) /\ y.deadline = x.deadline
                             /\ y.asked = x.asked
    BY <1>5 DEF Tools
  <1>7. /\ tool' \in [Clients -> Tools] /\ \A d \in Clients : d # c => tool'[d] = tool[d]
        /\ tool'[c].req = tool[c].req /\ tool'[c].fd = fd /\ tool'[c].ans = tool[c].ans
        /\ (tool'[c].alive <=> tool[c].alive) /\ tool'[c].deadline = tool[c].deadline
        /\ tool'[c].asked = tool[c].asked
    <2>1. PICK y \in Tools : y = [tool[c] EXCEPT !.fd = fd]
      BY <1>2, <1>3, <1>6
    <2>2. tool' = [tool EXCEPT ![c] = y]
      BY <1>1, <2>1
    <2>3. /\ y.req = tool[c].req /\ y.fd = fd /\ (y.alive <=> tool[c].alive)
          /\ y.ans = tool[c].ans /\ y.deadline = tool[c].deadline /\ y.asked = tool[c].asked
      BY <1>2, <1>3, <1>6, <2>1
    <2>4. /\ tool' \in [Clients -> Tools] /\ tool'[c] = y
          /\ \A d \in Clients : d # c => tool'[d] = tool[d]
      BY <1>2, <1>3, <2>2
    <2> QED
      BY <2>3, <2>4
  <1>8. ConnTypes'
    BY <1>1, <1>3, <1>7 DEF W, Types, ConnTypes
  <1>9. Accepting
    BY <1>1, <1>5, <1>7, <1>a DEF Accepting, SameFor
  <1>10. WaitInv'
    <2>1. readwait # Nobody => readwait # c
      BY <1>3 DEF W, WaitInv, Reader
    <2>2. readwait # Nobody => tool'[readwait] = tool[readwait]
      BY <1>7, <2>1 DEF W, Types
    <2>3. Asking'
      BY <1>1, <1>7, <2>2 DEF W, WaitInv, Asking
    <2>4. Told'
      BY <1>1, <1>7 DEF W, WaitInv, Told
    <2>5. Reader'
      BY <1>1, <2>2 DEF W, WaitInv, Reader, TimersOf, Accepted
    <2> QED
      BY <2>3, <2>4, <2>5 DEF WaitInv
  <1>11. Stores'
    BY <1>1 DEF W, Types, Stores, accept, Notifies
  <1> QED
    BY <1>8, <1>9, <1>10, <1>11 DEF Goal, Types, Stores, ConnStep

-----------------------------------------------------------------------------
(* The steps of the tools, the interface and the clock                      *)

\* A step that leaves the server's tables alone
LEMMA IdleStep ==
  ASSUME W, UNCHANGED <<timers, ring, readwait, backlog, tool, leaked>>, Stores', turn' \subseteq Int
  PROVE  ConnTypes' /\ WaitInv' /\ \A c \in Clients : SameFor(c)
PROOF
  <1>1. WaitInv'
    BY DEF W, WaitInv, Asking, Told, Reader, TimersOf, Accepted
  <1>2. ConnTypes'
    BY DEF W, Types, ConnTypes
  <1> QED
    BY <1>1, <1>2 DEF SameFor

LEMMA SelectStep == ASSUME W, Selects(Ready), UNCHANGED pbVars PROVE Goal
PROOF
  <1>1. Ready \subseteq Int
    <2>1. \A d \in Clients : tool[d].fd \in Int
      BY DEF W, Types, ConnTypes, Tools
    <2> QED
      BY <2>1 DEF Ready, BpfFd, AcceptFd
  <1>2. /\ turn = {} /\ turn' = Ready /\ backlog' = backlog
        /\ UNCHANGED <<timers, ring, readwait, tool, leaked>>
    BY DEF Selects, pbVars
  <1>3. Stores'
    BY DEF W, Types, Stores, Selects, pbVars
  <1>4. ConnTypes' /\ WaitInv' /\ \A c \in Clients : SameFor(c)
    BY <1>1, <1>2, <1>3, IdleStep
  <1> QED
    BY <1>2, <1>3, <1>4 DEF Goal, Types, Stores, ConnStep, Selecting

LEMMA WorldStep ==
  ASSUME W, Arrives \/ Echoes \/ (Tick /\ UNCHANGED pbVars) \/ UNCHANGED vars
  PROVE  Goal
PROOF
  <1>1. UNCHANGED <<timers, ring, readwait, backlog, tool, leaked, turn>>
    BY DEF Arrives, Echoes, Tick, vars, pbVars, cmVars
  <1>2. Stores'
    <2>1. CASE Arrives
      <3>1. [n |-> arrived + 1, at |-> now] \in Slot /\ arrived + 1 \in Int /\ kbuf \in Seq(Slot)
        BY DEF W, Types, Slot
      <3>2. Append(kbuf, [n |-> arrived + 1, at |-> now]) \in Seq(Slot)
        BY <3>1, AppendProperties
      <3> QED
        BY <2>1, <3>1, <3>2 DEF Arrives, W, Types, Stores, cmVars
    <2>2. CASE Echoes
      <3>1. wire \in Seq(Int) /\ wire # <<>> /\ kbuf \in Seq(Slot) /\ now \in Int
        BY <2>2 DEF Echoes, W, Types
      <3>2. Tail(wire) \in Seq(Int) /\ Head(wire) \in Int
        BY <3>1, HeadTailProperties
      <3>3. [n |-> Head(wire), at |-> now] \in Slot
        BY <3>1, <3>2 DEF Slot
      <3>4. Append(kbuf, [n |-> Head(wire), at |-> now]) \in Seq(Slot)
        BY <3>1, <3>3, AppendProperties
      <3> QED
        BY <2>2, <3>2, <3>4 DEF Echoes, W, Types, Stores, cmVars
    <2>3. CASE Tick /\ UNCHANGED pbVars
      BY <2>3 DEF Tick, pbVars, W, Types, Stores
    <2>4. CASE UNCHANGED vars
      BY <2>4 DEF vars, cmVars, pbVars, W, Types, Stores
    <2> QED
      BY <2>1, <2>2, <2>3, <2>4
  <1>3. turn' \subseteq Int
    BY <1>1 DEF W, Types, ConnTypes
  <1>4. ConnTypes' /\ WaitInv' /\ \A c \in Clients : SameFor(c)
    BY <1>1, <1>2, <1>3, IdleStep
  <1> QED
    BY <1>1, <1>2, <1>4 DEF Goal, Types, Stores, ConnStep, Quiet

LEMMA AskStep ==
  ASSUME NEW c \in Clients, W, NEW request \in Requests, NEW dl \in Deadlines \cup {0},
         Asks(c, request, dl)
  PROVE  Goal
PROOF
  <1>1. /\ tool[c].alive /\ tool[c].ans # None
        /\ tool' = [tool EXCEPT ![c].req = request, ![c].asked = request, ![c].ans = None,
                                ![c].deadline = dl]
        /\ UNCHANGED <<timers, ring, readwait, backlog, leaked, turn>>
    BY DEF Asks, HasAnswer, cmVars
  <1>2. /\ request \in Asked /\ request # "connect" /\ request # None /\ dl \in Int
    BY PbAssumption DEF Asked, None
  <1>3. \A x \in Tools :
          LET y == [x EXCEPT !.req = request, !.asked = request, !.ans = None, !.deadline = dl]
          IN  /\ y \in Tools /\ y.fd = x.fd /\ y.req = request /\ y.ans = None
              /\ (y.alive <=> x.alive)
    BY <1>2 DEF Tools, Asked
  <1>4. tool \in [Clients -> Tools]
    BY DEF W, Types, ConnTypes
  <1>5. /\ tool' \in [Clients -> Tools] /\ \A d \in Clients : d # c => tool'[d] = tool[d]
        /\ tool'[c].req = request /\ tool'[c].fd = tool[c].fd /\ tool'[c].ans = None
        /\ tool'[c].alive
    <2>1. PICK y \in Tools : y = [tool[c] EXCEPT !.req = request, !.asked = request,
                                                 !.ans = None, !.deadline = dl]
      BY <1>3, <1>4
    <2>2. tool' = [tool EXCEPT ![c] = y]
      BY <1>1, <2>1
    <2>3. y.req = request /\ y.fd = tool[c].fd /\ y.ans = None /\ (y.alive <=> tool[c].alive)
      BY <1>3, <1>4, <2>1
    <2>4. /\ tool' \in [Clients -> Tools] /\ tool'[c] = y
          /\ \A d \in Clients : d # c => tool'[d] = tool[d]
      BY <1>4, <2>2
    <2> QED
      BY <1>1, <2>3, <2>4
  <1>6. tool[c].req # "connect"
    BY <1>1 DEF W, WaitInv, Asking, None
  <1>7. ConnTypes' /\ AskingOf(c)
    BY <1>1, <1>2, <1>5, <1>6 DEF W, Types, ConnTypes, AskingOf, SameFor
  <1>8. WaitInv'
    <2>1. readwait # Nobody => readwait # c /\ tool'[readwait] = tool[readwait]
      BY <1>1, <1>5 DEF W, WaitInv, Asking, Types
    <2>2. Asking'
      BY <1>1, <1>5, <2>1 DEF W, WaitInv, Asking
    <2>3. Told'
      BY <1>1, <1>2, <1>5 DEF W, WaitInv, Told
    <2>4. Reader'
      BY <1>1, <2>1 DEF W, WaitInv, Reader, TimersOf, Accepted
    <2> QED
      BY <2>2, <2>3, <2>4 DEF WaitInv
  <1>9. Stores'
    BY DEF W, Types, Stores, Asks, cmVars
  <1> QED
    BY <1>7, <1>8, <1>9 DEF Goal, Types, Stores, ConnStep

LEMMA EndStep == ASSUME NEW c \in Clients, W, Exits(c) \/ Killed(c) PROVE Goal
PROOF
  <1>1. /\ tool' = Ended(c)
        /\ UNCHANGED <<timers, ring, readwait, backlog, leaked, turn>>
    BY DEF Exits, Killed, cmVars
  <1>2. NoPacket \in Slot
    BY DEF NoPacket, Slot
  <1>3. \A x \in Tools :
          LET y == [x EXCEPT !.alive = FALSE, !.asked = None, !.ans = None, !.packet = NoPacket]
          IN  /\ y \in Tools /\ y.fd = x.fd /\ y.req = x.req /\ y.ans = None
              /\ ~y.alive /\ y.deadline = x.deadline
    BY <1>2 DEF Tools, Asked
  <1>4. tool \in [Clients -> Tools]
    BY DEF W, Types, ConnTypes
  <1>5. /\ tool' \in [Clients -> Tools] /\ \A d \in Clients : d # c => tool'[d] = tool[d]
        /\ tool'[c].req = tool[c].req /\ tool'[c].fd = tool[c].fd /\ tool'[c].ans = None
        /\ ~tool'[c].alive /\ tool'[c].deadline = tool[c].deadline
    <2>1. PICK y \in Tools : y = [tool[c] EXCEPT !.alive = FALSE, !.asked = None, !.ans = None,
                                                 !.packet = NoPacket]
      BY <1>3, <1>4
    <2>2. tool' = [tool EXCEPT ![c] = y]
      BY <1>1, <2>1 DEF Ended
    <2>3. /\ y.req = tool[c].req /\ y.fd = tool[c].fd /\ y.ans = None /\ ~y.alive
          /\ y.deadline = tool[c].deadline
      BY <1>3, <1>4, <2>1
    <2>4. /\ tool' \in [Clients -> Tools] /\ tool'[c] = y
          /\ \A d \in Clients : d # c => tool'[d] = tool[d]
      BY <1>4, <2>2
    <2> QED
      BY <2>3, <2>4
  <1>6. ConnTypes' /\ Ending(c)
    BY <1>1, <1>5 DEF W, Types, ConnTypes, Ending, SameFor
  <1>7. Asking'
    BY <1>1, <1>5 DEF W, WaitInv, Asking, Types
  <1>8. Told'
    BY <1>1, <1>5 DEF W, WaitInv, Told
  <1>9. Reader'
    <2>1. readwait # Nobody => /\ tool'[readwait].fd = tool[readwait].fd
                               /\ tool'[readwait].req = tool[readwait].req
                               /\ tool'[readwait].deadline = tool[readwait].deadline
      BY <1>5 DEF W, Types
    <2> QED
      BY <1>1, <2>1 DEF W, WaitInv, Reader, TimersOf, Accepted
  <1>10. Stores'
    BY DEF W, Types, Stores, Exits, Killed, cmVars
  <1> QED
    BY <1>6, <1>7, <1>8, <1>9, <1>10 DEF Goal, Types, Stores, ConnStep, WaitInv

\* Tools run one after the other: nobody is alive when one connects.
LEMMA ConnectStep == ASSUME NEW c \in Clients, MaxAlive = 1, W, connect(c) PROVE Goal
PROOF
  <1>1. /\ Unused # {} /\ c = Min(Unused) /\ Cardinality(Alive) < 1
        /\ tool' = [tool EXCEPT ![c] = [NoTool EXCEPT !.alive = TRUE, !.req = "connect",
                                                      !.asked = "connect"]]
        /\ backlog' = Append(backlog, c)
        /\ UNCHANGED <<timers, ring, readwait, leaked, turn>>
    BY DEF connect, cmVars
  <1>2. \A d \in Clients : ~tool[d].alive
    <2>1. Alive \subseteq Clients /\ IsFiniteSet(Clients)
      BY PbAssumption DEF Alive
    <2>2. IsFiniteSet(Alive) /\ Cardinality(Alive) \in Nat
      BY <2>1, FS_Subset, FS_CardinalityType
    <2>3. Alive = {}
      BY <1>1, <2>2, FS_EmptySet
    <2> QED
      BY <2>3 DEF Alive
  <1>3. tool[c] = NoTool
    <2>1. Unused \subseteq Nat
      BY PbAssumption DEF Unused
    <2>2. c \in Unused
      BY <1>1, <2>1, MinIsLeast
    <2> QED
      BY <2>2 DEF Unused
  <1>4. tool \in [Clients -> Tools] /\ backlog \in Seq(Clients)
    BY DEF W, Types, ConnTypes
  <1>5. /\ NoTool.fd = -1 /\ NoTool.req = None /\ NoTool.ans = None
    BY DEF NoTool
  <1>6. LET y == [NoTool EXCEPT !.alive = TRUE, !.req = "connect", !.asked = "connect"]
        IN y \in Tools /\ y.fd = -1 /\ y.req = "connect" /\ y.alive /\ y.ans = None
    <2>1. \A x \in Tools :
            LET y == [x EXCEPT !.alive = TRUE, !.req = "connect", !.asked = "connect"]
            IN y \in Tools /\ y.fd = x.fd /\ y.req = "connect" /\ y.alive /\ y.ans = x.ans
      BY DEF Tools, Asked
    <2> QED
      BY <1>5, <2>1, NoToolType
  <1>7. /\ tool' \in [Clients -> Tools] /\ \A d \in Clients : d # c => tool'[d] = tool[d]
        /\ tool'[c].fd = -1 /\ tool'[c].req = "connect" /\ tool'[c].alive /\ tool'[c].ans = None
    BY <1>1, <1>4, <1>6
  <1>8. Append(backlog, c) \in Seq(Clients)
    BY <1>4, AppendProperties
  <1>9. ConnTypes' /\ ConnectingOf(c)
    BY <1>1, <1>2, <1>3, <1>5, <1>7, <1>8 DEF W, Types, ConnTypes, ConnectingOf, SameFor
  <1>10. readwait # Nobody => readwait # c /\ tool'[readwait] = tool[readwait]
    BY <1>3, <1>5, <1>7 DEF W, WaitInv, Reader, Accepted, Types
  <1>11. Asking'
    BY <1>1, <1>7, <1>10 DEF W, WaitInv, Asking
  <1>12. Told'
    BY <1>1, <1>7 DEF W, WaitInv, Told, None
  <1>13. Reader'
    BY <1>1, <1>10 DEF W, WaitInv, Reader, TimersOf, Accepted
  <1>14. Stores'
    BY DEF W, Types, Stores, connect, cmVars
  <1> QED
    BY <1>9, <1>11, <1>12, <1>13, <1>14 DEF Goal, Types, Stores, ConnStep, WaitInv

-----------------------------------------------------------------------------
(* All steps, and the theorem                                               *)

LEMMA AllSteps == ASSUME MaxAlive = 1, W, [PbNext]_vars PROVE Goal
PROOF
  <1>1. CASE Dispatch
    <2>1. CASE Selects(Ready) /\ UNCHANGED pbVars
      BY <2>1, SelectStep
    <2>2. CASE receive
      BY <2>2, ReceiveStep
    <2>3. CASE accept
      BY <2>3, AcceptStep
    <2>4. ASSUME NEW c \in Clients, Request(c) PROVE Goal
      BY <2>4, SimpleSteps, ClearStep, WriteStep, ReadStep, DumpStep, LostStep DEF Request
    <2>5. ASSUME NEW c \in Clients, timeout(c) PROVE Goal
      BY <2>5, TimeoutStep
    <2> QED
      BY <1>1, <2>1, <2>2, <2>3, <2>4, <2>5 DEF Dispatch
  <1>2. CASE Arrives \/ Echoes \/ (Tick /\ UNCHANGED pbVars) \/ UNCHANGED vars
    BY <1>2, WorldStep
  <1>3. CASE \E c \in Clients, r \in Requests, dl \in Deadlines \cup {0} : Asks(c, r, dl)
    BY <1>3, AskStep
  <1>4. CASE \E c \in Clients : connect(c) \/ Exits(c) \/ Killed(c)
    BY <1>4, EndStep, ConnectStep
  <1> QED
    BY <1>1, <1>2, <1>3, <1>4 DEF PbNext

\* Every step is one of the event loop, of the clock, or leaves both alone.
LEMMA LoopSteps ==
  ASSUME [PbNext]_vars
  PROVE  \/ \E ready : Selects(ready)
         \/ \E fd, q : Notifies(fd, q)
         \/ \E c : Expires(c)
         \/ UNCHANGED cmVars
         \/ Tick
PROOF
  <1>1. CASE Dispatch
    <2>1. CASE Selects(Ready) /\ UNCHANGED pbVars
      BY <2>1
    <2>2. CASE receive
      BY <2>2 DEF receive
    <2>3. CASE accept
      BY <2>3 DEF accept
    <2>4. ASSUME NEW c \in Clients, Request(c) PROVE \E fd, q : Notifies(fd, q)
      <3>1. \E r, q : Serves(c, r, q)
        BY <2>4 DEF Request, connectRequest, wrapRequest, nowrapRequest, captureRequest,
                    stopRequest, clearRequest, writeRequest, readRequest, dumpRequest,
                    connectionLost, Simple
      <3> QED
        BY <3>1 DEF Serves
    <2>5. ASSUME NEW c \in Clients, timeout(c) PROVE \E d : Expires(d)
      BY <2>5 DEF timeout
    <2> QED
      BY <1>1, <2>1, <2>2, <2>3, <2>4, <2>5 DEF Dispatch
  <1>2. CASE Arrives \/ Echoes \/ UNCHANGED vars
    BY <1>2 DEF Arrives, Echoes, vars
  <1>3. CASE Tick /\ UNCHANGED pbVars
    BY <1>3
  <1>4. CASE \E c \in Clients, r \in Requests, dl \in Deadlines \cup {0} : Asks(c, r, dl)
    BY <1>4 DEF Asks
  <1>5. CASE \E c \in Clients : connect(c) \/ Exits(c) \/ Killed(c)
    BY <1>5 DEF connect, Exits, Killed
  <1> QED
    BY <1>1, <1>2, <1>3, <1>4, <1>5 DEF PbNext

LEMMA InitW == PbInit => W
PROOF
  <1> SUFFICES ASSUME PbInit PROVE W
    OBVIOUS
  <1>1. tool = [c \in Clients |-> NoTool] /\ NoTool \in Tools
    BY NoToolType DEF PbInit
  <1>2. tool \in [Clients -> Tools] /\ \A c \in Clients : tool[c] = NoTool
    BY <1>1
  <1>3. /\ NoTool.fd = -1 /\ ~NoTool.alive /\ NoTool.ans = None /\ NoTool.asked = None
    BY DEF NoTool
  <1>4. ring \in Rings /\ isEmpty(ring)
    <2>1. NoPacket \in Slot /\ 0 \in 0 .. RbSize
      BY PbAssumption DEF NoPacket, Slot
    <2>2. PICK mode \in {"WRAP", "NOWRAP"} :
            ring = [slots |-> [k \in 0 .. RbSize |-> NoPacket], rp |-> 0, wp |-> 0, mode |-> mode]
      BY DEF PbInit
    <2> QED
      BY <2>1, <2>2 DEF Rings, isEmpty
  <1>5. /\ backlog = <<>> /\ kbuf = <<>> /\ wire = <<>> /\ got = <<>> /\ leaked = {}
        /\ readwait = Nobody /\ arrived = 0 /\ sent = 0 /\ now = 1 /\ timers = <<>>
        /\ turn = {} /\ current = -1
    BY DEF PbInit, CmInit
  <1>6. ConnTypes
    <2>1. backlog \in Seq(Clients) /\ IsFiniteSet(leaked)
      BY <1>5, EmptySeq, FS_EmptySet
    <2> QED
      BY <1>2, <1>5, <2>1 DEF ConnTypes
  <1>7. Types
    <2>1. kbuf \in Seq(Slot) /\ wire \in Seq(Int) /\ got \in Seq(Int)
      BY <1>5, EmptySeq
    <2> QED
      BY <1>4, <1>5, <1>6, <2>1 DEF Types
  <1>8. ConnInv
    <2>1. Descriptors
      BY <1>2, <1>3, <1>5 DEF Descriptors, Accepted
    <2>2. Connecting
      BY <1>2, <1>3, <1>5 DEF Connecting, Accepted
    <2> QED
      BY <1>2, <1>3, <2>1, <2>2 DEF ConnInv, OneAlive, InTurns, Accepted
  <1>9. WaitInv
    BY <1>2, <1>3, <1>4, <1>5 DEF WaitInv, Asking, Told, Reader, TimersOf, None
  <1> QED
    BY <1>5, <1>7, <1>8, <1>9 DEF W, DueNow

LEMMA StepW == ASSUME MaxAlive = 1, W, [PbNext]_vars PROVE W'
PROOF
  <1>1. Goal
    BY AllSteps
  <1>2. ConnInv'
    BY <1>1, ConnKeeps DEF Goal, W, Types
  <1>3. DueNow'
    BY LoopSteps, DueKeeps DEF W, Types
  <1> QED
    BY <1>1, <1>2, <1>3 DEF Goal, W

\* At most one client waits, it is the one in readwait_, it has its timer and no other
\* timer runs, and there is nothing it could have read: readRequest, readydata, timeout
\* and the destructor of PktServer agree, whatever tools are killed.  It holds as long as
\* tools run one after the other; two that run at a time can both read, and the second
\* takes the place of the first.
THEOREM OneWaiterHolds == ASSUME MaxAlive = 1 PROVE PbSpec => []OneWaiter
PROOF
  <1>1. PbInit => W
    BY InitW
  <1>2. W /\ [PbNext]_vars => W'
    BY StepW
  <1>3. W => OneWaiter
    BY WaitIsOneWaiter DEF W
  <1> QED
    BY <1>1, <1>2, <1>3, PTL DEF PbSpec

-----------------------------------------------------------------------------
(* The order of packets                                                     *)

\* A packet that came after another one has a higher number, unless pktbuf sent one of them
After(g, n) == g > 0 /\ n > 0 => g < n
Before(p, q) == p.at <= q.at /\ After(p.n, q.n)

\* How far a slot is from the oldest packet, and whether it holds one
Off(r, x) == IF x >= r.rp THEN x - r.rp ELSE x - r.rp + rbLen
Held(r, x) == Off(r, x) < datanum(r)

RingOrder(r) ==
  \A x, y \in 0 .. RbSize : Held(r, x) /\ Held(r, y) /\ Off(r, x) < Off(r, y)
                              => Before(r.slots[x], r.slots[y])

BufferOrder(b) == \A i, j \in DOMAIN b : i < j => Before(b[i], b[j])

\* The ring is older than the buffer of the kernel, and what readers have is older than both
RingBuffer == \A x \in 0 .. RbSize, j \in DOMAIN kbuf : Held(ring, x) => Before(ring.slots[x], kbuf[j])
GotRing == \A i \in DOMAIN got, x \in 0 .. RbSize : Held(ring, x) => After(got[i], ring.slots[x].n)
GotBuffer == \A i \in DOMAIN got, j \in DOMAIN kbuf : After(got[i], kbuf[j].n)
GotOrder == \A i, j \in DOMAIN got : i < j => After(got[i], got[j])

\* Nothing comes from the future
Known(p) == p.at <= now /\ p.n <= arrived
Past ==
  /\ \A x \in 0 .. RbSize : Held(ring, x) => Known(ring.slots[x])
  /\ \A j \in DOMAIN kbuf : Known(kbuf[j])
  /\ \A i \in DOMAIN got : got[i] <= arrived
  /\ \A k \in DOMAIN wire : wire[k] < 0
  /\ arrived >= 0 /\ sent >= 0

Ordered ==
  /\ RingOrder(ring) /\ BufferOrder(kbuf)
  /\ RingBuffer /\ GotRing /\ GotBuffer /\ GotOrder /\ Past

LEMMA OrderIsReadInOrder == Ordered => ReadInOrder
PROOF
  BY DEF Ordered, GotOrder, After, ReadInOrder

\* The same for pointers alone
OffOf(a, x) == IF x >= a THEN x - a ELSE x - a + rbLen
NumOf(a, b) == IF b >= a THEN b - a ELSE b - a + rbLen

LEMMA PointersAdvance ==
  ASSUME NEW a \in 0 .. RbSize, NEW b \in 0 .. RbSize, NEW d, d = nextPoint(b),
         NEW c, c = IF NumOf(a, b) = RbSize THEN nextPoint(a) ELSE a
  PROVE  /\ OffOf(c, b) = NumOf(c, d) - 1
         /\ a = b => NumOf(c, d) = 1
         /\ NumOf(c, d) <= RbSize
         /\ \A x \in 0 .. RbSize : x # b /\ OffOf(c, x) < NumOf(c, d) =>
              /\ OffOf(a, x) < NumOf(a, b)
              /\ OffOf(c, x) = IF c = a THEN OffOf(a, x) ELSE OffOf(a, x) - 1
PROOF
  <1> USE PbAssumption
  <1>1. RbSize \in Nat /\ RbSize > 0
    OBVIOUS
  <1>2. CASE NumOf(a, b) = RbSize
    <2>1. c = nextPoint(a)
      BY <1>2
    <2>2. CASE b >= a
      <3>1. a = 0 /\ b = RbSize /\ c = 1 /\ d = 0
        BY <1>1, <1>2, <2>1, <2>2 DEF NumOf, nextPoint, rbLen
      <3> QED
        BY <1>1, <3>1 DEF NumOf, OffOf, rbLen
    <2>3. CASE b < a
      <3>1. b = a - 1 /\ d = a /\ c = IF a = RbSize THEN 0 ELSE a + 1
        BY <1>1, <1>2, <2>1, <2>3 DEF NumOf, nextPoint, rbLen
      <3> QED
        BY <1>1, <3>1 DEF NumOf, OffOf, rbLen
    <2> QED
      BY <2>2, <2>3
  <1>3. CASE NumOf(a, b) # RbSize
    <2>1. c = a /\ d = IF b = RbSize THEN 0 ELSE b + 1
      BY <1>3 DEF nextPoint, rbLen
    <2> QED
      BY <1>1, <1>3, <2>1 DEF NumOf, OffOf, rbLen
  <1> QED
    BY <1>2, <1>3

\* The slots after a write: the new packet is the last one, the others keep their order.
LEMMA WriteHolds ==
  ASSUME NEW r \in Rings, NEW p \in Slot, NEW w \in Rings, w = rbWrite(r, p), w # r
  PROVE  /\ w.slots[r.wp] = p /\ Held(w, r.wp) /\ Off(w, r.wp) = datanum(w) - 1
         /\ isEmpty(r) => datanum(w) = 1
         /\ \A x \in 0 .. RbSize : Held(w, x) /\ x # r.wp =>
              Held(r, x) /\ w.slots[x] = r.slots[x] /\ Off(w, x) <= Off(r, x)
         /\ \A x, y \in 0 .. RbSize :
              Held(w, x) /\ Held(w, y) /\ x # r.wp /\ y # r.wp /\ Off(w, x) < Off(w, y)
                => Off(r, x) < Off(r, y)
PROOF
  <1> USE PbAssumption
  <1> DEFINE rp == IF isFull(r) THEN nextPoint(r.rp) ELSE r.rp
  <1>1. /\ r.rp \in 0 .. RbSize /\ r.wp \in 0 .. RbSize /\ r.slots \in [0 .. RbSize -> Slot]
        /\ RbSize \in Nat /\ RbSize > 0
    BY DEF Rings
  <1>2. w = [r EXCEPT !.slots[r.wp] = p, !.wp = nextPoint(r.wp), !.rp = rp]
    BY DEF rbWrite
  <1>3. /\ w.slots = [r.slots EXCEPT ![r.wp] = p] /\ w.wp = nextPoint(r.wp) /\ w.rp = rp
    <2> HIDE DEF rp
    <2> QED
      BY <1>2 DEF Rings
  <1>4. /\ w.slots[r.wp] = p
        /\ \A x \in 0 .. RbSize : x # r.wp => w.slots[x] = r.slots[x]
    BY <1>1, <1>3
  <1>5. \A v \in Rings : /\ datanum(v) = NumOf(v.rp, v.wp)
                         /\ \A x : Off(v, x) = OffOf(v.rp, x)
                         /\ \A x : Held(v, x) <=> OffOf(v.rp, x) < NumOf(v.rp, v.wp)
    BY DEF datanum, NumOf, Off, OffOf, Held
  <1>6. isFull(r) <=> NumOf(r.rp, r.wp) = RbSize
    BY <1>1 DEF isFull, NumOf, rbLen
  <1>7. /\ OffOf(w.rp, r.wp) = NumOf(w.rp, w.wp) - 1
        /\ r.rp = r.wp => NumOf(w.rp, w.wp) = 1
        /\ \A x \in 0 .. RbSize : x # r.wp /\ OffOf(w.rp, x) < NumOf(w.rp, w.wp) =>
             /\ OffOf(r.rp, x) < NumOf(r.rp, r.wp)
             /\ OffOf(w.rp, x) = IF w.rp = r.rp THEN OffOf(r.rp, x) ELSE OffOf(r.rp, x) - 1
    BY <1>1, <1>3, <1>6, PointersAdvance
  <1>8. /\ \A x \in 0 .. RbSize : OffOf(w.rp, x) \in Int /\ OffOf(r.rp, x) \in Int
        /\ NumOf(w.rp, w.wp) \in Int
    BY DEF OffOf, NumOf, rbLen, Rings
  <1> HIDE DEF rp
  <1>9. Held(w, r.wp) /\ Off(w, r.wp) = datanum(w) - 1
    BY <1>1, <1>5, <1>7, <1>8
  <1>10. isEmpty(r) => datanum(w) = 1
    BY <1>5, <1>7 DEF isEmpty
  <1>11. \A x \in 0 .. RbSize : Held(w, x) /\ x # r.wp =>
           Held(r, x) /\ w.slots[x] = r.slots[x] /\ Off(w, x) <= Off(r, x)
    BY <1>4, <1>5, <1>7, <1>8
  <1>12. \A x, y \in 0 .. RbSize :
           Held(w, x) /\ Held(w, y) /\ x # r.wp /\ y # r.wp /\ Off(w, x) < Off(w, y)
             => Off(r, x) < Off(r, y)
    <2> SUFFICES ASSUME NEW x \in 0 .. RbSize, NEW y \in 0 .. RbSize, Held(w, x), Held(w, y),
                        x # r.wp, y # r.wp, Off(w, x) < Off(w, y)
                 PROVE  Off(r, x) < Off(r, y)
      OBVIOUS
    <2>1. OffOf(w.rp, x) < OffOf(w.rp, y)
      BY <1>5
    <2>2. OffOf(w.rp, x) = IF w.rp = r.rp THEN OffOf(r.rp, x) ELSE OffOf(r.rp, x) - 1
      BY <1>5, <1>7
    <2>3. OffOf(w.rp, y) = IF w.rp = r.rp THEN OffOf(r.rp, y) ELSE OffOf(r.rp, y) - 1
      BY <1>5, <1>7
    <2>4. OffOf(r.rp, x) < OffOf(r.rp, y)
      BY <1>8, <2>1, <2>2, <2>3
    <2> QED
      BY <1>5, <2>4
  <1> QED
    BY <1>4, <1>9, <1>10, <1>11, <1>12

\* The slots after a read: the oldest packet is gone.
LEMMA ReadHolds ==
  ASSUME NEW r \in Rings, ~isEmpty(r)
  PROVE  /\ r.rp \in 0 .. RbSize /\ Held(r, r.rp) /\ Off(r, r.rp) = 0 /\ readn(r, 0) = r.slots[r.rp]
         /\ rbRead(r).slots = r.slots
         /\ \A x \in 0 .. RbSize : Held(rbRead(r), x) =>
              Held(r, x) /\ Off(r, x) = Off(rbRead(r), x) + 1 /\ Off(rbRead(r), x) >= 0
PROOF
  <1> USE PbAssumption
  <1>1. /\ r.rp \in 0 .. RbSize /\ r.wp \in 0 .. RbSize /\ RbSize \in Nat /\ RbSize > 0
    BY DEF Rings
  <1>a. PICK n : n = nextPoint(r.rp)
    OBVIOUS
  <1>2. /\ rbRead(r).rp = n /\ rbRead(r).wp = r.wp /\ rbRead(r).slots = r.slots
    <2>1. rbRead(r) = [r EXCEPT !.rp = n]
      BY <1>a DEF rbRead
    <2> QED
      BY <2>1 DEF Rings
  <1>3. /\ Held(r, r.rp) /\ Off(r, r.rp) = 0
    BY <1>1 DEF isEmpty, Held, Off, datanum, rbLen
  <1>4. readn(r, 0) = r.slots[r.rp]
    BY <1>1 DEF readn, place, rbLen
  <1>5. \A x \in 0 .. RbSize : Held(rbRead(r), x) =>
          Held(r, x) /\ Off(r, x) = Off(rbRead(r), x) + 1 /\ Off(rbRead(r), x) >= 0
    <2> PICK q : q = rbRead(r)
      OBVIOUS
    <2>1. q.rp = n /\ q.wp = r.wp
      BY <1>2
    <2>2. \A x \in 0 .. RbSize : Held(q, x) =>
          Held(r, x) /\ Off(r, x) = Off(q, x) + 1 /\ Off(q, x) >= 0
      BY <1>1, <1>a, <2>1 DEF isEmpty, Held, Off, datanum, nextPoint, rbLen
    <2> QED
      BY <2>2
  <1> QED
    BY <1>1, <1>2, <1>3, <1>4, <1>5

LEMMA EmptyHolds == ASSUME NEW r \in Rings, isEmpty(r) PROVE \A x \in 0 .. RbSize : ~Held(r, x)
PROOF
  BY PbAssumption DEF isEmpty, Held, Off, datanum, rbLen, Rings

\* Where the packets in the ring are from, after k packets of a batch: the ring before or
\* the batch; if there were none before, only the oldest can be the first of the batch
FromRing(p) == \E x \in 0 .. RbSize : Held(ring, x) /\ p = ring.slots[x]
Sources(r, batch, k) ==
  \A x \in 0 .. RbSize : Held(r, x) => FromRing(r.slots[x]) \/ \E j \in 1 .. k : r.slots[x] = batch[j]
Later(r, batch, k) ==
  isEmpty(ring) => \A x \in 0 .. RbSize : Held(r, x) /\ Off(r, x) > 0
                                            => \E j \in 2 .. k : r.slots[x] = batch[j]

InOrder(r, batch, k) == RingOrder(r) /\ Sources(r, batch, k) /\ Later(r, batch, k)

Mergeable(batch) ==
  /\ ring \in Rings /\ batch \in Seq(Slot)
  /\ RingOrder(ring) /\ BufferOrder(batch)
  /\ \A x \in 0 .. RbSize, j \in DOMAIN batch : Held(ring, x) => Before(ring.slots[x], batch[j])

LEMMA WriteOrder ==
  ASSUME NEW batch, Mergeable(batch), NEW k \in Nat, k + 1 \in DOMAIN batch,
         NEW r \in Rings, InOrder(r, batch, k), k = 0 => r = ring
  PROVE  LET w == rbWrite(r, batch[k + 1]) IN w # r => InOrder(w, batch, k + 1)
PROOF
  <1>0. /\ batch[k + 1] \in Slot /\ DOMAIN batch = 1 .. Len(batch) /\ Len(batch) \in Nat
        /\ batch \in Seq(Slot)
    BY ElementOfSeq, LenProperties DEF Mergeable
  <1>1. PICK w \in Rings : w = rbWrite(r, batch[k + 1])
    BY <1>0, RingTypes
  <1> SUFFICES ASSUME w # r PROVE InOrder(w, batch, k + 1)
    BY <1>1
  <1>2. /\ w.slots[r.wp] = batch[k + 1] /\ Held(w, r.wp) /\ Off(w, r.wp) = datanum(w) - 1
        /\ isEmpty(r) => datanum(w) = 1
        /\ \A x \in 0 .. RbSize : Held(w, x) /\ x # r.wp =>
             Held(r, x) /\ w.slots[x] = r.slots[x] /\ Off(w, x) <= Off(r, x)
        /\ \A x, y \in 0 .. RbSize :
             Held(w, x) /\ Held(w, y) /\ x # r.wp /\ y # r.wp /\ Off(w, x) < Off(w, y)
               => Off(r, x) < Off(r, y)
    BY <1>0, <1>1, WriteHolds
  <1>3. \A x \in 0 .. RbSize : Off(w, x) \in Int /\ Off(r, x) \in Int /\ datanum(w) \in Int
    <2>1. /\ RbSize \in Nat /\ w.rp \in 0 .. RbSize /\ w.wp \in 0 .. RbSize
          /\ r.rp \in 0 .. RbSize
      BY PbAssumption DEF Rings
    <2> QED
      BY <2>1 DEF Off, datanum, rbLen
  <1>4. Sources(w, batch, k + 1)
    BY <1>2 DEF InOrder, Sources
  <1>5. \A j \in 1 .. k : Before(batch[j], batch[k + 1])
    BY <1>0 DEF Mergeable, BufferOrder
  <1>6. \A x \in 0 .. RbSize : Held(w, x) /\ x # r.wp => Before(w.slots[x], batch[k + 1])
    <2> SUFFICES ASSUME NEW x \in 0 .. RbSize, Held(w, x), x # r.wp
                 PROVE  Before(w.slots[x], batch[k + 1])
      OBVIOUS
    <2>1. Held(r, x) /\ w.slots[x] = r.slots[x]
      BY <1>2
    <2>2. FromRing(r.slots[x]) \/ \E j \in 1 .. k : r.slots[x] = batch[j]
      BY <2>1 DEF InOrder, Sources
    <2>3. FromRing(r.slots[x]) => Before(r.slots[x], batch[k + 1])
      BY DEF FromRing, Mergeable
    <2> QED
      BY <1>5, <2>1, <2>2, <2>3
  <1>7. RingOrder(w)
    <2> SUFFICES ASSUME NEW x \in 0 .. RbSize, NEW y \in 0 .. RbSize, Held(w, x), Held(w, y),
                        Off(w, x) < Off(w, y)
                 PROVE  Before(w.slots[x], w.slots[y])
      BY DEF RingOrder
    <2>1. x # r.wp
      <3>1. Off(w, y) < datanum(w)
        BY DEF Held
      <3> QED
        BY <1>2, <1>3, <3>1
    <2>2. CASE y = r.wp
      BY <1>2, <1>6, <2>1, <2>2
    <2>3. CASE y # r.wp
      BY <1>2, <2>1, <2>3 DEF InOrder, RingOrder
    <2> QED
      BY <2>2, <2>3
  <1>8. Later(w, batch, k + 1)
    <2> SUFFICES ASSUME isEmpty(ring), NEW x \in 0 .. RbSize, Held(w, x), Off(w, x) > 0
                 PROVE  \E j \in 2 .. k + 1 : w.slots[x] = batch[j]
      BY DEF Later
    <2>1. CASE x = r.wp
      <3>1. k # 0
        <4> SUFFICES ASSUME k = 0 PROVE FALSE
          OBVIOUS
        <4>1. isEmpty(r) /\ datanum(w) = 1
          BY <1>2
        <4> QED
          BY <1>2, <1>3, <2>1, <4>1
      <3>2. k + 1 \in 2 .. k + 1
        BY <3>1
      <3> QED
        BY <1>2, <2>1, <3>2
    <2>2. CASE x # r.wp
      <3>1. Held(r, x) /\ w.slots[x] = r.slots[x] /\ Off(r, x) > 0
        BY <1>2, <1>3, <2>2
      <3>2. \E j \in 2 .. k : r.slots[x] = batch[j]
        BY <3>1 DEF InOrder, Later
      <3> QED
        BY <3>1, <3>2
    <2> QED
      BY <2>1, <2>2
  <1> QED
    BY <1>4, <1>7, <1>8 DEF InOrder

\* BpfAgent::receive() keeps the packets in order.
LEMMA FilteredOrder ==
  ASSUME NEW batch, Mergeable(batch)
  PROVE  InOrder(FilteredRing(batch), batch, Len(batch)) /\ FilteredRing(batch) \in Rings
PROOF
  <1> DEFINE R(n) == Filtered(batch)[n].ring
             G == {n \in Nat : n <= Len(batch) => InOrder(R(n), batch, n)}
  <1>0. /\ Len(batch) \in Nat /\ \A k \in 1 .. Len(batch) : batch[k] \in Slot /\ k \in DOMAIN batch
        /\ batch \in Seq(Slot) /\ ring \in Rings
    BY ElementOfSeq, LenProperties DEF Mergeable
  <1>1. R(0) = ring
    BY <1>0, FilteredIs
  <1>2. \A k \in 0 .. Len(batch) : R(k) \in Rings
    BY <1>0, FilteredPairs DEF Pair
  <1>3. 0 \in G
    <2>1. Sources(ring, batch, 0)
      BY DEF Sources, FromRing
    <2>2. Later(ring, batch, 0)
      BY <1>0, EmptyHolds DEF Later
    <2> QED
      BY <1>1, <2>1, <2>2 DEF InOrder, Mergeable
  <1>4. ASSUME NEW n \in Nat, n \in G PROVE n + 1 \in G
    <2>1. SUFFICES ASSUME n + 1 <= Len(batch) PROVE InOrder(R(n + 1), batch, n + 1)
      OBVIOUS
    <2>2. InOrder(R(n), batch, n) /\ R(n) \in Rings
      BY <1>0, <1>2, <1>4, <2>1
    <2>3. PICK r \in Rings : r = R(n)
      BY <2>2
    <2>4. R(n + 1) \in {r, rbWrite(r, batch[n + 1])}
      <3>1. n + 1 \in 1 .. Len(batch) /\ (n + 1) - 1 = n /\ n \in 0 .. Len(batch)
        BY <1>0, <2>1
      <3>2. Filtered(batch)[n + 1] = Filter(Filtered(batch)[n], batch[n + 1])
        BY <1>0, <3>1, FilteredIs
      <3>3. Pair(Filtered(batch)[n])
        BY <1>0, <3>1, FilteredPairs
      <3> QED
        BY <1>0, <2>3, <3>1, <3>2, <3>3, FilterPair
    <2>5. CASE R(n + 1) = r
      <3>1. InOrder(r, batch, n + 1)
        BY <2>2, <2>3 DEF InOrder, Sources, Later
      <3> QED
        BY <2>5, <3>1
    <2>6. CASE R(n + 1) = rbWrite(r, batch[n + 1]) /\ R(n + 1) # r
      <3>1. n = 0 => r = ring
        BY <1>1, <2>3
      <3>2. n + 1 \in DOMAIN batch
        BY <1>0, <2>1
      <3> HIDE DEF R
      <3> QED
        BY <2>2, <2>3, <2>6, <3>1, <3>2, WriteOrder
    <2> QED
      BY <2>4, <2>5, <2>6
  <1>5. Nat \subseteq G
    <2> HIDE DEF G
    <2> QED
      BY <1>3, <1>4, InductionOnNat
  <1>6. InOrder(R(Len(batch)), batch, Len(batch)) /\ R(Len(batch)) \in Rings
    BY <1>0, <1>2, <1>5
  <1> QED
    BY <1>6 DEF FilteredRing

-----------------------------------------------------------------------------
(* The order is kept by every step                                          *)

\* What readers have, with one packet more
LEMMA GotMore ==
  ASSUME Types, Ordered, NEW n \in Int, n <= arrived, got' = Append(got, n),
         \A i \in DOMAIN got : After(got[i], n)
  PROVE  /\ GotOrder' /\ \A i \in DOMAIN got' : got'[i] <= arrived
         /\ \A i \in DOMAIN got' : got'[i] = n \/ \E k \in DOMAIN got : got'[i] = got[k]
PROOF
  <1>1. got \in Seq(Int)
    BY DEF Types
  <1>2. /\ DOMAIN got = 1 .. Len(got) /\ DOMAIN got' = 1 .. Len(got) + 1 /\ Len(got) \in Nat
        /\ \A i \in 1 .. Len(got) : got'[i] = got[i]
        /\ got'[Len(got) + 1] = n
    BY <1>1, AppendProperties, LenProperties
  <1>3. GotOrder'
    <2> SUFFICES ASSUME NEW i \in DOMAIN got', NEW j \in DOMAIN got', i < j
                 PROVE  After(got'[i], got'[j])
      BY DEF GotOrder
    <2>1. i \in DOMAIN got /\ got'[i] = got[i]
      BY <1>2
    <2>2. CASE j \in 1 .. Len(got)
      <3>1. got'[j] = got[j] /\ j \in DOMAIN got
        BY <1>2, <2>2
      <3> QED
        BY <2>1, <3>1 DEF Ordered, GotOrder
    <2>3. CASE j = Len(got) + 1
      BY <1>2, <2>1, <2>3
    <2> QED
      BY <1>2, <2>2, <2>3
  <1>4. \A i \in DOMAIN got' : got'[i] <= arrived
    BY <1>2 DEF Ordered, Past
  <1>5. \A i \in DOMAIN got' : got'[i] = n \/ \E k \in DOMAIN got : got'[i] = got[k]
    BY <1>2
  <1> QED
    BY <1>3, <1>4, <1>5

\* The ring after a read
LEMMA ReadOrder ==
  ASSUME NEW r \in Rings, ~isEmpty(r), RingOrder(r)
  PROVE  /\ RingOrder(rbRead(r)) /\ readn(r, 0) = r.slots[r.rp] /\ Held(r, r.rp) /\ r.rp \in 0 .. RbSize
         /\ \A x \in 0 .. RbSize : Held(rbRead(r), x) =>
              /\ Held(r, x) /\ Off(r, x) > 0 /\ rbRead(r).slots[x] = r.slots[x]
              /\ Before(readn(r, 0), r.slots[x])
PROOF
  <1>1. PICK q \in Rings : q = rbRead(r)
    BY RingTypes
  <1>2. /\ r.rp \in 0 .. RbSize /\ Held(r, r.rp) /\ Off(r, r.rp) = 0 /\ readn(r, 0) = r.slots[r.rp]
        /\ q.slots = r.slots
        /\ \A x \in 0 .. RbSize : Held(q, x) => Held(r, x) /\ Off(r, x) = Off(q, x) + 1 /\ Off(q, x) >= 0
    BY <1>1, ReadHolds
  <1>3. \A x \in 0 .. RbSize : Off(q, x) \in Int /\ Off(r, x) \in Int
    BY PbAssumption DEF Off, rbLen, Rings
  <1>4. RingOrder(q)
    <2> SUFFICES ASSUME NEW x \in 0 .. RbSize, NEW y \in 0 .. RbSize, Held(q, x), Held(q, y),
                        Off(q, x) < Off(q, y)
                 PROVE  Before(q.slots[x], q.slots[y])
      BY DEF RingOrder
    <2>1. Off(r, x) < Off(r, y)
      BY <1>2, <1>3
    <2> QED
      BY <1>2, <2>1 DEF RingOrder
  <1>5. \A x \in 0 .. RbSize : Held(q, x) => Held(r, x) /\ Off(r, x) > 0 /\ Before(readn(r, 0), r.slots[x])
    <2> SUFFICES ASSUME NEW x \in 0 .. RbSize, Held(q, x)
                 PROVE  Held(r, x) /\ Off(r, x) > 0 /\ Before(readn(r, 0), r.slots[x])
      OBVIOUS
    <2>1. Held(r, x) /\ Off(r, r.rp) < Off(r, x) /\ Off(r, x) > 0
      BY <1>2, <1>3
    <2> QED
      BY <1>2, <2>1 DEF RingOrder
  <1> QED
    BY <1>1, <1>2, <1>4, <1>5

\* The ring, the buffer and what readers have stay, or the buffer is emptied
LEMMA PlainOrder ==
  ASSUME Types, Types', Ordered,
         ring'.slots = ring.slots, ring'.rp = ring.rp, ring'.wp = ring.wp,
         kbuf' \in {kbuf, <<>>}, got' = got, arrived' = arrived, now <= now',
         \A k \in DOMAIN wire' : wire'[k] < 0, sent' >= 0
  PROVE  Ordered'
PROOF
  <1>1. \A x \in 0 .. RbSize : /\ Held(ring, x)' <=> Held(ring, x)
                               /\ Off(ring, x)' = Off(ring, x)
    BY DEF Held, Off, datanum
  <1>2. \A j \in DOMAIN kbuf' : kbuf' = kbuf
    OBVIOUS
  <1>3. RingOrder(ring)'
    BY <1>1 DEF Ordered, RingOrder, Before, After
  <1>4. BufferOrder(kbuf)'
    BY <1>2 DEF Ordered, BufferOrder, Before, After
  <1>5. RingBuffer'
    BY <1>1, <1>2 DEF Ordered, RingBuffer, Before, After
  <1>6. GotRing' /\ GotOrder'
    BY <1>1 DEF Ordered, GotRing, GotOrder, After
  <1>7. GotBuffer'
    BY <1>2 DEF Ordered, GotBuffer, After
  <1>8. Past'
    <2>1. \A p \in Slot : Known(p) => Known(p)'
      BY DEF Known, Slot, Types
    <2>2. \A x \in 0 .. RbSize : ring.slots[x] \in Slot
      BY DEF Types, Rings
    <2>3. \A j \in DOMAIN kbuf : kbuf[j] \in Slot
      BY ElementOfSeq DEF Types
    <2>4. \A x \in 0 .. RbSize : Held(ring, x)' => Known(ring.slots[x])'
      BY <1>1, <2>1, <2>2 DEF Ordered, Past, Known
    <2>5. \A j \in DOMAIN kbuf' : Known(kbuf[j])'
      BY <1>2, <2>1, <2>3 DEF Ordered, Past, Known
    <2> QED
      BY <2>4, <2>5 DEF Ordered, Past
  <1> QED
    BY <1>3, <1>4, <1>5, <1>6, <1>7, <1>8 DEF Ordered

\* A reader takes the oldest packet of the ring.
LEMMA TakeOrder ==
  ASSUME Types, Ordered, ~isEmpty(ring), ring' = rbRead(ring),
         got' = Append(got, readn(ring, 0).n),
         UNCHANGED <<kbuf, arrived, now, wire, sent>>
  PROVE  Ordered'
PROOF
  <1>1. ring \in Rings
    BY DEF Types
  <1>2. PICK q : q = rbRead(ring)
    OBVIOUS
  <1>a. PICK p : p = readn(ring, 0)
    OBVIOUS
  <1>3. /\ RingOrder(q) /\ p = ring.slots[ring.rp] /\ Held(ring, ring.rp) /\ ring.rp \in 0 .. RbSize
        /\ \A x \in 0 .. RbSize : Held(q, x) =>
              Held(ring, x) /\ q.slots[x] = ring.slots[x] /\ Before(p, ring.slots[x])
    BY <1>1, <1>2, <1>a, ReadOrder DEF Ordered
  <1>4. /\ p \in Slot /\ p.n \in Int /\ p.n <= arrived
        /\ \A i \in DOMAIN got : After(got[i], p.n)
    <2>1. p \in Slot
      BY <1>1, <1>3 DEF Rings
    <2> QED
      BY <1>3, <2>1 DEF Ordered, GotRing, Past, Known, Slot
  <1>5. /\ GotOrder' /\ \A i \in DOMAIN got' : got'[i] <= arrived
        /\ \A i \in DOMAIN got' : got'[i] = p.n \/ \E k \in DOMAIN got : got'[i] = got[k]
    BY <1>4, <1>a, GotMore
  <1>6. RingOrder(ring)'
    <2>1. RingOrder(q)
      BY <1>3
    <2> QED
      BY <1>2, <2>1 DEF RingOrder, Held, Off, datanum, Before, After
  <1>7. \A x \in 0 .. RbSize : Held(ring, x)' => Held(q, x)
    BY <1>2 DEF Held, Off, datanum
  <1>8. RingBuffer'
    BY <1>2, <1>3, <1>7 DEF Ordered, RingBuffer, Before, After
  <1>9. GotRing'
    <2> SUFFICES ASSUME NEW i \in DOMAIN got', NEW x \in 0 .. RbSize, Held(q, x)
                 PROVE  After(got'[i], q.slots[x].n)
      BY <1>2, <1>7 DEF GotRing, After
    <2>1. Held(ring, x) /\ q.slots[x] = ring.slots[x] /\ After(p.n, ring.slots[x].n)
      BY <1>3 DEF Before
    <2> QED
      BY <1>5, <2>1 DEF Ordered, GotRing
  <1>10. GotBuffer'
    <2> SUFFICES ASSUME NEW i \in DOMAIN got', NEW j \in DOMAIN kbuf
                 PROVE  After(got'[i], kbuf[j].n)
      BY DEF GotBuffer, After
    <2>1. After(p.n, kbuf[j].n)
      BY <1>3 DEF Ordered, RingBuffer, Before
    <2> QED
      BY <1>5, <2>1 DEF Ordered, GotBuffer
  <1>11. Past'
    BY <1>2, <1>3, <1>5, <1>7 DEF Ordered, Past, Known
  <1>12. BufferOrder(kbuf)'
    BY DEF Ordered, BufferOrder, Before, After
  <1> QED
    BY <1>5, <1>6, <1>8, <1>9, <1>10, <1>11, <1>12 DEF Ordered

\* A batch that goes through the ring: r is the ring after it.
LEMMA BatchOrder ==
  ASSUME Types, Ordered, NEW r, r = FilteredRing(kbuf)
  PROVE  /\ r \in Rings /\ RingOrder(r)
         /\ \A x \in 0 .. RbSize : Held(r, x) =>
              /\ r.slots[x].at <= now /\ r.slots[x].n <= arrived
              /\ \A i \in DOMAIN got : After(got[i], r.slots[x].n)
         /\ isEmpty(ring) /\ kbuf # <<>> =>
              \A x \in 0 .. RbSize : Held(r, x) /\ Off(r, x) > 0 => After(kbuf[1].n, r.slots[x].n)
PROOF
  <1>1. kbuf \in Seq(Slot) /\ DOMAIN kbuf = 1 .. Len(kbuf) /\ Len(kbuf) \in Nat
    BY LenProperties DEF Types
  <1>2. Mergeable(kbuf)
    BY <1>1 DEF Mergeable, Types, Ordered, RingBuffer
  <1>3. InOrder(r, kbuf, Len(kbuf)) /\ r \in Rings
    BY <1>2, FilteredOrder
  <1>4. \A p : FromRing(p) => p.at <= now /\ p.n <= arrived /\ \A i \in DOMAIN got : After(got[i], p.n)
    BY DEF FromRing, Ordered, Past, Known, GotRing
  <1>5. \A j \in 1 .. Len(kbuf) : /\ kbuf[j].at <= now /\ kbuf[j].n <= arrived
                                  /\ \A i \in DOMAIN got : After(got[i], kbuf[j].n)
    BY <1>1 DEF Ordered, Past, Known, GotBuffer
  <1>6. ASSUME NEW x \in 0 .. RbSize, Held(r, x)
        PROVE  /\ r.slots[x].at <= now /\ r.slots[x].n <= arrived
               /\ \A i \in DOMAIN got : After(got[i], r.slots[x].n)
    <2>1. FromRing(r.slots[x]) \/ \E j \in 1 .. Len(kbuf) : r.slots[x] = kbuf[j]
      BY <1>3, <1>6 DEF InOrder, Sources
    <2> QED
      BY <1>4, <1>5, <2>1
  <1>7. ASSUME isEmpty(ring), kbuf # <<>>, NEW x \in 0 .. RbSize, Held(r, x), Off(r, x) > 0
        PROVE  After(kbuf[1].n, r.slots[x].n)
    <2>1. PICK j \in 2 .. Len(kbuf) : r.slots[x] = kbuf[j]
      BY <1>3, <1>7 DEF InOrder, Later
    <2>2. Before(kbuf[1], kbuf[j])
      BY <1>1, <2>1 DEF Ordered, BufferOrder
    <2> QED
      BY <2>1, <2>2 DEF Before
  <1> QED
    BY <1>3, <1>6, <1>7 DEF InOrder

LEMMA ReceiveOrder == ASSUME W, Ordered, receive PROVE Ordered'
PROOF
  <1> DEFINE s == Received(kbuf)
  <1>1. /\ ring' = s.ring /\ got' = s.got /\ kbuf' = <<>>
        /\ UNCHANGED <<wire, now, arrived, sent>>
    BY DEF receive, Notifies
  <1>2. /\ ring \in Rings /\ kbuf \in Seq(Slot) /\ Types
        /\ readwait # Nobody => isEmpty(ring)
    BY DEF W, Types, WaitInv, Reader
  <1>3. PICK r : r = FilteredRing(kbuf)
    OBVIOUS
  <1>4. /\ r \in Rings /\ RingOrder(r)
        /\ \A x \in 0 .. RbSize : Held(r, x) =>
              /\ r.slots[x].at <= now /\ r.slots[x].n <= arrived
              /\ \A i \in DOMAIN got : After(got[i], r.slots[x].n)
        /\ isEmpty(ring) /\ kbuf # <<>> =>
              \A x \in 0 .. RbSize : Held(r, x) /\ Off(r, x) > 0 => After(kbuf[1].n, r.slots[x].n)
    BY <1>2, <1>3, BatchOrder
  <1>5. BufferOrder(kbuf)' /\ RingBuffer' /\ GotBuffer'
    BY <1>1 DEF BufferOrder, RingBuffer, GotBuffer
  <1> HIDE DEF s
  <1>6. CASE s.ring = r /\ s.got = got
    <2>1. \A x \in 0 .. RbSize : Held(ring, x)' => Held(r, x)
      BY <1>1, <1>6 DEF Held, Off, datanum
    <2>2. RingOrder(ring)'
      BY <1>1, <1>4, <1>6 DEF RingOrder, Held, Off, datanum, Before, After
    <2>3. GotRing' /\ GotOrder'
      BY <1>1, <1>4, <1>6, <2>1 DEF Ordered, GotRing, GotOrder, After
    <2>4. Past'
      BY <1>1, <1>4, <1>6, <2>1 DEF Ordered, Past, Known
    <2> QED
      BY <1>5, <2>2, <2>3, <2>4 DEF Ordered
  <1>7. CASE /\ readwait # Nobody /\ ~isEmpty(r) /\ kbuf # <<>> /\ kbuf[1] \in Slot
             /\ s.ring = rbRead(r) /\ s.got = Append(got, kbuf[1].n)
    <2>1. PICK q : q = rbRead(r)
      OBVIOUS
    <2>2. /\ RingOrder(q)
          /\ \A x \in 0 .. RbSize : Held(q, x) =>
                Held(r, x) /\ Off(r, x) > 0 /\ q.slots[x] = r.slots[x]
      BY <1>4, <1>7, <2>1, ReadOrder
    <2>3. 1 \in DOMAIN kbuf /\ kbuf[1].n \in Int
      BY <1>2, <1>7, LenProperties, EmptySeq DEF Slot
    <2>4. /\ kbuf[1].n <= arrived /\ \A i \in DOMAIN got : After(got[i], kbuf[1].n)
      BY <2>3 DEF Ordered, Past, Known, GotBuffer
    <2>5. /\ GotOrder' /\ \A i \in DOMAIN got' : got'[i] <= arrived
          /\ \A i \in DOMAIN got' : got'[i] = kbuf[1].n \/ \E k \in DOMAIN got : got'[i] = got[k]
      BY <1>1, <1>2, <1>7, <2>3, <2>4, GotMore
    <2>6. \A x \in 0 .. RbSize : Held(ring, x)' => Held(q, x)
      BY <1>1, <1>7, <2>1 DEF Held, Off, datanum
    <2>7. RingOrder(ring)'
      BY <1>1, <1>7, <2>1, <2>2 DEF RingOrder, Held, Off, datanum, Before, After
    <2>8. GotRing'
      <3> SUFFICES ASSUME NEW i \in DOMAIN got', NEW x \in 0 .. RbSize, Held(q, x)
                   PROVE  After(got'[i], q.slots[x].n)
        BY <1>1, <1>7, <2>1, <2>6 DEF GotRing, After
      <3>1. Held(r, x) /\ Off(r, x) > 0 /\ q.slots[x] = r.slots[x]
        BY <2>2
      <3>2. After(kbuf[1].n, r.slots[x].n)
        BY <1>2, <1>4, <1>7, <3>1
      <3> QED
        BY <1>4, <2>5, <3>1, <3>2
    <2>9. Past'
      BY <1>1, <1>4, <1>7, <2>1, <2>2, <2>5, <2>6 DEF Ordered, Past, Known
    <2> QED
      BY <1>5, <2>5, <2>7, <2>8, <2>9 DEF Ordered
  <1> QED
    BY <1>2, <1>3, <1>6, <1>7, ReceivedIs DEF s

LEMMA ClearOrder == ASSUME NEW c \in Clients, W, Ordered, clearRequest(c) PROVE Ordered'
PROOF
  <1>a. PICK s : s = IF fifo = <<>> THEN With(fifo, ring) ELSE Received(kbuf)
    OBVIOUS
  <1>1. /\ ring' = rbClear(s.ring) /\ got' = s.got /\ kbuf' = <<>>
        /\ UNCHANGED <<wire, now, arrived, sent>>
    BY <1>a DEF clearRequest, Serves, Notifies
  <1>2. /\ ring \in Rings /\ kbuf \in Seq(Slot) /\ Types
        /\ readwait # Nobody => isEmpty(ring)
    BY DEF W, Types, WaitInv, Reader
  <1>3. PICK r \in Rings : r = FilteredRing(kbuf)
    BY <1>2, ReceivedIs
  <1>4. s.ring \in Rings /\ (s.got = got \/ (kbuf # <<>> /\ s.got = Append(got, kbuf[1].n)))
    <2>1. rbRead(r) \in Rings
      BY RingTypes
    <2>2. CASE fifo = <<>>
      BY <1>2, <1>a, <2>2 DEF With
    <2>3. CASE fifo # <<>>
      <3>1. s = Received(kbuf)
        BY <1>a, <2>3
      <3> QED
        BY <1>2, <1>3, <2>1, <3>1, ReceivedIs
    <2> QED
      BY <2>2, <2>3
  <1>5. \A x \in 0 .. RbSize : ~Held(ring, x)'
    <2>1. PICK q \in Rings : q = rbClear(s.ring)
      BY <1>4, RingTypes
    <2>2. isEmpty(q)
      BY <1>4, <2>1, RingTypes
    <2>3. \A x \in 0 .. RbSize : ~Held(q, x)
      BY <2>2, EmptyHolds
    <2> QED
      BY <1>1, <2>1, <2>3 DEF Held, Off, datanum
  <1>6. GotOrder' /\ \A i \in DOMAIN got' : got'[i] <= arrived
    <2>1. CASE s.got = got
      BY <1>1, <2>1 DEF Ordered, GotOrder, Past, After
    <2>2. CASE kbuf # <<>> /\ s.got = Append(got, kbuf[1].n)
      <3>1. 1 \in DOMAIN kbuf /\ kbuf[1] \in Slot
        BY <1>2, <2>2, LenProperties, EmptySeq, ElementOfSeq
      <3>2. kbuf[1].n \in Int /\ kbuf[1].n <= arrived /\ \A i \in DOMAIN got : After(got[i], kbuf[1].n)
        BY <3>1 DEF Ordered, Past, Known, GotBuffer, Slot
      <3> QED
        BY <1>1, <1>2, <2>2, <3>2, GotMore
    <2> QED
      BY <1>4, <2>1, <2>2
  <1>7. RingOrder(ring)' /\ RingBuffer' /\ GotRing'
    <2>1. RingOrder(ring)'
      BY <1>5 DEF RingOrder, Held
    <2> QED
      BY <1>5, <2>1 DEF RingBuffer, GotRing
  <1>8. BufferOrder(kbuf)' /\ GotBuffer'
    BY <1>1 DEF BufferOrder, GotBuffer
  <1>9. Past'
    BY <1>1, <1>5, <1>6 DEF Ordered, Past
  <1> QED
    BY <1>6, <1>7, <1>8, <1>9 DEF Ordered

\* A packet comes into the buffer of the kernel, with the newest number or a sent one.
LEMMA ComesOrder ==
  ASSUME Types, Ordered, NEW n \in Int, kbuf' = Append(kbuf, [n |-> n, at |-> now]),
         n = arrived + 1 \/ n < 0, arrived' >= arrived, n <= arrived', arrived' \in Int,
         \A k \in DOMAIN wire' : wire'[k] < 0,
         UNCHANGED <<ring, got, now, sent>>
  PROVE  Ordered'
PROOF
  <1>a. PICK new : new = [n |-> n, at |-> now]
    OBVIOUS
  <1>0. new \in Slot /\ new.n = n /\ new.at = now /\ kbuf' = Append(kbuf, new)
    BY <1>a DEF Slot, Types
  <1>1. /\ kbuf \in Seq(Slot) /\ got \in Seq(Int) /\ Len(kbuf) \in Nat /\ DOMAIN kbuf = 1 .. Len(kbuf)
        /\ \A j \in DOMAIN kbuf : kbuf[j] \in Slot
        /\ \A i \in DOMAIN got : got[i] \in Int
        /\ \A x \in 0 .. RbSize : ring.slots[x] \in Slot
    <2>1. kbuf \in Seq(Slot) /\ got \in Seq(Int)
      BY DEF Types
    <2>2. \A x \in 0 .. RbSize : ring.slots[x] \in Slot
      BY DEF Types, Rings
    <2> QED
      BY <2>1, <2>2, LenProperties, ElementOfSeq
  <1>2. /\ DOMAIN kbuf' = 1 .. Len(kbuf) + 1
        /\ \A j \in 1 .. Len(kbuf) : kbuf'[j] = kbuf[j]
        /\ kbuf'[Len(kbuf) + 1] = new
    BY <1>0, <1>1, AppendProperties
  <1>3. \A p \in Slot : Known(p) => Before(p, new)
    BY <1>0 DEF Known, Before, After, Slot, Types
  <1>4. \A i \in DOMAIN got : After(got[i], n)
    BY <1>1 DEF Ordered, Past, After, Types
  <1>5. BufferOrder(kbuf)'
    <2>1. \A j \in 1 .. Len(kbuf) : Before(kbuf[j], new)
      BY <1>1, <1>3 DEF Ordered, Past
    <2>2. \A i, j \in DOMAIN kbuf' : i < j => Before(kbuf'[i], kbuf'[j])
      <3> SUFFICES ASSUME NEW i \in DOMAIN kbuf', NEW j \in DOMAIN kbuf', i < j
                   PROVE  Before(kbuf'[i], kbuf'[j])
        OBVIOUS
      <3>1. i \in 1 .. Len(kbuf) /\ kbuf'[i] = kbuf[i]
        BY <1>1, <1>2
      <3>2. CASE j \in 1 .. Len(kbuf)
        <4>1. kbuf'[j] = kbuf[j]
          BY <1>2, <3>2
        <4> QED
          BY <1>1, <3>1, <3>2, <4>1 DEF Ordered, BufferOrder
      <3>3. CASE j = Len(kbuf) + 1
        BY <1>2, <2>1, <3>1, <3>3
      <3> QED
        BY <1>1, <1>2, <3>2, <3>3
    <2> QED
      BY <2>2 DEF BufferOrder, Before, After
  <1>6. RingBuffer'
    <2> SUFFICES ASSUME NEW x \in 0 .. RbSize, NEW j \in DOMAIN kbuf', Held(ring, x)
                 PROVE  Before(ring.slots[x], kbuf'[j])
      BY DEF RingBuffer, Held, Off, datanum, Before, After
    <2>1. Before(ring.slots[x], new)
      BY <1>1, <1>3 DEF Ordered, Past
    <2>2. CASE j \in 1 .. Len(kbuf)
      BY <1>1, <1>2, <2>2 DEF Ordered, RingBuffer
    <2>3. CASE j = Len(kbuf) + 1
      BY <1>2, <2>1, <2>3
    <2> QED
      BY <1>1, <1>2, <2>2, <2>3
  <1>7. GotBuffer'
    <2> SUFFICES ASSUME NEW i \in DOMAIN got, NEW j \in DOMAIN kbuf'
                 PROVE  After(got[i], kbuf'[j].n)
      BY DEF GotBuffer, After
    <2>1. CASE j \in 1 .. Len(kbuf)
      BY <1>1, <1>2, <2>1 DEF Ordered, GotBuffer
    <2>2. CASE j = Len(kbuf) + 1
      BY <1>0, <1>2, <1>4, <2>2
    <2> QED
      BY <1>1, <1>2, <2>1, <2>2
  <1>8. RingOrder(ring)' /\ GotRing' /\ GotOrder'
    BY DEF Ordered, RingOrder, GotRing, GotOrder, Held, Off, datanum, Before, After
  <1>9. Past'
    <2>1. \A p \in Slot : Known(p) => p.at <= now /\ p.n <= arrived'
      BY DEF Known, Slot, Types
    <2>2. \A x \in 0 .. RbSize : Held(ring, x)' => Known(ring.slots[x])'
      BY <1>1, <2>1 DEF Ordered, Past, Known, Held, Off, datanum
    <2>3. \A j \in DOMAIN kbuf' : kbuf'[j].at <= now /\ kbuf'[j].n <= arrived'
      <3> SUFFICES ASSUME NEW j \in DOMAIN kbuf'
                   PROVE  kbuf'[j].at <= now /\ kbuf'[j].n <= arrived'
        OBVIOUS
      <3>1. CASE j \in 1 .. Len(kbuf)
        BY <1>1, <1>2, <2>1, <3>1 DEF Ordered, Past
      <3>2. CASE j = Len(kbuf) + 1
        BY <1>0, <1>2, <3>2 DEF Types
      <3> QED
        BY <1>1, <1>2, <3>1, <3>2
    <2>4. \A i \in DOMAIN got : got[i] <= arrived'
      BY <1>1 DEF Ordered, Past, Types
    <2> QED
      BY <2>2, <2>3, <2>4 DEF Ordered, Past, Known, Types
  <1> QED
    BY <1>5, <1>6, <1>7, <1>8, <1>9 DEF Ordered

\* The steps that take no packet and bring none
Plain ==
  /\ ring'.slots = ring.slots /\ ring'.rp = ring.rp /\ ring'.wp = ring.wp
  /\ kbuf' \in {kbuf, <<>>} /\ got' = got /\ arrived' = arrived /\ now <= now'
  /\ \A k \in DOMAIN wire' : wire'[k] < 0
  /\ sent' >= 0

LEMMA PlainRequest ==
  ASSUME NEW c \in Clients, W, Ordered,
         \/ connectRequest(c) \/ wrapRequest(c) \/ nowrapRequest(c) \/ captureRequest(c)
         \/ stopRequest(c) \/ dumpRequest(c) \/ connectionLost(c)
  PROVE  Plain
PROOF
  <1>1. /\ \A k \in DOMAIN wire : wire[k] < 0
        /\ sent >= 0 /\ now \in Int /\ ring \in Rings
    BY DEF W, Types, Ordered, Past
  <1>2. \A m \in {"WRAP", "NOWRAP"} : LET q == [ring EXCEPT !.mode = m]
                                      IN q.slots = ring.slots /\ q.rp = ring.rp /\ q.wp = ring.wp
    BY <1>1 DEF Rings
  <1>3. now' = now /\ wire' = wire /\ sent' = sent /\ got' = got /\ arrived' = arrived
    BY DEF connectRequest, wrapRequest, nowrapRequest, captureRequest, stopRequest, dumpRequest,
           connectionLost, Simple, Serves, Notifies
  <1>4. kbuf' \in {kbuf, <<>>}
    BY DEF connectRequest, wrapRequest, nowrapRequest, captureRequest, stopRequest, dumpRequest,
           connectionLost, Simple
  <1>5. ring' = ring \/ \E m \in {"WRAP", "NOWRAP"} : ring' = [ring EXCEPT !.mode = m]
    BY DEF connectRequest, wrapRequest, nowrapRequest, captureRequest, stopRequest, dumpRequest,
           connectionLost, Simple
  <1>6. ring'.slots = ring.slots /\ ring'.rp = ring.rp /\ ring'.wp = ring.wp
    BY <1>2, <1>5
  <1>7. /\ \A k \in DOMAIN wire' : wire'[k] < 0
        /\ sent' >= 0 /\ now <= now'
    BY <1>1, <1>3
  <1> QED
    BY <1>3, <1>4, <1>6, <1>7 DEF Plain

LEMMA PlainWrite == ASSUME NEW c \in Clients, W, Ordered, writeRequest(c) PROVE Plain
PROOF
  <1>1. /\ wire \in Seq(Int) /\ sent \in Int /\ sent >= 0 /\ now \in Int
        /\ \A k \in DOMAIN wire : wire[k] < 0
    BY DEF W, Types, Ordered, Past
  <1>2. /\ sent' = sent + 1 /\ wire' \in {wire, Append(wire, -(sent + 1))} /\ now' = now
        /\ UNCHANGED <<ring, kbuf, got, arrived>>
    BY DEF writeRequest, Serves, Notifies
  <1>3. \A k \in DOMAIN wire' : wire'[k] < 0
    <2>1. -(sent + 1) \in Int /\ -(sent + 1) < 0
      BY <1>1
    <2>2. PICK n \in Int : n = -(sent + 1)
      BY <2>1
    <2>3. /\ DOMAIN wire = 1 .. Len(wire) /\ Len(wire) \in Nat
          /\ DOMAIN Append(wire, n) = 1 .. Len(wire) + 1
          /\ \A k \in 1 .. Len(wire) : Append(wire, n)[k] = wire[k]
          /\ Append(wire, n)[Len(wire) + 1] = n
      BY <1>1, AppendProperties, LenProperties
    <2> QED
      BY <1>1, <1>2, <2>1, <2>2, <2>3
  <1> QED
    BY <1>1, <1>2, <1>3 DEF Plain

LEMMA PlainOthers ==
  ASSUME W, Ordered,
         \/ Selects(Ready) /\ UNCHANGED pbVars
         \/ Tick /\ UNCHANGED pbVars
         \/ UNCHANGED vars
         \/ accept
         \/ \E c \in Clients : timeout(c)
         \/ \E c \in Clients, r \in Requests, dl \in Deadlines \cup {0} : Asks(c, r, dl)
         \/ \E c \in Clients : connect(c) \/ Exits(c) \/ Killed(c)
  PROVE  Plain
PROOF
  <1>1. /\ \A k \in DOMAIN wire : wire[k] < 0
        /\ sent >= 0 /\ now \in Int
    BY DEF W, Types, Ordered, Past
  <1>2. UNCHANGED <<ring, kbuf, got, arrived, wire, sent>>
    BY DEF pbVars, vars, accept, timeout, Asks, connect, Exits, Killed
  <1>3. now' = now \/ now' = now + 1
    <2>1. ASSUME \/ Selects(Ready)
                 \/ Tick
                 \/ UNCHANGED vars
          PROVE  now' = now \/ now' = now + 1
      BY <2>1 DEF Selects, Tick, vars, cmVars
    <2>2. ASSUME accept PROVE now' = now
      BY <2>2 DEF accept, Notifies
    <2>3. ASSUME NEW c \in Clients, timeout(c) PROVE now' = now
      BY <2>3 DEF timeout, Expires
    <2>4. ASSUME NEW c \in Clients, NEW r, NEW dl, Asks(c, r, dl) PROVE now' = now
      BY <2>4 DEF Asks, cmVars
    <2>5. ASSUME NEW c \in Clients, connect(c) \/ Exits(c) \/ Killed(c) PROVE now' = now
      <3>1. UNCHANGED cmVars
        BY <2>5 DEF connect, Exits, Killed
      <3> QED
        BY <3>1 DEF cmVars
    <2> QED
      BY <2>1, <2>2, <2>3, <2>4, <2>5
  <1> QED
    BY <1>1, <1>2, <1>3 DEF Plain

LEMMA ReadRequestOrder ==
  ASSUME NEW c \in Clients, W, Types', Ordered, readRequest(c) PROVE Ordered'
PROOF
  <1>1. now' = now /\ UNCHANGED <<kbuf, wire, sent, arrived>>
    BY DEF readRequest, Serves, Notifies
  <1>2. CASE ring' = ring /\ got' = got
    <2>1. Plain
      BY <1>1, <1>2 DEF Plain, Ordered, Past, W, Types
    <2> QED
      BY <2>1, PlainOrder DEF W, Plain
  <1>3. CASE ~isEmpty(ring) /\ ring' = rbRead(ring) /\ got' = Append(got, readn(ring, 0).n)
    BY <1>1, <1>3, TakeOrder DEF W
  <1> QED
    BY <1>2, <1>3 DEF readRequest

LEMMA WorldOrder == ASSUME W, Types', Ordered, Arrives \/ Echoes PROVE Ordered'
PROOF
  <1>1. CASE Arrives
    <2>1. /\ arrived' = arrived + 1 /\ kbuf' = Append(kbuf, [n |-> arrived + 1, at |-> now])
          /\ UNCHANGED <<wire, ring, got, now, sent>>
      BY <1>1 DEF Arrives, cmVars
    <2>2. arrived \in Int /\ arrived + 1 \in Int /\ \A k \in DOMAIN wire : wire[k] < 0
      BY DEF W, Types, Ordered, Past
    <2> QED
      BY <2>1, <2>2, ComesOrder DEF W
  <1>2. CASE Echoes
    <2>1. /\ wire # <<>> /\ kbuf' = Append(kbuf, [n |-> Head(wire), at |-> now]) /\ wire' = Tail(wire)
          /\ UNCHANGED <<arrived, ring, got, now, sent>>
      BY <1>2 DEF Echoes, cmVars
    <2>2. /\ wire \in Seq(Int) /\ Len(wire) \in Nat /\ DOMAIN wire = 1 .. Len(wire) /\ arrived \in Int
          /\ arrived >= 0 /\ \A k \in DOMAIN wire : wire[k] < 0
      BY LenProperties DEF W, Types, Ordered, Past
    <2>3. Head(wire) \in Int /\ Head(wire) < 0
      <3>1. Head(wire) = wire[1] /\ 1 \in DOMAIN wire /\ Head(wire) \in Int
        BY <2>1, <2>2, HeadTailProperties, EmptySeq
      <3> QED
        BY <2>2, <3>1
    <2>4. \A k \in DOMAIN wire' : wire'[k] < 0
      <3>1. /\ Tail(wire) \in Seq(Int) /\ Len(Tail(wire)) = Len(wire) - 1
            /\ \A k \in 1 .. Len(Tail(wire)) : Tail(wire)[k] = wire[k + 1]
        BY <2>1, <2>2, HeadTailProperties
      <3>2. DOMAIN Tail(wire) = 1 .. Len(Tail(wire))
        BY <3>1, LenProperties
      <3> QED
        BY <2>1, <2>2, <3>1, <3>2
    <2> QED
      BY <2>1, <2>2, <2>3, <2>4, ComesOrder DEF W
  <1> QED
    BY <1>1, <1>2

LEMMA StepOrder == ASSUME W, W', Ordered, [PbNext]_vars PROVE Ordered'
PROOF
  <1>1. Types' /\ Types
    BY DEF W
  <1>2. ASSUME Plain PROVE Ordered'
    BY <1>1, <1>2, PlainOrder DEF Plain
  <1>3. CASE Dispatch
    <2>1. ASSUME NEW c \in Clients, Request(c) PROVE Ordered'
      BY <1>1, <1>2, <2>1, PlainRequest, PlainWrite, ClearOrder, ReadRequestOrder DEF Request
    <2>2. CASE (Selects(Ready) /\ UNCHANGED pbVars) \/ accept \/ \E c \in Clients : timeout(c)
      BY <1>2, <2>2, PlainOthers
    <2>3. CASE receive
      BY <2>3, ReceiveOrder
    <2> QED
      BY <1>3, <2>1, <2>2, <2>3 DEF Dispatch
  <1>4. CASE Arrives \/ Echoes
    BY <1>1, <1>4, WorldOrder
  <1>5. CASE \/ Tick /\ UNCHANGED pbVars
             \/ UNCHANGED vars
             \/ \E c \in Clients, r \in Requests, dl \in Deadlines \cup {0} : Asks(c, r, dl)
             \/ \E c \in Clients : connect(c) \/ Exits(c) \/ Killed(c)
    BY <1>2, <1>5, PlainOthers
  <1> QED
    BY <1>3, <1>4, <1>5 DEF PbNext

LEMMA InitOrder == PbInit => Ordered
PROOF
  <1> SUFFICES ASSUME PbInit PROVE Ordered
    OBVIOUS
  <1>1. /\ kbuf = <<>> /\ wire = <<>> /\ got = <<>> /\ arrived = 0 /\ sent = 0
    BY DEF PbInit
  <1>2. \A x \in 0 .. RbSize : ~Held(ring, x)
    <2>1. ring \in Rings
      BY InitW DEF W, Types
    <2>2. isEmpty(ring)
      <3>1. PICK mode \in {"WRAP", "NOWRAP"} :
              ring = [slots |-> [k \in 0 .. RbSize |-> NoPacket], rp |-> 0, wp |-> 0, mode |-> mode]
        BY DEF PbInit
      <3> QED
        BY <3>1 DEF isEmpty
    <2> QED
      BY <2>1, <2>2, EmptyHolds
  <1> QED
    BY <1>1, <1>2 DEF Ordered, RingOrder, BufferOrder, RingBuffer, GotRing, GotBuffer, GotOrder, Past

\* A packet of the network is given to readers at most once and in the order of arrival,
\* from the ring (readRequest) or to the client that waits (readydata), which is given the
\* first packet of a batch while the oldest one of the ring is dropped: it is only given
\* one when the ring was empty before the batch, so that what stays in the ring is later.
THEOREM ReadInOrderHolds == ASSUME MaxAlive = 1 PROVE PbSpec => []ReadInOrder
PROOF
  <1>1. PbInit => W /\ Ordered
    BY InitW, InitOrder
  <1>2. W /\ Ordered /\ [PbNext]_vars => W' /\ Ordered'
    BY StepW, StepOrder
  <1>3. Ordered => ReadInOrder
    BY OrderIsReadInOrder
  <1> QED
    BY <1>1, <1>2, <1>3, PTL DEF PbSpec

-----------------------------------------------------------------------------
(* Timeouts                                                                 *)

\* What TimeoutIsTrue says of a step
TrueTimeout ==
  \A c \in Clients :
    tool[c].ans = None /\ tool'[c].ans = "timeout"
      => /\ tool[c].deadline # 0 /\ tool[c].deadline <= now
         /\ \A p \in Range(Contents) : p.at > tool[c].deadline

\* Nobody is told of a timeout
Silent == \A d \in Clients : tool'[d].ans = "timeout" => tool[d].ans = "timeout"

LEMMA SilentIsTrue == Silent => TrueTimeout
PROOF
  BY DEF Silent, TrueTimeout, None

LEMMA ContentsHeld ==
  ASSUME ring \in Rings
  PROVE  \A p \in Range(Contents) : \E x \in 0 .. RbSize : Held(ring, x) /\ p = ring.slots[x]
PROOF
  <1> USE PbAssumption
  <1>1. /\ ring.rp \in 0 .. RbSize /\ ring.wp \in 0 .. RbSize /\ datanum(ring) \in 0 .. RbSize
        /\ RbSize \in Nat
    BY RingTypes DEF Rings
  <1>2. \A k \in 1 .. datanum(ring) : /\ place(ring, k - 1) \in 0 .. RbSize
                                      /\ Off(ring, place(ring, k - 1)) = k - 1
    BY <1>1 DEF place, Off, rbLen
  <1>3. SUFFICES ASSUME NEW p \in Range(Contents)
                 PROVE  \E x \in 0 .. RbSize : Held(ring, x) /\ p = ring.slots[x]
    OBVIOUS
  <1>4. PICK k \in 1 .. datanum(ring) : p = ring.slots[place(ring, k - 1)]
    BY <1>3 DEF Range, Contents
  <1>5. Held(ring, place(ring, k - 1))
    BY <1>1, <1>2 DEF Held
  <1> QED
    BY <1>2, <1>4, <1>5

\* An answer that is no timeout
LEMMA OtherAnswer ==
  ASSUME NEW c \in Clients, W, NEW t \in [Clients -> Tools],
         \A d \in Clients : t[d].ans = "timeout" => tool[d].ans = "timeout",
         NEW ans \in Replies, ans # "timeout", NEW p \in Slot, NEW dp \in 0 .. RbSize,
         Responds(t, c, ans, p, dp)
  PROVE  Silent
PROOF
  <1>1. IsFiniteSet(leaked)
    BY DEF W, Types, ConnTypes
  <1>2. Replied(t, c) /\ tool'[c].ans \in {ans, None}
    BY <1>1, RespondsIs
  <1>3. tool'[c].ans # "timeout"
    BY <1>2 DEF None
  <1> QED
    BY <1>2, <1>3 DEF Replied, Silent

LEMMA SilentRequests ==
  ASSUME NEW c \in Clients, W,
         \/ connectRequest(c) \/ wrapRequest(c) \/ nowrapRequest(c) \/ captureRequest(c)
         \/ stopRequest(c) \/ writeRequest(c)
  PROVE  Silent
PROOF
  <1>1. Responds(tool, c, "ok", NoPacket, 0)
    BY DEF connectRequest, wrapRequest, nowrapRequest, captureRequest, stopRequest, writeRequest, Simple
  <1>2. "ok" \in Replies /\ NoPacket \in Slot /\ 0 \in 0 .. RbSize
    BY PbAssumption DEF Replies, NoPacket, Slot
  <1>3. tool \in [Clients -> Tools]
    BY DEF W, Types, ConnTypes
  <1> QED
    BY <1>1, <1>2, <1>3, OtherAnswer

LEMMA SilentDump == ASSUME NEW c \in Clients, W, dumpRequest(c) PROVE Silent
PROOF
  <1> DEFINE next == tool[c].dp + 1
             ans == IF isEmpty(ring) THEN "empty" ELSE "dumped"
             dp == IF isEmpty(ring) \/ next >= datanum(ring) THEN 0 ELSE next
             p == readn(ring, tool[c].dp)
  <1>1. Responds(tool, c, ans, p, dp)
    BY DEF dumpRequest
  <1>2. ans \in Replies /\ ans # "timeout"
    BY DEF Replies
  <1>3. ring \in Rings /\ tool[c].dp \in 0 .. RbSize /\ tool \in [Clients -> Tools]
    BY DEF W, Types, ConnTypes, Tools
  <1>4. p \in Slot /\ datanum(ring) \in 0 .. RbSize
    BY <1>3, RingTypes
  <1>5. dp \in 0 .. RbSize
    BY <1>3, <1>4, PbAssumption
  <1> HIDE DEF ans, dp, p
  <1> QED
    BY <1>1, <1>2, <1>3, <1>4, <1>5, OtherAnswer

\* The tools after a batch: none, or the one that waits, is told of a packet
LEMMA SilentBatch ==
  ASSUME W
  PROVE  /\ Received(kbuf).tool \in [Clients -> Tools]
         /\ \A d \in Clients : Received(kbuf).tool[d].ans = "timeout" => tool[d].ans = "timeout"
PROOF
  <1>1. /\ ring \in Rings /\ kbuf \in Seq(Slot) /\ tool \in [Clients -> Tools]
        /\ readwait # Nobody => isEmpty(ring)
    BY DEF W, Types, ConnTypes, WaitInv, Reader
  <1>2. PICK t : t = Received(kbuf).tool
    OBVIOUS
  <1>3. \/ t = tool
        \/ readwait # Nobody /\ kbuf[1] \in Slot /\ t = Answered(tool, readwait, "packet", kbuf[1], 0)
    BY <1>1, <1>2, ReceivedIs
  <1>4. CASE t = tool
    BY <1>1, <1>2, <1>4
  <1>5. CASE readwait # Nobody /\ kbuf[1] \in Slot /\ t = Answered(tool, readwait, "packet", kbuf[1], 0)
    <2>1. "packet" \in Replies /\ 0 \in 0 .. RbSize /\ readwait \in Clients
      BY <1>5, PbAssumption DEF Replies, W, Types
    <2>2. PICK r \in Clients : r = readwait
      BY <2>1
    <2>3. /\ t \in [Clients -> Tools]
          /\ \A d \in Clients : d # r => t[d] = tool[d]
          /\ t[r].ans = IF tool[r].alive THEN "packet" ELSE None
      BY <1>1, <1>5, <2>1, <2>2, AnsweredIs
    <2>4. t[r].ans # "timeout"
      BY <2>3 DEF None
    <2> QED
      BY <1>2, <2>3, <2>4
  <1> QED
    BY <1>3, <1>4, <1>5

LEMMA SilentClear == ASSUME NEW c \in Clients, W, clearRequest(c) PROVE Silent
PROOF
  <1>a. PICK s : s = IF fifo = <<>> THEN With(fifo, ring) ELSE Received(kbuf)
    OBVIOUS
  <1>1. Responds(s.tool, c, "ok", NoPacket, 0)
    BY <1>a DEF clearRequest
  <1>2. "ok" \in Replies /\ NoPacket \in Slot /\ 0 \in 0 .. RbSize
    BY PbAssumption DEF Replies, NoPacket, Slot
  <1>3. s.tool = tool \/ s.tool = Received(kbuf).tool
    BY <1>a DEF With
  <1>4. /\ s.tool \in [Clients -> Tools]
        /\ \A d \in Clients : s.tool[d].ans = "timeout" => tool[d].ans = "timeout"
    <2>1. tool \in [Clients -> Tools]
      BY DEF W, Types, ConnTypes
    <2> QED
      BY <1>3, <2>1, SilentBatch
  <1>5. PICK t \in [Clients -> Tools] : t = s.tool
    BY <1>4
  <1> QED
    BY <1>1, <1>2, <1>4, <1>5, OtherAnswer

LEMMA SilentReceive == ASSUME W, receive PROVE Silent
PROOF
  <1>1. tool' = Received(kbuf).tool
    BY DEF receive
  <1> QED
    BY <1>1, SilentBatch DEF Silent

LEMMA SilentOthers ==
  ASSUME W,
         \/ Selects(Ready) /\ UNCHANGED pbVars
         \/ Tick /\ UNCHANGED pbVars
         \/ UNCHANGED vars
         \/ accept
         \/ Arrives \/ Echoes
         \/ \E c \in Clients : connectionLost(c)
         \/ \E c \in Clients, r \in Requests, dl \in Deadlines \cup {0} : Asks(c, r, dl)
         \/ \E c \in Clients : connect(c) \/ Exits(c) \/ Killed(c)
  PROVE  Silent
PROOF
  <1>1. tool \in [Clients -> Tools] /\ \A c \in Clients : tool[c] \in Tools
    BY DEF W, Types, ConnTypes
  <1>2. NoTool \in Tools /\ NoTool.ans = None /\ None # "timeout"
    BY NoToolType DEF NoTool, None
  <1>3. CASE tool' = tool
    BY <1>3 DEF Silent
  <1>4. ASSUME NEW c \in Clients, connectionLost(c) PROVE Silent
    <2>1. tool' = [tool EXCEPT ![c] = NoTool]
      BY <1>4 DEF connectionLost
    <2> QED
      BY <1>1, <1>2, <2>1 DEF Silent
  <1>5. CASE accept
    <2>1. PICK c, fd : tool' = [tool EXCEPT ![c].fd = fd]
      BY <1>5 DEF accept
    <2>2. \A x \in Tools : [x EXCEPT !.fd = fd].ans = x.ans
      BY DEF Tools
    <2>3. \A d \in Clients : tool'[d].ans = tool[d].ans
      <3>1. SUFFICES ASSUME NEW d \in Clients PROVE tool'[d].ans = tool[d].ans
        OBVIOUS
      <3>2. CASE d = c
        <4>1. tool'[d] = [tool[d] EXCEPT !.fd = fd]
          BY <1>1, <2>1, <3>2
        <4> QED
          BY <1>1, <2>2, <4>1
      <3>3. CASE d # c
        BY <1>1, <2>1, <3>3
      <3> QED
        BY <3>2, <3>3
    <2> QED
      BY <2>3 DEF Silent
  <1>6. ASSUME NEW c \in Clients, NEW r \in Requests, NEW dl \in Deadlines \cup {0}, Asks(c, r, dl)
        PROVE  Silent
    <2>1. PICK y : y = [tool[c] EXCEPT !.req = r, !.asked = r, !.ans = None, !.deadline = dl]
      OBVIOUS
    <2>2. tool' = [tool EXCEPT ![c] = y]
      BY <1>6, <2>1 DEF Asks
    <2>3. \A x \in Tools : [x EXCEPT !.req = r, !.asked = r, !.ans = None, !.deadline = dl].ans = None
      BY DEF Tools
    <2>4. y.ans = None
      BY <1>1, <2>1, <2>3
    <2> QED
      BY <1>1, <1>2, <2>2, <2>4 DEF Silent
  <1>7. ASSUME NEW c \in Clients, Exits(c) \/ Killed(c) PROVE Silent
    <2>1. PICK y : y = [tool[c] EXCEPT !.alive = FALSE, !.asked = None, !.ans = None, !.packet = NoPacket]
      OBVIOUS
    <2>2. tool' = [tool EXCEPT ![c] = y]
      BY <1>7, <2>1 DEF Exits, Killed, Ended
    <2>3. \A x \in Tools :
            [x EXCEPT !.alive = FALSE, !.asked = None, !.ans = None, !.packet = NoPacket].ans = None
      BY DEF Tools
    <2>4. y.ans = None
      BY <1>1, <2>1, <2>3
    <2> QED
      BY <1>1, <1>2, <2>2, <2>4 DEF Silent
  <1>8. ASSUME NEW c \in Clients, connect(c) PROVE Silent
    <2>1. PICK y : y = [NoTool EXCEPT !.alive = TRUE, !.req = "connect", !.asked = "connect"]
      OBVIOUS
    <2>2. tool' = [tool EXCEPT ![c] = y]
      BY <1>8, <2>1 DEF connect
    <2>3. \A x \in Tools : [x EXCEPT !.alive = TRUE, !.req = "connect", !.asked = "connect"].ans = x.ans
      BY DEF Tools
    <2>4. y.ans = None
      BY <1>2, <2>1, <2>3
    <2> QED
      BY <1>1, <1>2, <2>2, <2>4 DEF Silent
  <1> QED
    BY <1>3, <1>4, <1>5, <1>6, <1>7, <1>8 DEF pbVars, vars, Arrives, Echoes

\* readRequest() answers a timeout when the oldest packet came after the deadline; the
\* others came later still, and the deadline was before now.
LEMMA ReadTimeout == ASSUME NEW c \in Clients, W, Ordered, readRequest(c) PROVE TrueTimeout
PROOF
  <1>1. /\ ring \in Rings /\ tool \in [Clients -> Tools] /\ tool[c].deadline \in Int /\ now \in Int
        /\ \A x \in 0 .. RbSize : ring.slots[x] \in Slot
    BY DEF W, Types, ConnTypes, Tools, Rings
  <1>a. PICK p : p = readn(ring, 0)
    OBVIOUS
  <1>2. p \in Slot /\ 0 \in 0 .. RbSize /\ NoPacket \in Slot /\ "timeout" \in Replies /\ "packet" \in Replies
    <2>1. 0 \in 0 .. RbSize
      BY PbAssumption
    <2>2. p \in Slot
      BY <1>1, <1>a, <2>1, RingTypes
    <2> QED
      BY <2>1, <2>2 DEF NoPacket, Slot, Replies
  <1>3. CASE tool' = [tool EXCEPT ![c].req = None]
    <2>1. \A x \in Tools : [x EXCEPT !.req = None].ans = x.ans
      BY DEF Tools
    <2>2. \A d \in Clients : tool'[d].ans = tool[d].ans
      <3>1. SUFFICES ASSUME NEW d \in Clients PROVE tool'[d].ans = tool[d].ans
        OBVIOUS
      <3>2. CASE d = c
        <4>1. tool'[d] = [tool[d] EXCEPT !.req = None]
          BY <1>1, <1>3, <3>2
        <4> QED
          BY <1>1, <2>1, <4>1
      <3>3. CASE d # c
        BY <1>1, <1>3, <3>3
      <3> QED
        BY <3>2, <3>3
    <2> QED
      BY <2>2, SilentIsTrue DEF Silent
  <1>4. CASE Responds(tool, c, "packet", p, 0)
    BY <1>1, <1>2, <1>4, OtherAnswer, SilentIsTrue
  <1>5. CASE ~isEmpty(ring) /\ Late(p, tool[c].deadline) /\ Responds(tool, c, "timeout", NoPacket, 0)
    <2>1. tool[c].deadline # 0 /\ p.at > tool[c].deadline
      BY <1>5 DEF Late
    <2>2. /\ ring.rp \in 0 .. RbSize /\ Held(ring, ring.rp) /\ Off(ring, ring.rp) = 0
          /\ p = ring.slots[ring.rp]
      BY <1>1, <1>5, <1>a, ReadHolds
    <2>3. p.at <= now /\ p.at \in Int
      BY <1>2, <2>2 DEF Ordered, Past, Known, Slot
    <2>4. \A x \in 0 .. RbSize : Held(ring, x) => ring.slots[x].at > tool[c].deadline
      <3> SUFFICES ASSUME NEW x \in 0 .. RbSize, Held(ring, x)
                   PROVE  ring.slots[x].at > tool[c].deadline
        OBVIOUS
      <3>1. CASE x = ring.rp
        BY <2>1, <2>2, <3>1
      <3>2. CASE x # ring.rp
        <4>1. Off(ring, x) > 0 /\ Off(ring, x) \in Int
          BY <1>1, <3>2, PbAssumption DEF Off, rbLen, Rings
        <4>2. Before(p, ring.slots[x])
          BY <2>2, <4>1 DEF Ordered, RingOrder
        <4> QED
          BY <1>1, <2>1, <2>3, <4>2 DEF Before, Slot
      <3> QED
        BY <3>1, <3>2
    <2>5. \A q \in Range(Contents) : q.at > tool[c].deadline
      BY <1>1, <2>4, ContentsHeld
    <2>6. \A d \in Clients : d # c => tool'[d] = tool[d]
      <3>1. IsFiniteSet(leaked)
        BY DEF W, Types, ConnTypes
      <3> QED
        BY <1>1, <1>2, <1>5, <3>1, RespondsIs DEF Replied
    <2>7. tool[c].deadline <= now
      BY <1>1, <2>1, <2>3
    <2> QED
      BY <2>1, <2>5, <2>6, <2>7 DEF TrueTimeout, None
  <1> QED
    BY <1>3, <1>4, <1>5, <1>a DEF readRequest

\* The timer that expires is the one of the client that waits, and the ring is empty.
LEMMA TimerTimeout == ASSUME NEW c \in Clients, W, timeout(c) PROVE TrueTimeout
PROOF
  <1>1. /\ ring \in Rings /\ tool \in [Clients -> Tools] /\ tool[c].deadline \in Int /\ now \in Int
        /\ current \in Int
    BY DEF W, Types, ConnTypes, Tools, DueNow
  <1>2. readwait = c /\ readwait # Nobody
    <2>1. c # Nobody
      BY PbAssumption DEF Nobody
    <2> QED
      BY <2>1, TimeoutStep
  <1>3. isEmpty(ring) /\ timers = TimersOf(tool, c)
    BY <1>2 DEF W, WaitInv, Reader
  <1>4. /\ current # -1 /\ tqDue(timers, current) /\ current <= now
        /\ tool' = Answered(tool, c, "timeout", NoPacket, 0)
    BY DEF timeout, Expires, W, DueNow
  <1>5. tool[c].deadline # 0 /\ tool[c].deadline <= now
    <2>1. timers # <<>> /\ Head(timers).at <= current
      BY <1>4 DEF tqDue
    <2>2. tool[c].deadline # 0 /\ timers = <<[at |-> tool[c].deadline, receiver |-> c]>>
      BY <1>3, <2>1 DEF TimersOf
    <2>3. Head(timers).at = tool[c].deadline
      BY <2>2
    <2> QED
      BY <1>1, <1>4, <2>1, <2>2, <2>3
  <1>6. \A p \in Range(Contents) : p.at > tool[c].deadline
    BY <1>1, <1>3, ContentsHeld, EmptyHolds
  <1>7. \A d \in Clients : d # c => tool'[d] = tool[d]
    BY <1>1, <1>4 DEF Answered
  <1> QED
    BY <1>5, <1>6, <1>7 DEF TrueTimeout, None

LEMMA StepTimeout == ASSUME W, Ordered, [PbNext]_vars PROVE TrueTimeout
PROOF
  <1>1. CASE Dispatch
    <2>1. ASSUME NEW c \in Clients, Request(c) PROVE TrueTimeout
      BY <2>1, SilentRequests, SilentDump, SilentClear, SilentOthers, SilentIsTrue, ReadTimeout
         DEF Request
    <2>2. ASSUME NEW c \in Clients, timeout(c) PROVE TrueTimeout
      BY <2>2, TimerTimeout
    <2>3. CASE receive
      BY <2>3, SilentReceive, SilentIsTrue
    <2>4. CASE (Selects(Ready) /\ UNCHANGED pbVars) \/ accept
      BY <2>4, SilentOthers, SilentIsTrue
    <2> QED
      BY <1>1, <2>1, <2>2, <2>3, <2>4 DEF Dispatch
  <1>2. CASE \/ Tick /\ UNCHANGED pbVars
             \/ UNCHANGED vars
             \/ Arrives \/ Echoes
             \/ \E c \in Clients, r \in Requests, dl \in Deadlines \cup {0} : Asks(c, r, dl)
             \/ \E c \in Clients : connect(c) \/ Exits(c) \/ Killed(c)
    BY <1>2, SilentOthers, SilentIsTrue
  <1> QED
    BY <1>1, <1>2 DEF PbNext

\* A reader is told of a timeout, by its timer (PktServer::timeout) or at once
\* (readRequest), only when its deadline is over and no packet in the ring came by then.
THEOREM TimeoutIsTrueHolds == ASSUME MaxAlive = 1 PROVE PbSpec => TimeoutIsTrue
PROOF
  <1>1. PbInit => W /\ Ordered
    BY InitW, InitOrder
  <1>2. W /\ Ordered /\ [PbNext]_vars => W' /\ Ordered'
    BY StepW, StepOrder
  <1>3. W /\ Ordered /\ [PbNext]_vars =>
          [\A c \in Clients :
             tool[c].ans = None /\ tool'[c].ans = "timeout"
               => /\ tool[c].deadline # 0 /\ tool[c].deadline <= now
                  /\ \A p \in Range(Contents) : p.at > tool[c].deadline]_vars
    BY StepTimeout DEF TrueTimeout
  <1> QED
    BY <1>1, <1>2, <1>3, PTL DEF PbSpec, TimeoutIsTrue


-----------------------------------------------------------------------------
(* The ring is a queue                                                      *)

\* The packets in a ring, and what a buffer in one of the modes keeps of them
QueueOf(r) == [k \in 1 .. datanum(r) |-> r.slots[place(r, k - 1)]]
KeptIn(mode, s) ==
  IF Len(s) <= RbSize THEN s
  ELSE IF mode = "WRAP" THEN SubSeq(s, Len(s) - RbSize + 1, Len(s))
  ELSE SubSeq(s, 1, RbSize)

\* Contents and Kept are about the ring of the state.
LEMMA QueueIs == Contents = QueueOf(ring) /\ \A s : Kept(s) = KeptIn(ring.mode, s)
PROOF
  BY DEF Contents, QueueOf, Kept, KeptIn

\* A ring holds as many packets as it counts, each in the slot Off places behind the oldest.
LEMMA QueueHolds ==
  ASSUME NEW r \in Rings
  PROVE  /\ QueueOf(r) \in Seq(Slot) /\ Len(QueueOf(r)) = datanum(r)
         /\ datanum(r) \in 0 .. RbSize
         /\ \A k \in 1 .. datanum(r) : /\ place(r, k - 1) \in 0 .. RbSize
                                       /\ QueueOf(r)[k] = r.slots[place(r, k - 1)]
PROOF
  <1> USE PbAssumption
  <1>1. /\ r.rp \in 0 .. RbSize /\ r.wp \in 0 .. RbSize /\ datanum(r) \in 0 .. RbSize
        /\ r.slots \in [0 .. RbSize -> Slot] /\ RbSize \in Nat
    BY RingTypes DEF Rings
  <1>2. PICK n \in Nat : n = datanum(r) /\ n <= RbSize
    BY <1>1
  <1>3. \A k \in 1 .. n : place(r, k - 1) \in 0 .. RbSize
    BY <1>1, <1>2 DEF place, rbLen
  <1>4. \A k \in 1 .. n : r.slots[place(r, k - 1)] \in Slot
    BY <1>1, <1>3
  <1>5. QueueOf(r) = [k \in 1 .. n |-> r.slots[place(r, k - 1)]]
    BY <1>2 DEF QueueOf
  <1>6. QueueOf(r) \in Seq(Slot) /\ Len(QueueOf(r)) = n
    BY <1>4, <1>5
  <1> QED
    BY <1>1, <1>2, <1>3, <1>5, <1>6

\* Element k of what a buffer keeps: counted from the front, or from the end.
LEMMA KeptHolds ==
  ASSUME NEW mode, NEW s \in Seq(Slot)
  PROVE  /\ KeptIn(mode, s) \in Seq(Slot)
         /\ Len(s) <= RbSize => KeptIn(mode, s) = s
         /\ Len(s) > RbSize => Len(KeptIn(mode, s)) = RbSize
         /\ \A k \in 1 .. RbSize : Len(s) > RbSize =>
              KeptIn(mode, s)[k] = s[IF mode = "WRAP" THEN Len(s) - RbSize + k ELSE k]
PROOF
  <1>1. Len(s) \in Nat /\ RbSize \in Nat /\ RbSize > 0
    BY LenProperties, PbAssumption
  <1>2. CASE Len(s) <= RbSize
    BY <1>1, <1>2 DEF KeptIn
  <1>3. CASE Len(s) > RbSize /\ mode = "WRAP"
    <2>1. KeptIn(mode, s) = SubSeq(s, Len(s) - RbSize + 1, Len(s))
      BY <1>1, <1>3 DEF KeptIn
    <2>2. PICK m \in Nat : m = Len(s) - RbSize /\ m + RbSize = Len(s)
      BY <1>1, <1>3
    <2>3. /\ SubSeq(s, m + 1, Len(s)) \in Seq(Slot)
          /\ Len(SubSeq(s, m + 1, Len(s))) = RbSize
          /\ \A k \in 1 .. RbSize : SubSeq(s, m + 1, Len(s))[k] = s[m + k]
      <3> DEFINE t == SubSeq(s, m + 1, Len(s))
      <3>1. \A i \in m + 1 .. Len(s) : s[i] \in Slot
        BY <1>1, <2>2
      <3>2. /\ t \in Seq(Slot)
            /\ Len(t) = IF m + 1 <= Len(s) THEN Len(s) - (m + 1) + 1 ELSE 0
            /\ \A i \in 1 .. Len(s) - (m + 1) + 1 : t[i] = s[m + 1 + i - 1]
        BY <1>1, <2>2, <3>1, SubSeqProperties
      <3> HIDE DEF t
      <3>3. Len(t) = RbSize /\ \A k \in 1 .. RbSize : t[k] = s[m + k]
        BY <1>1, <2>2, <3>2
      <3> QED
        BY <3>2, <3>3 DEF t
    <2>4. PICK t : t = SubSeq(s, m + 1, Len(s))
      OBVIOUS
    <2>5. KeptIn(mode, s) = t
      BY <2>1, <2>2, <2>4
    <2>6. \A k \in 1 .. RbSize : t[k] = s[Len(s) - RbSize + k]
      BY <2>2, <2>3, <2>4
    <2>7. t \in Seq(Slot) /\ Len(t) = RbSize
      BY <2>3, <2>4
    <2>8. \A k \in 1 .. RbSize : t[k] = s[IF mode = "WRAP" THEN Len(s) - RbSize + k ELSE k]
      BY <1>3, <2>6
    <2>9. ~(Len(s) <= RbSize)
      BY <1>1, <1>3
    <2> QED
      BY <2>5, <2>7, <2>8, <2>9
  <1>4. CASE Len(s) > RbSize /\ mode # "WRAP"
    <2>1. KeptIn(mode, s) = SubSeq(s, 1, RbSize)
      BY <1>1, <1>4 DEF KeptIn
    <2>2. /\ SubSeq(s, 1, RbSize) \in Seq(Slot)
          /\ Len(SubSeq(s, 1, RbSize)) = RbSize
          /\ \A k \in 1 .. RbSize : SubSeq(s, 1, RbSize)[k] = s[k]
      <3> DEFINE t == SubSeq(s, 1, RbSize)
      <3>1. \A i \in 1 .. RbSize : s[i] \in Slot
        BY <1>1, <1>4
      <3>2. /\ t \in Seq(Slot)
            /\ Len(t) = IF 1 <= RbSize THEN RbSize - 1 + 1 ELSE 0
            /\ \A i \in 1 .. RbSize - 1 + 1 : t[i] = s[1 + i - 1]
        BY <1>1, <3>1, SubSeqProperties
      <3> HIDE DEF t
      <3>3. Len(t) = RbSize /\ \A k \in 1 .. RbSize : t[k] = s[k]
        BY <1>1, <3>2
      <3> QED
        BY <3>2, <3>3 DEF t
    <2> QED
      BY <1>1, <1>4, <2>1, <2>2
  <1> QED
    BY <1>1, <1>2, <1>3, <1>4

\* What does not fit is dropped now or later: the mode decides which end.
LEMMA KeptTwice ==
  ASSUME NEW mode, NEW s \in Seq(Slot), NEW p \in Slot
  PROVE  KeptIn(mode, Append(KeptIn(mode, s), p)) = KeptIn(mode, Append(s, p))
PROOF
  <1>1. Len(s) \in Nat /\ RbSize \in Nat /\ RbSize > 0
    BY LenProperties, PbAssumption
  <1>2. CASE Len(s) <= RbSize
    BY <1>2, KeptHolds
  <1>3. CASE Len(s) > RbSize
    <2>1. PICK q \in Seq(Slot) : q = KeptIn(mode, s)
      BY KeptHolds
    <2>2. Len(q) = RbSize /\ \A k \in 1 .. RbSize :
            q[k] = s[IF mode = "WRAP" THEN Len(s) - RbSize + k ELSE k]
      BY <1>3, <2>1, KeptHolds
    <2>3. PICK a \in Seq(Slot) : a = Append(q, p)
      BY <2>1, AppendProperties
    <2>4. Len(a) = RbSize + 1 /\ a[RbSize + 1] = p /\ \A k \in 1 .. RbSize : a[k] = q[k]
      BY <1>1, <2>2, <2>3
    <2>5. PICK b \in Seq(Slot) : b = Append(s, p)
      BY AppendProperties
    <2>6. Len(b) = Len(s) + 1 /\ b[Len(s) + 1] = p /\ \A k \in 1 .. Len(s) : b[k] = s[k]
      BY <1>1, <2>5
    <2>7. /\ KeptIn(mode, a) \in Seq(Slot) /\ Len(KeptIn(mode, a)) = RbSize
          /\ \A k \in 1 .. RbSize : KeptIn(mode, a)[k] = a[IF mode = "WRAP" THEN 1 + k ELSE k]
      BY <1>1, <2>4, KeptHolds
    <2>8. /\ KeptIn(mode, b) \in Seq(Slot) /\ Len(KeptIn(mode, b)) = RbSize
          /\ \A k \in 1 .. RbSize :
               KeptIn(mode, b)[k] = b[IF mode = "WRAP" THEN Len(s) + 1 - RbSize + k ELSE k]
      BY <1>1, <1>3, <2>6, KeptHolds
    <2>9. ASSUME NEW k \in 1 .. RbSize PROVE KeptIn(mode, a)[k] = KeptIn(mode, b)[k]
      <3>1. CASE mode # "WRAP"
        <4>1. KeptIn(mode, a)[k] = s[k]
          BY <2>2, <2>4, <2>7, <3>1
        <4>2. k \in 1 .. Len(s)
          BY <1>1, <1>3
        <4> QED
          BY <2>6, <2>8, <3>1, <4>1, <4>2
      <3>2. CASE mode = "WRAP" /\ k = RbSize
        <4>1. KeptIn(mode, a)[k] = p
          BY <1>1, <2>4, <2>7, <3>2
        <4>2. Len(s) + 1 - RbSize + k = Len(s) + 1
          BY <1>1, <3>2
        <4> QED
          BY <2>6, <2>8, <3>2, <4>1, <4>2
      <3>3. CASE mode = "WRAP" /\ k < RbSize
        <4>1. k + 1 \in 1 .. RbSize /\ 1 + k = k + 1
          BY <1>1, <3>3
        <4>2. KeptIn(mode, a)[k] = s[Len(s) - RbSize + (k + 1)]
          BY <2>2, <2>4, <2>7, <3>3, <4>1
        <4>3. /\ Len(s) + 1 - RbSize + k = Len(s) - RbSize + (k + 1)
              /\ Len(s) - RbSize + (k + 1) \in 1 .. Len(s)
          BY <1>1, <1>3, <3>3
        <4> QED
          BY <2>6, <2>8, <3>3, <4>2, <4>3
      <3> QED
        BY <1>1, <3>1, <3>2, <3>3
    <2>10. KeptIn(mode, a) = KeptIn(mode, b)
      BY <2>7, <2>8, <2>9, SeqEqual
    <2> QED
      BY <2>1, <2>3, <2>5, <2>10
  <1> QED
    BY <1>1, <1>2, <1>3

\* The same for pointers alone: what is at a distance from the oldest packet, after a write
PlaceOf(a, n) == IF a + n < rbLen THEN a + n ELSE a + n - rbLen

LEMMA PlacesAdvance ==
  ASSUME NEW a \in 0 .. RbSize, NEW b \in 0 .. RbSize, NEW d, d = nextPoint(b),
         NEW c, c = IF NumOf(a, b) = RbSize THEN nextPoint(a) ELSE a
  PROVE  /\ NumOf(a, b) # RbSize =>
              /\ NumOf(c, d) = NumOf(a, b) + 1
              /\ PlaceOf(c, NumOf(a, b)) = b
              /\ \A k \in 1 .. NumOf(a, b) :
                   PlaceOf(c, k - 1) = PlaceOf(a, k - 1) /\ PlaceOf(a, k - 1) # b
         /\ NumOf(a, b) = RbSize =>
              /\ NumOf(c, d) = RbSize
              /\ PlaceOf(c, RbSize - 1) = b
              /\ \A k \in 1 .. RbSize - 1 :
                   PlaceOf(c, k - 1) = PlaceOf(a, k) /\ PlaceOf(a, k) # b
PROOF
  <1> USE PbAssumption
  <1>1. RbSize \in Nat /\ RbSize > 0
    OBVIOUS
  <1>2. CASE NumOf(a, b) = RbSize
    <2>1. c = nextPoint(a)
      BY <1>2
    <2>2. CASE b >= a
      <3>1. a = 0 /\ b = RbSize /\ c = 1 /\ d = 0
        BY <1>1, <1>2, <2>1, <2>2 DEF NumOf, nextPoint, rbLen
      <3> QED
        BY <1>1, <3>1 DEF NumOf, PlaceOf, rbLen
    <2>3. CASE b < a
      <3>1. b = a - 1 /\ d = a /\ c = IF a = RbSize THEN 0 ELSE a + 1
        BY <1>1, <1>2, <2>1, <2>3 DEF NumOf, nextPoint, rbLen
      <3> QED
        BY <1>1, <3>1 DEF NumOf, PlaceOf, rbLen
    <2> QED
      BY <2>2, <2>3
  <1>3. CASE NumOf(a, b) # RbSize
    <2>1. c = a /\ d = IF b = RbSize THEN 0 ELSE b + 1
      BY <1>3 DEF nextPoint, rbLen
    <2> QED
      BY <1>1, <1>3, <2>1 DEF NumOf, PlaceOf, rbLen
  <1> QED
    BY <1>2, <1>3

\* write() appends, and drops the oldest packet or the new one if there is no room.
LEMMA QueueWrite ==
  ASSUME NEW r \in Rings, NEW p \in Slot
  PROVE  /\ QueueOf(rbWrite(r, p)) = KeptIn(r.mode, Append(QueueOf(r), p))
         /\ rbWrite(r, p).mode = r.mode
PROOF
  <1> USE PbAssumption
  <1> DEFINE full == NumOf(r.rp, r.wp) = RbSize
             rp == IF full THEN nextPoint(r.rp) ELSE r.rp
  <1>1. /\ r.rp \in 0 .. RbSize /\ r.wp \in 0 .. RbSize /\ r.slots \in [0 .. RbSize -> Slot]
        /\ RbSize \in Nat /\ RbSize > 0 /\ r.mode \in {"WRAP", "NOWRAP"}
    BY DEF Rings
  <1>2. isFull(r) <=> full
    BY <1>1 DEF isFull, NumOf, rbLen
  <1>3. datanum(r) = NumOf(r.rp, r.wp)
    BY DEF datanum, NumOf
  <1>4. PICK n \in 0 .. RbSize : n = datanum(r)
    BY QueueHolds
  <1>5. PICK q \in Seq(Slot) : q = QueueOf(r)
    BY QueueHolds
  <1>6. Len(q) = n /\ \A k \in 1 .. n : q[k] = r.slots[PlaceOf(r.rp, k - 1)]
    BY <1>4, <1>5, QueueHolds DEF place, PlaceOf
  <1>7. PICK s \in Seq(Slot) : s = Append(q, p)
    BY AppendProperties
  <1>8. Len(s) = n + 1 /\ s[n + 1] = p /\ \A k \in 1 .. n : s[k] = q[k]
    BY <1>6, <1>7, AppendProperties
  <1>9. CASE full /\ r.mode = "NOWRAP"
    <2>1. rbWrite(r, p) = r
      BY <1>2, <1>9 DEF rbWrite
    <2>2. n = RbSize
      BY <1>3, <1>4, <1>9
    <2>3. /\ KeptIn(r.mode, s) \in Seq(Slot) /\ Len(KeptIn(r.mode, s)) = RbSize
          /\ \A k \in 1 .. RbSize : KeptIn(r.mode, s)[k] = s[k]
      <3>1. Len(s) > RbSize /\ r.mode # "WRAP"
        BY <1>1, <1>8, <1>9, <2>2
      <3>2. PICK mode : mode = r.mode
        OBVIOUS
      <3>3. /\ KeptIn(mode, s) \in Seq(Slot) /\ Len(KeptIn(mode, s)) = RbSize
            /\ \A k \in 1 .. RbSize : KeptIn(mode, s)[k] = s[k]
        BY <3>1, <3>2, KeptHolds
      <3> QED
        BY <3>2, <3>3
    <2>4. KeptIn(r.mode, s) = q
      BY <1>6, <1>8, <2>2, <2>3, SeqEqual
    <2> QED
      BY <1>5, <1>7, <2>1, <2>4
  <1>10. CASE ~(full /\ r.mode = "NOWRAP")
    <2>1. PICK w : w = rbWrite(r, p)
      OBVIOUS
    <2>2. w = [r EXCEPT !.slots[r.wp] = p, !.wp = nextPoint(r.wp), !.rp = rp]
      BY <1>2, <1>10, <2>1 DEF rbWrite
    <2>3. /\ w.slots = [r.slots EXCEPT ![r.wp] = p] /\ w.wp = nextPoint(r.wp) /\ w.rp = rp
          /\ w.mode = r.mode
      <3> HIDE DEF rp
      <3> QED
        BY <2>2 DEF Rings
    <2>4. /\ w.slots[r.wp] = p
          /\ \A x \in 0 .. RbSize : x # r.wp => w.slots[x] = r.slots[x]
      BY <1>1, <2>3
    <2>5. w \in Rings
      BY <2>1, RingTypes
    <2>6. PICK m \in 0 .. RbSize : m = datanum(w)
      BY <2>5, QueueHolds
    <2>7. m = NumOf(w.rp, w.wp)
      BY <2>6 DEF datanum, NumOf
    <2>8. PICK v \in Seq(Slot) : v = QueueOf(w)
      BY <2>5, QueueHolds
    <2>9. Len(v) = m /\ \A k \in 1 .. m : v[k] = w.slots[PlaceOf(w.rp, k - 1)]
      BY <2>5, <2>6, <2>8, QueueHolds DEF place, PlaceOf
    <2>10. \A k \in 1 .. n : PlaceOf(r.rp, k - 1) \in 0 .. RbSize
      BY <1>4, QueueHolds DEF place, PlaceOf
    <2>a. /\ ~full =>
               /\ NumOf(w.rp, w.wp) = NumOf(r.rp, r.wp) + 1
               /\ PlaceOf(w.rp, NumOf(r.rp, r.wp)) = r.wp
               /\ \A k \in 1 .. NumOf(r.rp, r.wp) :
                    PlaceOf(w.rp, k - 1) = PlaceOf(r.rp, k - 1) /\ PlaceOf(r.rp, k - 1) # r.wp
          /\ full =>
               /\ NumOf(w.rp, w.wp) = RbSize
               /\ PlaceOf(w.rp, RbSize - 1) = r.wp
               /\ \A k \in 1 .. RbSize - 1 :
                    PlaceOf(w.rp, k - 1) = PlaceOf(r.rp, k) /\ PlaceOf(r.rp, k) # r.wp
      <3>1. w.rp = IF NumOf(r.rp, r.wp) = RbSize THEN nextPoint(r.rp) ELSE r.rp
        BY <2>3
      <3>2. PICK a \in 0 .. RbSize, b \in 0 .. RbSize : a = r.rp /\ b = r.wp
        BY <1>1
      <3>3. PICK c, d : c = w.rp /\ d = w.wp
        OBVIOUS
      <3>4. d = nextPoint(b) /\ c = IF NumOf(a, b) = RbSize THEN nextPoint(a) ELSE a
        BY <2>3, <3>1, <3>2, <3>3
      <3> HIDE DEF full, rp
      <3>5. /\ NumOf(a, b) # RbSize =>
                 /\ NumOf(c, d) = NumOf(a, b) + 1
                 /\ PlaceOf(c, NumOf(a, b)) = b
                 /\ \A k \in 1 .. NumOf(a, b) :
                      PlaceOf(c, k - 1) = PlaceOf(a, k - 1) /\ PlaceOf(a, k - 1) # b
            /\ NumOf(a, b) = RbSize =>
                 /\ NumOf(c, d) = RbSize
                 /\ PlaceOf(c, RbSize - 1) = b
                 /\ \A k \in 1 .. RbSize - 1 :
                      PlaceOf(c, k - 1) = PlaceOf(a, k) /\ PlaceOf(a, k) # b
        BY <3>4, PlacesAdvance
      <3> QED
        BY <3>2, <3>3, <3>5 DEF full
    <2>11. CASE ~full
      <3>1. n # RbSize /\ n < RbSize
        BY <1>1, <1>3, <1>4, <2>11
      <3>2. /\ m = n + 1 /\ PlaceOf(w.rp, n) = r.wp
            /\ \A k \in 1 .. n : /\ PlaceOf(w.rp, k - 1) = PlaceOf(r.rp, k - 1)
                                 /\ PlaceOf(r.rp, k - 1) # r.wp
        BY <1>3, <1>4, <2>7, <2>11, <2>a
      <3>3. KeptIn(r.mode, s) = s
        BY <1>1, <1>8, <3>1, KeptHolds
      <3>4. ASSUME NEW k \in 1 .. m PROVE v[k] = s[k]
        <4>1. CASE k = n + 1
          <5>1. v[k] = p
            BY <2>4, <2>9, <3>2, <4>1
          <5> QED
            BY <1>8, <4>1, <5>1
        <4>2. CASE k \in 1 .. n
          <5>1. v[k] = w.slots[PlaceOf(r.rp, k - 1)]
            BY <2>9, <3>2, <4>2
          <5>2. w.slots[PlaceOf(r.rp, k - 1)] = r.slots[PlaceOf(r.rp, k - 1)]
            BY <2>4, <2>10, <3>2, <4>2
          <5> QED
            BY <1>6, <1>8, <4>2, <5>1, <5>2
        <4> QED
          BY <3>2, <4>1, <4>2
      <3>5. v = s
        BY <1>8, <2>9, <3>2, <3>4, SeqEqual
      <3> QED
        BY <1>5, <1>7, <2>1, <2>3, <2>8, <3>3, <3>5
    <2>12. CASE full
      <3>1. n = RbSize /\ r.mode = "WRAP"
        BY <1>1, <1>3, <1>4, <1>10, <2>12
      <3>2. /\ m = RbSize /\ PlaceOf(w.rp, RbSize - 1) = r.wp
            /\ \A k \in 1 .. RbSize - 1 : /\ PlaceOf(w.rp, k - 1) = PlaceOf(r.rp, k)
                                          /\ PlaceOf(r.rp, k) # r.wp
        BY <2>7, <2>12, <2>a
      <3>3. /\ KeptIn(r.mode, s) \in Seq(Slot) /\ Len(KeptIn(r.mode, s)) = RbSize
            /\ \A k \in 1 .. RbSize : KeptIn(r.mode, s)[k] = s[Len(s) - RbSize + k]
        BY <1>1, <1>8, <3>1, KeptHolds
      <3>4. ASSUME NEW k \in 1 .. RbSize PROVE v[k] = KeptIn(r.mode, s)[k]
        <4>1. KeptIn(r.mode, s)[k] = s[k + 1]
          BY <1>1, <1>8, <3>1, <3>3
        <4>2. CASE k = RbSize
          <5>1. v[k] = p
            BY <2>4, <2>9, <3>2, <4>2
          <5> QED
            BY <1>8, <3>1, <4>1, <4>2, <5>1
        <4>3. CASE k \in 1 .. RbSize - 1
          <5>1. v[k] = w.slots[PlaceOf(r.rp, k)] /\ PlaceOf(r.rp, k) # r.wp
            BY <1>1, <2>9, <3>2, <4>3
          <5>2. k + 1 \in 1 .. n /\ (k + 1) - 1 = k
            BY <1>1, <3>1, <4>3
          <5>3. PlaceOf(r.rp, k) \in 0 .. RbSize
            BY <2>10, <5>2
          <5>4. w.slots[PlaceOf(r.rp, k)] = r.slots[PlaceOf(r.rp, k)]
            BY <2>4, <5>1, <5>3
          <5>5. q[k + 1] = r.slots[PlaceOf(r.rp, k)]
            BY <1>6, <5>2
          <5> QED
            BY <1>8, <4>1, <5>1, <5>2, <5>4, <5>5
        <4> QED
          BY <1>1, <4>2, <4>3
      <3>5. v = KeptIn(r.mode, s)
        BY <2>9, <3>2, <3>3, <3>4, SeqEqual
      <3> QED
        BY <1>5, <1>7, <2>1, <2>3, <2>8, <3>5
    <2> QED
      BY <2>11, <2>12
  <1> QED
    BY <1>9, <1>10

\* A step of the oldest place leaves one less.
LEMMA NumDown ==
  ASSUME NEW a \in 0 .. RbSize, NEW b \in 0 .. RbSize, a # b
  PROVE  NumOf(a + 1, b) = NumOf(a, b) - 1
PROOF
  <1>1. PICK c \in Nat : c = RbSize + 1
    BY PbAssumption
  <1>2. a \in Nat /\ b \in Nat
    BY PbAssumption
  <1>3. CASE b > a
    BY <1>2, <1>3 DEF NumOf
  <1>4. CASE b < a
    <2>1. ~(b >= a) /\ ~(b >= a + 1)
      BY <1>2, <1>4
    <2>2. b - (a + 1) + c = (b - a + c) - 1
      BY <1>1, <1>2
    <2> QED
      BY <1>1, <2>1, <2>2 DEF NumOf, rbLen
  <1> QED
    BY <1>2, <1>3, <1>4

\* read() takes the oldest packet.
LEMMA QueueRead ==
  ASSUME NEW r \in Rings, ~isEmpty(r)
  PROVE  QueueOf(r) # <<>> /\ QueueOf(rbRead(r)) = Tail(QueueOf(r))
PROOF
  <1> USE PbAssumption
  <1>1. /\ r.rp \in 0 .. RbSize /\ r.wp \in 0 .. RbSize /\ RbSize \in Nat /\ RbSize > 0
        /\ r.rp # r.wp
    BY DEF Rings, isEmpty
  <1>2. PICK w \in Rings : w = rbRead(r)
    BY RingTypes
  <1>a. PICK x : x = nextPoint(r.rp)
    OBVIOUS
  <1>3. w.rp = x /\ w.wp = r.wp /\ w.slots = r.slots
    <2>1. w = [r EXCEPT !.rp = x]
      BY <1>2, <1>a DEF rbRead
    <2> QED
      BY <2>1 DEF Rings
  <1>4. PICK q \in Seq(Slot) : q = QueueOf(r)
    BY QueueHolds
  <1>5. PICK v \in Seq(Slot) : v = QueueOf(w)
    BY QueueHolds
  <1>6. PICK n \in 1 .. RbSize : n = datanum(r)
    <2>1. datanum(r) \in 0 .. RbSize /\ datanum(r) # 0
      BY RingTypes
    <2> QED
      BY <1>1, <2>1
  <1>7. /\ datanum(w) = n - 1
        /\ \A k \in 1 .. n - 1 : place(w, k - 1) = place(r, k)
    <2>1. NumOf(r.rp, r.wp) = n
      BY <1>6 DEF datanum, NumOf
    <2>2. /\ NumOf(x, r.wp) = n - 1
          /\ \A k \in 1 .. n - 1 : PlaceOf(x, k - 1) = PlaceOf(r.rp, k)
      <3>1. x = IF r.rp = RbSize THEN 0 ELSE r.rp + 1
        BY <1>1, <1>a DEF nextPoint, rbLen
      <3>2. n = IF r.wp >= r.rp THEN r.wp - r.rp ELSE r.wp - r.rp + (RbSize + 1)
        BY <2>1 DEF NumOf, rbLen
      <3>3. NumOf(x, r.wp) = n - 1
        <4>1. PICK a \in 0 .. RbSize, b \in 0 .. RbSize : a = r.rp /\ b = r.wp
          BY <1>1
        <4>2. CASE a = RbSize
          BY <1>1, <3>1, <3>2, <4>1, <4>2 DEF NumOf, rbLen
        <4>3. CASE a < RbSize
          <5>1. x = a + 1 /\ a # b
            BY <1>1, <3>1, <4>1, <4>3
          <5>2. n = IF b >= a THEN b - a ELSE b - a + (RbSize + 1)
            BY <3>2, <4>1
          <5>3. NumOf(a + 1, b) = n - 1
            BY <5>1, <5>2, NumDown DEF NumOf, rbLen
          <5> QED
            BY <4>1, <5>1, <5>3
        <4> QED
          BY <1>1, <4>2, <4>3
      <3>4. ASSUME NEW k \in 1 .. n - 1 PROVE PlaceOf(x, k - 1) = PlaceOf(r.rp, k)
        <4>1. PICK a \in 0 .. RbSize : a = r.rp
          BY <1>1
        <4>2. k \in Int /\ 1 <= k /\ k <= RbSize
          BY <1>6
        <4>3. CASE a = RbSize
          <5>1. x = 0
            BY <3>1, <4>1, <4>3
          <5>2. PlaceOf(0, k - 1) = k - 1
            BY <4>2 DEF PlaceOf, rbLen
          <5>3. PlaceOf(RbSize, k) = k - 1
            BY <4>2 DEF PlaceOf, rbLen
          <5> QED
            BY <4>1, <4>3, <5>1, <5>2, <5>3
        <4>4. CASE a < RbSize
          <5>1. x = a + 1
            BY <3>1, <4>1, <4>4
          <5>2. (a + 1) + (k - 1) = a + k
            BY <4>1, <4>2
          <5>3. PlaceOf(a + 1, k - 1) = PlaceOf(a, k)
            BY <1>1, <4>1, <4>2, <5>2 DEF PlaceOf, rbLen
          <5> QED
            BY <4>1, <5>1, <5>3
        <4> QED
          BY <4>1, <4>3, <4>4
      <3> QED
        BY <3>3, <3>4
    <2>3. datanum(w) = NumOf(x, r.wp)
      BY <1>3 DEF datanum, NumOf
    <2>4. \A k \in 1 .. n - 1 : place(w, k - 1) = PlaceOf(x, k - 1) /\ place(r, k) = PlaceOf(r.rp, k)
      BY <1>3 DEF place, PlaceOf
    <2> QED
      BY <2>2, <2>3, <2>4
  <1>8. /\ Len(q) = n /\ \A k \in 1 .. n : q[k] = r.slots[place(r, k - 1)]
        /\ Len(v) = n - 1 /\ \A k \in 1 .. n - 1 : v[k] = w.slots[place(w, k - 1)]
    BY <1>4, <1>5, <1>6, <1>7, QueueHolds
  <1>9. q # <<>>
    BY <1>6, <1>8
  <1>10. /\ Tail(q) \in Seq(Slot) /\ Len(Tail(q)) = n - 1
         /\ \A k \in 1 .. n - 1 : Tail(q)[k] = q[k + 1]
    BY <1>8, <1>9, HeadTailProperties
  <1>11. ASSUME NEW k \in 1 .. n - 1 PROVE v[k] = Tail(q)[k]
    <2>1. k + 1 \in 1 .. n /\ (k + 1) - 1 = k
      BY <1>6
    <2>2. q[k + 1] = r.slots[place(r, k)]
      BY <1>8, <2>1
    <2> QED
      BY <1>3, <1>7, <1>8, <1>10, <2>2
  <1>12. v = Tail(q)
    BY <1>8, <1>10, <1>11, SeqEqual
  <1> QED
    BY <1>2, <1>4, <1>5, <1>9, <1>12

\* clear() leaves nothing.
LEMMA QueueCleared ==
  ASSUME NEW r \in Rings
  PROVE  isEmpty(r) => QueueOf(r) = <<>>
PROOF
  <1>1. isEmpty(r) => Len(QueueOf(r)) = 0
    BY RingTypes, QueueHolds
  <1> QED
    BY <1>1, QueueHolds, EmptySeq

\* The recursive function of Without, packet by packet.
LEMMA WithoutIs ==
  ASSUME NEW batch, Len(batch) \in Nat, NEW own
  PROVE  /\ Without(batch, own)[0] = <<>>
         /\ \A k \in 1 .. Len(batch) :
              Without(batch, own)[k] = IF batch[k].n \in own THEN Without(batch, own)[k - 1]
                                       ELSE Append(Without(batch, own)[k - 1], batch[k])
PROOF
  <1> DEFINE Next(s, p) == IF p.n \in own THEN s ELSE Append(s, p)
             Is(h, n) ==
               h = [k \in 0 .. n |->
                      IF k = 0 THEN <<>>
                      ELSE IF batch[k].n \in own THEN h[k - 1]
                      ELSE Append(h[k - 1], batch[k])]
             G == {n \in Nat : \E h : Is(h, n)}
  <1>1. 0 \in G
    <2>1. Is([k \in 0 .. 0 |-> <<>>], 0)
      OBVIOUS
    <2> QED
      BY <2>1
  <1>2. ASSUME NEW n \in Nat, n \in G PROVE n + 1 \in G
    <2>1. PICK h : Is(h, n)
      BY <1>2
    <2> DEFINE g == [k \in 0 .. n + 1 |-> IF k <= n THEN h[k] ELSE Next(h[n], batch[n + 1])]
    <2>2. \A k \in 0 .. n : h[k] = IF k = 0 THEN <<>> ELSE Next(h[k - 1], batch[k])
      BY <2>1
    <2> HIDE DEF Next
    <2>3. \A k \in 0 .. n + 1 : g[k] = IF k = 0 THEN <<>> ELSE Next(g[k - 1], batch[k])
      <3>1. SUFFICES ASSUME NEW k \in 0 .. n + 1
                     PROVE  g[k] = IF k = 0 THEN <<>> ELSE Next(g[k - 1], batch[k])
        OBVIOUS
      <3>2. CASE k = 0
        BY <3>2, <2>2
      <3>3. CASE k \in 1 .. n
        <4>1. g[k] = h[k] /\ g[k - 1] = h[k - 1]
          BY <3>3
        <4> QED
          BY <3>3, <4>1, <2>2
      <3>4. CASE k = n + 1
        <4>1. g[k] = Next(h[n], batch[n + 1]) /\ g[k - 1] = h[n]
          BY <3>4
        <4> QED
          BY <3>4, <4>1
      <3> QED
        BY <3>2, <3>3, <3>4
    <2>4. Is(g, n + 1)
      <3> DEFINE e == [k \in 0 .. n + 1 |-> IF k = 0 THEN <<>> ELSE Next(g[k - 1], batch[k])]
      <3>1. \A k \in 0 .. n + 1 : g[k] = e[k]
        BY <2>3
      <3>2. g = [k \in 0 .. n + 1 |-> g[k]] /\ e = [k \in 0 .. n + 1 |-> e[k]]
        OBVIOUS
      <3>3. g = e
        <4> HIDE DEF g, e
        <4> QED
          BY <3>1, <3>2
      <3> HIDE DEF g
      <3> QED
        BY <3>3 DEF Next
    <2> HIDE DEF g, Is
    <2> QED
      BY <2>4
  <1>3. \E h : Is(h, Len(batch))
    <2> HIDE DEF Is
    <2>1. Nat \subseteq G
      <3> HIDE DEF G
      <3> QED
        BY <1>1, <1>2, InductionOnNat
    <2> QED
      BY <2>1
  <1>4. PICK f : f = Without(batch, own)
    OBVIOUS
  <1>5. Is(f, Len(batch))
    BY <1>3, <1>4 DEF Without
  <1>6. f[0] = <<>>
    BY <1>5
  <1>7. ASSUME NEW k \in 1 .. Len(batch)
        PROVE  f[k] = IF batch[k].n \in own THEN f[k - 1] ELSE Append(f[k - 1], batch[k])
    <2> DEFINE y(j) == IF j = 0 THEN <<>> ELSE IF batch[j].n \in own THEN f[j - 1]
                                               ELSE Append(f[j - 1], batch[j])
    <2>1. f = [j \in 0 .. Len(batch) |-> y(j)]
      BY <1>5
    <2>2. k \in 0 .. Len(batch) /\ k # 0
      OBVIOUS
    <2> HIDE DEF y
    <2>3. f[k] = y(k)
      BY <2>1, <2>2
    <2> QED
      BY <2>2, <2>3 DEF y
  <1> QED
    BY <1>4, <1>6, <1>7

\* What is left of a batch are packets.
LEMMA WithoutType ==
  ASSUME NEW batch \in Seq(Slot), NEW own
  PROVE  \A k \in 0 .. Len(batch) : Without(batch, own)[k] \in Seq(Slot)
PROOF
  <1> DEFINE G == {n \in Nat : n <= Len(batch) => Without(batch, own)[n] \in Seq(Slot)}
  <1>0. Len(batch) \in Nat /\ \A k \in 1 .. Len(batch) : batch[k] \in Slot
    BY ElementOfSeq, LenProperties
  <1>1. 0 \in G
    <2>1. <<>> \in Seq(Slot)
      OBVIOUS
    <2>2. Without(batch, own)[0] = <<>>
      BY <1>0, WithoutIs
    <2> QED
      BY <2>1, <2>2
  <1>2. ASSUME NEW n \in Nat, n \in G PROVE n + 1 \in G
    <2>1. SUFFICES ASSUME n + 1 <= Len(batch) PROVE Without(batch, own)[n + 1] \in Seq(Slot)
      OBVIOUS
    <2>2. PICK s \in Seq(Slot) : s = Without(batch, own)[n]
      BY <1>0, <1>2, <2>1
    <2>3. n + 1 \in 1 .. Len(batch) /\ (n + 1) - 1 = n
      BY <1>0, <2>1
    <2>4. Without(batch, own)[n + 1] = IF batch[n + 1].n \in own THEN s ELSE Append(s, batch[n + 1])
      BY <1>0, <2>2, <2>3, WithoutIs
    <2>5. Append(s, batch[n + 1]) \in Seq(Slot)
      BY <1>0, <2>3, AppendProperties
    <2> QED
      BY <2>4, <2>5
  <1>3. Nat \subseteq G
    <2> HIDE DEF G
    <2> QED
      BY <1>1, <1>2, InductionOnNat
  <1> QED
    BY <1>0, <1>3

Negative == {n \in Int : n < 0}

\* The packets sent are known by different negative numbers, on their way to the interface
\* and in the buffer of the kernel.
SentOnce ==
  /\ fifo \in Seq(Negative) /\ sent \in Nat /\ arrived \in Nat
  /\ \A i \in DOMAIN wire : -sent <= wire[i] /\ wire[i] < 0
  /\ \A i, j \in DOMAIN wire : wire[i] = wire[j] => i = j
  /\ \A i \in DOMAIN kbuf : -sent <= kbuf[i].n
  /\ \A i, j \in DOMAIN kbuf : kbuf[i].n = kbuf[j].n /\ kbuf[i].n < 0 => i = j
  /\ \A i \in DOMAIN kbuf, j \in DOMAIN wire : kbuf[i].n # wire[j]

\* Packet k of the batch is the oldest of the sent ones and is left out.
IsOwn(batch, k) ==
  LET s == Filtered(batch)[k - 1] IN s.fifo # <<>> /\ Head(s.fifo) = batch[k].n

\* The sent packets still to be left out are some of those that were.
LEMMA FifoStays ==
  ASSUME fifo \in Seq(Negative), ring \in Rings, NEW batch \in Seq(Slot)
  PROVE  \A k \in 0 .. Len(batch) : Filtered(batch)[k].fifo \in Seq(Negative)
PROOF
  <1> DEFINE G == {n \in Nat : n <= Len(batch) => Filtered(batch)[n].fifo \in Seq(Negative)}
  <1>0. Len(batch) \in Nat /\ \A k \in 1 .. Len(batch) : batch[k] \in Slot
    BY ElementOfSeq, LenProperties
  <1>1. 0 \in G
    BY <1>0, FilteredIs
  <1>2. ASSUME NEW n \in Nat, n \in G PROVE n + 1 \in G
    <2>1. SUFFICES ASSUME n + 1 <= Len(batch) PROVE Filtered(batch)[n + 1].fifo \in Seq(Negative)
      OBVIOUS
    <2>2. n + 1 \in 1 .. Len(batch) /\ (n + 1) - 1 = n /\ n \in 0 .. Len(batch)
      BY <1>0, <2>1
    <2>3. PICK s : s = Filtered(batch)[n]
      OBVIOUS
    <2>4. Pair(s) /\ s.fifo \in Seq(Negative)
      BY <1>0, <1>2, <2>1, <2>2, <2>3, FilteredPairs
    <2>5. Filtered(batch)[n + 1] = Filter(s, batch[n + 1])
      BY <1>0, <2>2, <2>3, FilteredIs
    <2>6. Filter(s, batch[n + 1]).fifo \in {s.fifo, Tail(s.fifo)}
          /\ (s.fifo = <<>> => Filter(s, batch[n + 1]).fifo = s.fifo)
      BY <2>4 DEF Filter, Pair
    <2>7. s.fifo # <<>> => Tail(s.fifo) \in Seq(Negative)
      BY <2>4, HeadTailProperties
    <2> QED
      BY <2>4, <2>5, <2>6, <2>7
  <1>3. Nat \subseteq G
    <2> HIDE DEF G
    <2> QED
      BY <1>1, <1>2, InductionOnNat
  <1> QED
    BY <1>0, <1>3

\* The numbers of the packets of a batch that are left out
OwnNumbers(batch) == {batch[k].n : k \in {j \in 1 .. Len(batch) : IsOwn(batch, j)}}

\* A number left out is negative.
LEMMA OwnIsNegative ==
  ASSUME fifo \in Seq(Negative), ring \in Rings, NEW batch \in Seq(Slot),
         NEW k \in 1 .. Len(batch), IsOwn(batch, k)
  PROVE  batch[k].n < 0 /\ batch[k].n \in OwnNumbers(batch)
PROOF
  <1>1. k - 1 \in 0 .. Len(batch)
    BY LenProperties
  <1>2. PICK q : q = Filtered(batch)[k - 1].fifo
    OBVIOUS
  <1>3. q \in Seq(Negative)
    BY <1>1, <1>2, FifoStays
  <1>4. q # <<>> /\ Head(q) = batch[k].n
    BY <1>2 DEF IsOwn
  <1>5. Head(q) \in Negative
    BY <1>3, <1>4, HeadTailProperties
  <1> QED
    BY <1>4, <1>5 DEF Negative, OwnNumbers

\* The loop of receive() while capturing: what is in the ring is what a queue keeps of what
\* was there and the batch without the packets that are left out.
LEMMA FilteredQueue ==
  ASSUME run, fifo \in Seq(Negative), ring \in Rings, NEW batch \in Seq(Slot),
         \A i, j \in 1 .. Len(batch) : batch[i].n = batch[j].n /\ batch[i].n < 0 => i = j,
         NEW own, own = OwnNumbers(batch)
  PROVE  \A k \in 0 .. Len(batch) :
           QueueOf(Filtered(batch)[k].ring)
             = KeptIn(ring.mode, QueueOf(ring) \o Without(batch, own)[k])
PROOF
  <1> DEFINE Good(n) == /\ Filtered(batch)[n].ring.mode = ring.mode
                        /\ QueueOf(Filtered(batch)[n].ring)
                             = KeptIn(ring.mode, QueueOf(ring) \o Without(batch, own)[n])
             G == {n \in Nat : n <= Len(batch) => Good(n)}
  <1>0. Len(batch) \in Nat /\ \A k \in 1 .. Len(batch) : batch[k] \in Slot
    BY ElementOfSeq, LenProperties
  <1>a. PICK q \in Seq(Slot) : q = QueueOf(ring) /\ Len(q) <= RbSize
    BY QueueHolds, PbAssumption
  <1>b. PICK mode : mode = ring.mode
    OBVIOUS
  <1>1. 0 \in G
    <2>1. q \o <<>> = q
      BY ConcatEmptySeq
    <2>2. KeptIn(ring.mode, q) = q
      BY <1>a, KeptHolds
    <2>3. Filtered(batch)[0].ring = ring
      BY <1>0, FilteredIs
    <2>4. Without(batch, own)[0] = <<>>
      BY <1>0, WithoutIs
    <2>5. Good(0)
      BY <1>a, <2>1, <2>2, <2>3, <2>4
    <2> HIDE DEF Good
    <2> QED
      BY <2>5
  <1>2. ASSUME NEW n \in Nat, n \in G PROVE n + 1 \in G
    <2>1. SUFFICES ASSUME n + 1 <= Len(batch) PROVE Good(n + 1)
      <3> HIDE DEF Good
      <3> QED
        OBVIOUS
    <2>2. n + 1 \in 1 .. Len(batch) /\ (n + 1) - 1 = n /\ n \in 0 .. Len(batch)
      BY <1>0, <2>1
    <2>3. Good(n)
      <3> HIDE DEF Good
      <3> QED
        BY <1>0, <1>2, <2>1
    <2>4. PICK s : s = Filtered(batch)[n]
      OBVIOUS
    <2>5. PICK x \in Seq(Slot) : x = Without(batch, own)[n]
      BY <2>2, WithoutType
    <2>6. Pair(s) /\ s.ring.mode = mode /\ QueueOf(s.ring) = KeptIn(mode, q \o x)
      BY <1>a, <1>b, <2>2, <2>3, <2>4, <2>5, FilteredPairs
    <2>7. PICK p \in Slot : p = batch[n + 1]
      BY <1>0, <2>2
    <2>8. PICK f : f = Filter(s, p)
      OBVIOUS
    <2>9. Filtered(batch)[n + 1] = f
      BY <1>0, <2>2, <2>4, <2>7, <2>8, FilteredIs
    <2>10. Without(batch, own)[n + 1] = IF p.n \in own THEN x ELSE Append(x, p)
      BY <1>0, <2>2, <2>5, <2>7, WithoutIs
    <2>11. IsOwn(batch, n + 1) <=> s.fifo # <<>> /\ Head(s.fifo) = p.n
      BY <2>2, <2>4, <2>7 DEF IsOwn
    <2>12. CASE IsOwn(batch, n + 1)
      <3>1. p.n \in own
        BY <2>2, <2>7, <2>12, OwnIsNegative
      <3>2. f.ring = s.ring
        BY <2>6, <2>8, <2>11, <2>12 DEF Filter, Pair
      <3> QED
        BY <1>a, <1>b, <2>6, <2>9, <2>10, <3>1, <3>2
    <2>13. CASE ~IsOwn(batch, n + 1)
      <3>1. p.n \notin own
        <4>1. SUFFICES ASSUME p.n \in own PROVE FALSE
          OBVIOUS
        <4>2. PICK j \in 1 .. Len(batch) : IsOwn(batch, j) /\ p.n = batch[j].n
          BY <4>1 DEF OwnNumbers
        <4>3. batch[j].n < 0
          BY <4>2, OwnIsNegative
        <4>4. j = n + 1
          BY <2>2, <2>7, <4>2, <4>3
        <4> QED
          BY <2>13, <4>2, <4>4
      <3>2. f.ring = rbWrite(s.ring, p)
        BY <2>6, <2>8, <2>11, <2>13 DEF Filter, Pair
      <3>3. PICK r \in Rings : r = s.ring
        BY <2>6 DEF Pair
      <3>4. QueueOf(f.ring) = KeptIn(mode, Append(KeptIn(mode, q \o x), p)) /\ f.ring.mode = mode
        BY <2>6, <3>2, <3>3, QueueWrite
      <3>5. q \o x \in Seq(Slot) /\ Append(q \o x, p) = q \o Append(x, p)
        <4>1. /\ q \o x \in Seq(Slot) /\ <<p>> \in Seq(Slot)
              /\ Append(q \o x, p) = (q \o x) \o <<p>> /\ Append(x, p) = x \o <<p>>
          BY AppendIsConcat, ConcatProperties
        <4>2. (q \o x) \o <<p>> = q \o (x \o <<p>>)
          BY <4>1, ConcatAssociative
        <4> QED
          BY <4>1, <4>2
      <3>6. QueueOf(f.ring) = KeptIn(mode, q \o Append(x, p))
        BY <3>4, <3>5, KeptTwice
      <3> QED
        BY <1>a, <1>b, <2>9, <2>10, <3>1, <3>4, <3>6
    <2> QED
      BY <2>12, <2>13
  <1>3. Nat \subseteq G
    <2> HIDE DEF G
    <2> QED
      BY <1>1, <1>2, InductionOnNat
  <1> QED
    BY <1>0, <1>3

\* Without capturing the loop leaves the ring alone.
LEMMA FilteredQuiet ==
  ASSUME ~run, ring \in Rings, NEW batch \in Seq(Slot)
  PROVE  FilteredRing(batch) = ring
PROOF
  <1> DEFINE G == {n \in Nat : n <= Len(batch) => Filtered(batch)[n].ring = ring}
  <1>0. Len(batch) \in Nat
    BY LenProperties
  <1>1. 0 \in G
    BY <1>0, FilteredIs
  <1>2. ASSUME NEW n \in Nat, n \in G PROVE n + 1 \in G
    <2>1. SUFFICES ASSUME n + 1 <= Len(batch) PROVE Filtered(batch)[n + 1].ring = ring
      OBVIOUS
    <2>2. n + 1 \in 1 .. Len(batch) /\ (n + 1) - 1 = n /\ n \in 0 .. Len(batch)
      BY <1>0, <2>1
    <2>3. PICK s : s = Filtered(batch)[n]
      OBVIOUS
    <2>4. Pair(s) /\ s.ring = ring
      BY <1>0, <1>2, <2>1, <2>2, <2>3, FilteredPairs
    <2>5. Filtered(batch)[n + 1] = Filter(s, batch[n + 1])
      BY <1>0, <2>2, <2>3, FilteredIs
    <2> QED
      BY <2>4, <2>5 DEF Filter, Pair
  <1>3. Nat \subseteq G
    <2> HIDE DEF G
    <2> QED
      BY <1>1, <1>2, InductionOnNat
  <1> QED
    BY <1>0, <1>3 DEF FilteredRing

\* What receive() leaves of the sent packets.
LEMMA ReceivedFifo ==
  ASSUME fifo \in Seq(Negative), ring \in Rings, NEW batch \in Seq(Slot)
  PROVE  Received(batch).fifo \in Seq(Negative)
PROOF
  <1>1. PICK f : f = Filtered(batch)[Len(batch)]
    OBVIOUS
  <1>2. f.fifo \in Seq(Negative)
    <2>1. Len(batch) \in 0 .. Len(batch)
      BY LenProperties
    <2> QED
      BY <1>1, <2>1, FifoStays
  <1>3. Received(batch) = readydata(With(f.fifo, f.ring), batch)
    BY <1>1 DEF Received
  <1>4. Received(batch).fifo = f.fifo
    BY <1>3 DEF readydata, With
  <1> QED
    BY <1>2, <1>4

\* The steps that send nothing and bring no packet.
LEMMA SentKeeps ==
  ASSUME SentOnce, kbuf' \in {kbuf, <<>>}, fifo' \in Seq(Negative), UNCHANGED <<wire, sent, arrived>>
  PROVE  SentOnce'
PROOF
  <1>1. DOMAIN <<>> = {}
    OBVIOUS
  <1>2. CASE kbuf' = kbuf
    BY <1>2 DEF SentOnce
  <1>3. CASE kbuf' = <<>>
    BY <1>1, <1>3 DEF SentOnce
  <1> QED
    BY <1>2, <1>3

\* A packet is sent: it has a number of its own.
LEMMA SentAppends ==
  ASSUME NEW c \in Clients, W, SentOnce, writeRequest(c), wire' = Append(wire, -(sent + 1))
  PROVE  SentOnce'
PROOF
  <1>1. /\ wire \in Seq(Int) /\ kbuf \in Seq(Slot) /\ sent \in Nat /\ fifo \in Seq(Negative)
    BY DEF W, Types, SentOnce
  <1>2. PICK n \in Negative : n = -(sent + 1)
    BY <1>1 DEF Negative
  <1>3. /\ sent' = sent + 1 /\ fifo' = Append(fifo, n) /\ wire' = Append(wire, n)
        /\ kbuf' = kbuf /\ arrived' = arrived
    BY <1>2 DEF writeRequest, Serves
  <1>4. n \in Int /\ n < 0 /\ n < -sent /\ -sent' <= n /\ -sent' <= -sent /\ sent' \in Nat /\ -sent \in Int
    BY <1>1, <1>2, <1>3 DEF Negative
  <1>5. fifo' \in Seq(Negative)
    BY <1>1, <1>3, AppendProperties
  <1>6. PICK m \in Nat : m = Len(wire) /\ DOMAIN wire = 1 .. m
    BY <1>1, LenProperties
  <1>7. /\ DOMAIN wire' = 1 .. m + 1 /\ wire'[m + 1] = n
        /\ \A i \in 1 .. m : wire'[i] = wire[i] /\ wire[i] \in Int
    <2>1. /\ Append(wire, n) \in Seq(Int) /\ Len(Append(wire, n)) = m + 1
          /\ Append(wire, n)[m + 1] = n /\ \A i \in 1 .. m : Append(wire, n)[i] = wire[i]
      BY <1>1, <1>4, <1>6, AppendProperties
    <2>2. DOMAIN Append(wire, n) = 1 .. m + 1
      BY <2>1, LenProperties
    <2> QED
      BY <1>1, <1>3, <1>6, <2>1, <2>2, ElementOfSeq
  <1>8. \A i \in 1 .. m + 1 : i = m + 1 \/ i \in 1 .. m
    OBVIOUS
  <1>9. \A i \in DOMAIN wire : -sent <= wire[i] /\ wire[i] < 0
    BY DEF SentOnce
  <1>10. \A i \in DOMAIN kbuf : -sent <= kbuf[i].n /\ kbuf[i].n \in Int
    <2>1. \A i \in DOMAIN kbuf : kbuf[i] \in Slot
      BY <1>1, LenProperties, ElementOfSeq
    <2>2. \A i \in DOMAIN kbuf : -sent <= kbuf[i].n
      BY DEF SentOnce
    <2> QED
      BY <2>1, <2>2 DEF Slot
  <1>11. \A i \in DOMAIN wire' : -sent' <= wire'[i] /\ wire'[i] < 0
    <2>1. PICK a \in Int, b \in Int : a = -sent /\ b = -sent' /\ b <= n /\ b <= a /\ n < 0
      <3>1. -sent \in Int /\ -sent' \in Int
        BY <1>4
      <3>2. -sent' <= n /\ -sent' <= -sent /\ n < 0
        BY <1>4
      <3> QED
        BY <3>1, <3>2, Zenon
    <2>2. \A i \in 1 .. m : b <= wire'[i] /\ wire'[i] < 0
      BY <1>6, <1>7, <1>9, <2>1
    <2> QED
      BY <1>7, <1>8, <2>1, <2>2
  <1>12. \A i, j \in DOMAIN wire' : wire'[i] = wire'[j] => i = j
    <2>1. \A i \in 1 .. m : wire'[i] # n
      BY <1>4, <1>6, <1>7, <1>9
    <2>2. \A i, j \in 1 .. m : wire'[i] = wire'[j] => i = j
      BY <1>6, <1>7 DEF SentOnce
    <2> QED
      BY <1>7, <1>8, <2>1, <2>2
  <1>13. \A i \in DOMAIN kbuf' : -sent' <= kbuf'[i].n
    BY <1>3, <1>4, <1>10
  <1>14. \A i \in DOMAIN kbuf', j \in DOMAIN wire' : kbuf'[i].n # wire'[j]
    <2>1. \A i \in DOMAIN kbuf : kbuf[i].n # n
      BY <1>4, <1>10
    <2>2. \A i \in DOMAIN kbuf, j \in 1 .. m : kbuf[i].n # wire'[j]
      BY <1>6, <1>7 DEF SentOnce
    <2> QED
      BY <1>3, <1>7, <1>8, <2>1, <2>2
  <1>15. \A i, j \in DOMAIN kbuf' : kbuf'[i].n = kbuf'[j].n /\ kbuf'[i].n < 0 => i = j
    BY <1>3 DEF SentOnce
  <1>16. arrived' \in Nat
    BY <1>3 DEF SentOnce
  <1> QED
    BY <1>4, <1>5, <1>11, <1>12, <1>13, <1>14, <1>15, <1>16 DEF SentOnce

\* A packet is sent, or noted as sent in vain.
LEMMA SentWrite ==
  ASSUME NEW c \in Clients, W, SentOnce, writeRequest(c) PROVE SentOnce'
PROOF
  <1>1. CASE wire' = Append(wire, -(sent + 1))
    BY <1>1, SentAppends
  <1>2. CASE wire' = wire
    <2>1. /\ sent \in Nat /\ fifo \in Seq(Negative) /\ wire \in Seq(Int) /\ kbuf \in Seq(Slot)
      BY DEF W, Types, SentOnce
    <2>2. PICK n \in Negative : n = -(sent + 1)
      BY <2>1 DEF Negative
    <2>3. sent' = sent + 1 /\ fifo' = Append(fifo, n) /\ kbuf' = kbuf /\ arrived' = arrived
      BY <2>2 DEF writeRequest, Serves
    <2>4. fifo' \in Seq(Negative)
      BY <2>1, <2>3, AppendProperties
    <2>5. PICK a \in Int, b \in Int : a = -sent /\ b = -sent' /\ b <= a /\ sent' \in Nat
      BY <2>1, <2>3
    <2>6. \A i \in DOMAIN wire : wire[i] \in Int
      BY <2>1, LenProperties, ElementOfSeq
    <2>7. \A i \in DOMAIN kbuf : kbuf[i].n \in Int
      <3>1. \A i \in DOMAIN kbuf : kbuf[i] \in Slot
        BY <2>1, LenProperties, ElementOfSeq
      <3> QED
        BY <3>1 DEF Slot
    <2>8. \A i \in DOMAIN wire' : -sent' <= wire'[i] /\ wire'[i] < 0
      BY <1>2, <2>5, <2>6 DEF SentOnce
    <2>9. \A i \in DOMAIN kbuf' : -sent' <= kbuf'[i].n
      BY <2>3, <2>5, <2>7 DEF SentOnce
    <2>10. /\ \A i, j \in DOMAIN wire' : wire'[i] = wire'[j] => i = j
           /\ \A i, j \in DOMAIN kbuf' : kbuf'[i].n = kbuf'[j].n /\ kbuf'[i].n < 0 => i = j
           /\ \A i \in DOMAIN kbuf', j \in DOMAIN wire' : kbuf'[i].n # wire'[j]
      BY <1>2, <2>3 DEF SentOnce
    <2>11. arrived' \in Nat
      BY <2>3 DEF SentOnce
    <2> QED
      BY <2>4, <2>5, <2>8, <2>9, <2>10, <2>11 DEF SentOnce
  <1> QED
    BY <1>1, <1>2 DEF writeRequest

\* A packet comes into the buffer of the kernel.
LEMMA SentComes ==
  ASSUME Types, SentOnce, NEW p \in Slot, kbuf' = Append(kbuf, p), UNCHANGED <<fifo, sent>>,
         arrived' \in Nat, wire' \in Seq(Int), -sent <= p.n,
         p.n < 0 => \A i \in DOMAIN kbuf : kbuf[i].n # p.n,
         \A j \in DOMAIN wire' : wire'[j] # p.n,
         NEW q, q \in {0, 1}, \A j \in DOMAIN wire' : j + q \in DOMAIN wire /\ wire'[j] = wire[j + q]
  PROVE  SentOnce'
PROOF
  <1>1. kbuf \in Seq(Slot) /\ wire \in Seq(Int) /\ sent \in Nat
    BY DEF Types, SentOnce
  <1>2. PICK m \in Nat : m = Len(kbuf) /\ DOMAIN kbuf = 1 .. m
    BY <1>1, LenProperties
  <1>3. DOMAIN kbuf' = 1 .. m + 1 /\ kbuf'[m + 1] = p /\ \A i \in 1 .. m : kbuf'[i] = kbuf[i]
    <2>1. /\ Append(kbuf, p) \in Seq(Slot) /\ Len(Append(kbuf, p)) = m + 1
          /\ Append(kbuf, p)[m + 1] = p /\ \A i \in 1 .. m : Append(kbuf, p)[i] = kbuf[i]
      BY <1>1, <1>2, AppendProperties
    <2>2. DOMAIN Append(kbuf, p) = 1 .. m + 1
      BY <2>1, LenProperties
    <2> QED
      BY <2>1, <2>2
  <1>4. \A i \in 1 .. m + 1 : i = m + 1 \/ i \in 1 .. m
    OBVIOUS
  <1>5. \A i \in DOMAIN kbuf' : -sent' <= kbuf'[i].n
    BY <1>2, <1>3, <1>4 DEF SentOnce
  <1>6. \A i, j \in DOMAIN kbuf' : kbuf'[i].n = kbuf'[j].n /\ kbuf'[i].n < 0 => i = j
    <2>1. \A i, j \in 1 .. m : kbuf'[i].n = kbuf'[j].n /\ kbuf'[i].n < 0 => i = j
      BY <1>2, <1>3 DEF SentOnce
    <2>2. p.n < 0 => \A i \in 1 .. m : kbuf'[i].n # p.n
      BY <1>2, <1>3
    <2> QED
      BY <1>3, <1>4, <2>1, <2>2
  <1>7. \A j \in DOMAIN wire' : j + q \in DOMAIN wire /\ wire'[j] = wire[j + q]
    OBVIOUS
  <1>8. \A i \in DOMAIN wire' : -sent' <= wire'[i] /\ wire'[i] < 0
    BY <1>7 DEF SentOnce
  <1>9. \A i, j \in DOMAIN wire' : wire'[i] = wire'[j] => i = j
    <2>1. \A i \in DOMAIN wire' : i \in Int
      BY LenProperties
    <2>2. \A i, j \in DOMAIN wire' : wire'[i] = wire'[j] => i + q = j + q
      BY <1>7 DEF SentOnce
    <2>3. \A i, j \in Int : i + q = j + q => i = j
      OBVIOUS
    <2> QED
      BY <2>1, <2>2, <2>3
  <1>10. \A i \in DOMAIN kbuf', j \in DOMAIN wire' : kbuf'[i].n # wire'[j]
    <2>1. \A i \in 1 .. m, j \in DOMAIN wire' : kbuf'[i].n # wire'[j]
      <3>1. SUFFICES ASSUME NEW i \in 1 .. m, NEW j \in DOMAIN wire' PROVE kbuf'[i].n # wire'[j]
        OBVIOUS
      <3>2. j + q \in DOMAIN wire /\ wire'[j] = wire[j + q]
        BY <1>7
      <3>3. kbuf[i].n # wire[j + q]
        BY <1>2, <3>2 DEF SentOnce
      <3> QED
        BY <1>3, <3>2, <3>3
    <2> QED
      BY <1>3, <1>4, <2>1
  <1> QED
    BY <1>5, <1>6, <1>8, <1>9, <1>10 DEF SentOnce

\* A packet of the network or a sent one comes.
LEMMA SentWorld ==
  ASSUME Types, SentOnce, Arrives \/ Echoes PROVE SentOnce'
PROOF
  <1>1. /\ wire \in Seq(Int) /\ kbuf \in Seq(Slot) /\ now \in Int
        /\ sent \in Nat /\ arrived \in Nat
    BY DEF Types, SentOnce
  <1>2. /\ Len(wire) \in Nat /\ DOMAIN wire = 1 .. Len(wire)
    BY <1>1, LenProperties
  <1>3. \A j \in DOMAIN wire : -sent <= wire[j] /\ wire[j] < 0 /\ wire[j] \in Int
    <2>1. \A j \in DOMAIN wire : -sent <= wire[j] /\ wire[j] < 0
      BY DEF SentOnce
    <2>2. \A j \in DOMAIN wire : wire[j] \in Int
      BY <1>1, <1>2, ElementOfSeq
    <2> QED
      BY <2>1, <2>2
  <1>4. CASE Arrives
    <2>1. PICK p : p = [n |-> arrived + 1, at |-> now]
      OBVIOUS
    <2>2. /\ kbuf' = Append(kbuf, p) /\ arrived' = arrived + 1
          /\ UNCHANGED <<fifo, sent, wire>>
      BY <1>4, <2>1 DEF Arrives
    <2>3. p \in Slot /\ p.n = arrived + 1
      BY <1>1, <2>1 DEF Slot
    <2>4. arrived' \in Nat /\ -sent <= p.n /\ p.n > 0
      BY <1>1, <2>2, <2>3
    <2>5. \A j \in DOMAIN wire' : wire'[j] # p.n
      BY <1>3, <2>2, <2>3, <2>4 DEF Slot
    <2>6. 0 \in {0, 1} /\ \A j \in DOMAIN wire' : j + 0 \in DOMAIN wire /\ wire'[j] = wire[j + 0]
      BY <1>2, <2>2
    <2>7. ~(p.n < 0) /\ wire' \in Seq(Int)
      BY <1>1, <2>2, <2>3, <2>4 DEF Slot
    <2> QED
      BY <2>2, <2>3, <2>4, <2>5, <2>6, <2>7, SentComes
  <1>5. CASE Echoes
    <2>1. PICK p : p = [n |-> Head(wire), at |-> now]
      OBVIOUS
    <2>2. /\ wire # <<>> /\ kbuf' = Append(kbuf, p) /\ wire' = Tail(wire)
          /\ UNCHANGED <<fifo, sent, arrived>>
      BY <1>5, <2>1 DEF Echoes
    <2>3. 1 \in DOMAIN wire /\ Head(wire) = wire[1]
      BY <1>2, <2>2, EmptySeq, <1>1
    <2>4. p \in Slot /\ p.n = wire[1]
      BY <1>1, <1>3, <2>1, <2>3 DEF Slot
    <2>5. arrived' \in Nat /\ -sent <= p.n
      BY <1>1, <1>3, <2>2, <2>3, <2>4
    <2>6. /\ wire' \in Seq(Int) /\ DOMAIN wire' = 1 .. Len(wire) - 1
          /\ \A j \in 1 .. Len(wire) - 1 : wire'[j] = wire[j + 1]
      <3>1. /\ Tail(wire) \in Seq(Int) /\ Len(Tail(wire)) = Len(wire) - 1
            /\ \A j \in 1 .. Len(Tail(wire)) : Tail(wire)[j] = wire[j + 1]
        BY <1>1, <2>2, HeadTailProperties
      <3>2. DOMAIN Tail(wire) = 1 .. Len(wire) - 1
        BY <3>1, LenProperties
      <3> QED
        BY <2>2, <3>1, <3>2
    <2>7. \A j \in DOMAIN wire' : j + 1 \in DOMAIN wire /\ wire'[j] = wire[j + 1]
      BY <1>2, <2>6
    <2>8. \A j \in DOMAIN wire' : wire'[j] # p.n
      <3>1. \A j \in 1 .. Len(wire) - 1 : wire[j + 1] # wire[1]
        <4>1. \A j \in 1 .. Len(wire) - 1 : j + 1 \in DOMAIN wire /\ j + 1 # 1
          BY <1>2
        <4> QED
          BY <2>3, <4>1 DEF SentOnce
      <3> QED
        BY <2>4, <2>6, <3>1
    <2>9. \A i \in DOMAIN kbuf : kbuf[i].n # p.n
      BY <2>3, <2>4 DEF SentOnce
    <2>10. 1 \in {0, 1}
      OBVIOUS
    <2> QED
      BY <2>2, <2>4, <2>5, <2>6, <2>7, <2>8, <2>9, <2>10, SentComes
  <1> QED
    BY <1>4, <1>5

\* Sent packets keep numbers of their own.
LEMMA SentStep == ASSUME W, SentOnce, [PbNext]_vars PROVE SentOnce'
PROOF
  <1>1. fifo \in Seq(Negative) /\ <<>> \in Seq(Negative) /\ ring \in Rings /\ kbuf \in Seq(Slot) /\ Types
    BY DEF SentOnce, W, Types
  <1>2. CASE Dispatch
    <2>1. ASSUME NEW c \in Clients, Request(c) PROVE SentOnce'
      <3>1. CASE writeRequest(c)
        BY <3>1, SentWrite
      <3>2. CASE clearRequest(c)
        <4>1. fifo' = <<>> /\ kbuf' = <<>> /\ UNCHANGED <<wire, sent, arrived>>
          BY <3>2 DEF clearRequest, Serves
        <4> QED
          BY <1>1, <4>1, SentKeeps
      <3>3. CASE ~writeRequest(c) /\ ~clearRequest(c)
        <4>1. kbuf' \in {kbuf, <<>>} /\ fifo' = fifo /\ UNCHANGED <<wire, sent, arrived>>
          BY <2>1, <3>3 DEF Request, connectRequest, wrapRequest, nowrapRequest, captureRequest,
             stopRequest, readRequest, dumpRequest, connectionLost, Simple, Serves
        <4> QED
          BY <1>1, <4>1, SentKeeps
      <3> QED
        BY <3>1, <3>2, <3>3
    <2>2. CASE receive
      <3>1. fifo' = Received(kbuf).fifo /\ kbuf' = <<>> /\ UNCHANGED <<wire, sent, arrived>>
        BY <2>2 DEF receive
      <3>2. fifo' \in Seq(Negative)
        BY <1>1, <3>1, ReceivedFifo
      <3> QED
        BY <3>1, <3>2, SentKeeps
    <2>3. CASE (Selects(Ready) /\ UNCHANGED pbVars) \/ accept \/ \E c \in Clients : timeout(c)
      <3>1. UNCHANGED <<kbuf, fifo, wire, sent, arrived>>
        BY <2>3 DEF pbVars, accept, timeout
      <3> QED
        BY <1>1, <3>1, SentKeeps
    <2> QED
      BY <1>2, <2>1, <2>2, <2>3 DEF Dispatch
  <1>3. CASE Arrives \/ Echoes
    BY <1>1, <1>3, SentWorld
  <1>4. CASE \/ Tick /\ UNCHANGED pbVars
             \/ UNCHANGED vars
             \/ \E c \in Clients, r \in Requests, dl \in Deadlines \cup {0} : Asks(c, r, dl)
             \/ \E c \in Clients : connect(c) \/ Exits(c) \/ Killed(c)
    <2>1. UNCHANGED <<kbuf, fifo, wire, sent, arrived>>
      BY <1>4 DEF pbVars, vars, Asks, connect, Exits, Killed
    <2> QED
      BY <1>1, <2>1, SentKeeps
  <1> QED
    BY <1>2, <1>3, <1>4 DEF PbNext

\* At the start nothing was sent.
LEMMA SentInit == PbInit => SentOnce
PROOF
  <1>1. <<>> \in Seq(Negative) /\ DOMAIN <<>> = {} /\ 0 \in Nat
    OBVIOUS
  <1> QED
    BY <1>1 DEF PbInit, SentOnce

\* What RingIsQueue says of a step
QueueStep ==
  IF ReadsBpf /\ run
  THEN \E own \in SUBSET {p.n : p \in {q \in Range(kbuf) : q.n < 0}} :
         LET all == Kept(Contents \o Without(kbuf, own)[Len(kbuf)])
         IN Contents' = IF Serving THEN Tail(all) ELSE all
  ELSE \/ Contents' = Contents /\ ~Serving
       \/ Serving /\ Contents # <<>> /\ Contents' = Tail(Contents)
       \/ Contents' = <<>> /\ \E c \in Clients : Clears(c)

\* Only receive() takes the descriptor of bpf out of the turn.
LEMMA OthersReadNot ==
  ASSUME W, [PbNext]_vars, ~receive PROVE ~ReadsBpf
PROOF
  <1>1. /\ \A c \in Clients : tool[c].fd # BpfFd
        /\ AcceptFd # BpfFd
    BY DEF W, ConnInv, Descriptors, Accepted, BpfFd, AcceptFd
  <1>2. ASSUME NEW c \in Clients, Request(c) PROVE turn' = turn \ {tool[c].fd}
    BY <1>2 DEF Request, connectRequest, wrapRequest, nowrapRequest, captureRequest, clearRequest,
             writeRequest, stopRequest, readRequest, dumpRequest, connectionLost, Simple, Serves,
             Notifies
  <1>3. CASE Dispatch
    <2>1. ASSUME NEW c \in Clients, Request(c) \/ timeout(c) PROVE ~ReadsBpf
      BY <1>1, <1>2, <2>1 DEF timeout, Expires, ReadsBpf
    <2>2. CASE accept
      BY <1>1, <2>2 DEF accept, Notifies, ReadsBpf
    <2>3. CASE Selects(Ready) /\ UNCHANGED pbVars
      BY <2>3 DEF Selects, ReadsBpf
    <2> QED
      BY <1>3, <2>1, <2>2, <2>3 DEF Dispatch
  <1>4. CASE ~Dispatch
    <2>1. turn' = turn
      BY <1>4 DEF PbNext, vars, cmVars, Tick, Asks, connect, Exits, Killed, Arrives, Echoes
    <2> QED
      BY <2>1 DEF ReadsBpf
  <1> QED
    BY <1>3, <1>4

\* The steps that leave the packets in the ring alone.
LEMMA QueueRests ==
  ASSUME ~ReadsBpf, got' = got, ring'.slots = ring.slots, ring'.rp = ring.rp, ring'.wp = ring.wp,
         got \in Seq(Int)
  PROVE  QueueStep
PROOF
  <1>1. Contents' = Contents
    BY DEF Contents, datanum, place
  <1>2. ~Serving
    BY LenProperties DEF Serving
  <1> QED
    BY <1>1, <1>2 DEF QueueStep

\* A batch of bpf.
LEMMA QueueReceive == ASSUME W, SentOnce, receive PROVE QueueStep
PROOF
  <1>1. /\ ring \in Rings /\ kbuf \in Seq(Slot) /\ got \in Seq(Int) /\ fifo \in Seq(Negative)
        /\ readwait # Nobody => isEmpty(ring)
    BY DEF W, Types, WaitInv, Reader, SentOnce
  <1>2. ReadsBpf
    BY DEF receive, Notifies, ReadsBpf
  <1>3. PICK r \in Rings : r = FilteredRing(kbuf)
    BY <1>1, ReceivedIs
  <1>4. ring' = Received(kbuf).ring /\ got' = Received(kbuf).got
    BY DEF receive
  <1>5. \/ ring' = r /\ got' = got
        \/ /\ ~isEmpty(r) /\ readwait # Nobody /\ ring' = rbRead(r)
           /\ kbuf # <<>> /\ kbuf[1] \in Slot /\ got' = Append(got, kbuf[1].n)
    BY <1>1, <1>3, <1>4, ReceivedIs
  <1>6. got' = got => ~Serving
    BY <1>1, LenProperties DEF Serving
  <1>7. ASSUME kbuf[1] \in Slot, got' = Append(got, kbuf[1].n) PROVE Serving
    <2>1. kbuf[1].n \in Int
      BY <1>7 DEF Slot
    <2>2. Len(got') = Len(got) + 1 /\ Len(got) \in Nat
      BY <1>1, <1>7, <2>1, AppendProperties, LenProperties
    <2> QED
      BY <2>2 DEF Serving
  <1>8. Contents' = QueueOf(ring')
    BY DEF Contents, QueueOf, datanum, place
  <1>9. CASE run
    <2>1. PICK own : own = OwnNumbers(kbuf)
      OBVIOUS
    <2>2. Len(kbuf) \in Nat /\ DOMAIN kbuf = 1 .. Len(kbuf)
      BY <1>1, LenProperties
    <2>3. own \subseteq {p.n : p \in {q \in Range(kbuf) : q.n < 0}}
      <3>1. ASSUME NEW k \in 1 .. Len(kbuf), IsOwn(kbuf, k)
            PROVE  kbuf[k] \in Range(kbuf) /\ kbuf[k].n < 0
        BY <1>1, <2>2, <3>1, OwnIsNegative DEF Range
      <3> QED
        BY <2>1, <3>1 DEF OwnNumbers
    <2>4. \A i, j \in 1 .. Len(kbuf) : kbuf[i].n = kbuf[j].n /\ kbuf[i].n < 0 => i = j
      BY <2>2 DEF SentOnce
    <2>5. QueueOf(r) = KeptIn(ring.mode, QueueOf(ring) \o Without(kbuf, own)[Len(kbuf)])
      <3>1. Len(kbuf) \in 0 .. Len(kbuf)
        BY <2>2
      <3> QED
        BY <1>1, <1>3, <1>9, <2>1, <2>4, <3>1, FilteredQueue DEF FilteredRing
    <2>6. QueueOf(r) = Kept(Contents \o Without(kbuf, own)[Len(kbuf)])
      BY <2>5, QueueIs
    <2>7. Contents' = IF Serving THEN Tail(QueueOf(r)) ELSE QueueOf(r)
      BY <1>3, <1>5, <1>6, <1>7, <1>8, QueueRead
    <2>8. PICK all : all = Kept(Contents \o Without(kbuf, own)[Len(kbuf)])
      OBVIOUS
    <2>9. Contents' = IF Serving THEN Tail(all) ELSE all
      BY <2>6, <2>7, <2>8
    <2> QED
      BY <1>2, <1>9, <2>3, <2>8, <2>9 DEF QueueStep
  <1>10. CASE ~run
    <2>1. r = ring
      BY <1>1, <1>3, <1>10, FilteredQuiet
    <2>2. ring' = ring /\ got' = got
      BY <1>1, <1>5, <2>1
    <2> QED
      BY <1>6, <1>8, <1>10, <2>2, QueueIs DEF QueueStep
  <1> QED
    BY <1>9, <1>10

\* The oldest packet is given to a reader.
LEMMA QueueReader == ASSUME NEW c \in Clients, W, ~ReadsBpf, readRequest(c) PROVE QueueStep
PROOF
  <1>1. ring \in Rings /\ got \in Seq(Int)
    BY DEF W, Types
  <1>2. CASE ring' = ring /\ got' = got
    BY <1>1, <1>2, QueueRests
  <1>3. CASE ~isEmpty(ring) /\ ring' = rbRead(ring) /\ got' = Append(got, readn(ring, 0).n)
    <2>1. readn(ring, 0).n \in Int
      <3>1. 0 \in 0 .. RbSize
        BY PbAssumption
      <3>2. readn(ring, 0) \in Slot
        BY <1>1, <3>1, RingTypes
      <3> QED
        BY <3>2 DEF Slot
    <2>2. Len(got') = Len(got) + 1 /\ Len(got) \in Nat
      BY <1>1, <1>3, <2>1, AppendProperties, LenProperties
    <2>3. Serving
      BY <2>2 DEF Serving
    <2>4. Contents' = QueueOf(ring')
      BY DEF Contents, QueueOf, datanum, place
    <2>5. Contents # <<>> /\ Contents' = Tail(Contents)
      BY <1>1, <1>3, <2>4, QueueRead, QueueIs
    <2> QED
      BY <2>3, <2>5 DEF QueueStep
  <1> QED
    BY <1>2, <1>3 DEF readRequest

\* clear() empties the ring.
LEMMA QueueClear == ASSUME NEW c \in Clients, W, ~ReadsBpf, clearRequest(c) PROVE QueueStep
PROOF
  <1>a. PICK s : s = IF fifo = <<>> THEN With(fifo, ring) ELSE Received(kbuf)
    OBVIOUS
  <1>1. /\ ring' = rbClear(s.ring) /\ tool[c].req = "clear"
        /\ Responds(s.tool, c, "ok", NoPacket, 0)
    BY <1>a DEF clearRequest, Serves
  <1>2. /\ ring \in Rings /\ kbuf \in Seq(Slot) /\ tool \in [Clients -> Tools] /\ IsFiniteSet(leaked)
        /\ readwait # Nobody => isEmpty(ring)
    BY DEF W, Types, WaitInv, Reader, ConnTypes
  <1>3. PICK r \in Rings : r = FilteredRing(kbuf)
    BY <1>2, ReceivedIs
  <1>4. s.ring \in Rings
    <2>1. rbRead(r) \in Rings
      BY RingTypes
    <2>2. CASE fifo = <<>>
      BY <1>2, <1>a, <2>2 DEF With
    <2>3. CASE fifo # <<>>
      <3>1. s = Received(kbuf)
        BY <1>a, <2>3
      <3> QED
        BY <1>2, <1>3, <2>1, <3>1, ReceivedIs
    <2> QED
      BY <2>2, <2>3
  <1>5. Contents' = <<>>
    <2>1. PICK q \in Rings : q = rbClear(s.ring)
      BY <1>4, RingTypes
    <2>2. isEmpty(q)
      BY <1>4, <2>1, RingTypes
    <2>3. QueueOf(q) = <<>>
      BY <2>1, <2>2, QueueCleared
    <2>4. Contents' = QueueOf(ring')
      BY DEF Contents, QueueOf, datanum, place
    <2> QED
      BY <1>1, <2>1, <2>3, <2>4
  <1>6. tool'[c].req # "clear"
    <2>1. s.tool \in [Clients -> Tools]
      BY <1>2, <1>a, SilentBatch DEF With
    <2>2. PICK t \in [Clients -> Tools] : t = s.tool
      BY <2>1
    <2>3. "ok" \in Replies /\ NoPacket \in Slot /\ 0 \in 0 .. RbSize
      BY PbAssumption DEF Replies, NoPacket, Slot
    <2>4. Replied(t, c)
      BY <1>1, <1>2, <2>2, <2>3, RespondsIs
    <2> QED
      BY <2>4 DEF Replied, NoTool, None
  <1>7. Clears(c)
    BY <1>1, <1>6 DEF Clears
  <1> QED
    BY <1>5, <1>7 DEF QueueStep

\* Every step is one of a bounded queue.
LEMMA StepQueue == ASSUME W, Ordered, SentOnce, [PbNext]_vars PROVE QueueStep
PROOF
  <1>1. got \in Seq(Int)
    BY DEF W, Types
  <1>2. CASE receive
    BY <1>2, QueueReceive
  <1>3. CASE ~receive
    <2>1. ~ReadsBpf
      BY <1>3, OthersReadNot
    <2>2. ASSUME Plain PROVE QueueStep
      BY <1>1, <2>1, <2>2, QueueRests DEF Plain
    <2>3. CASE Dispatch
      <3>1. ASSUME NEW c \in Clients, Request(c) PROVE QueueStep
        BY <2>1, <2>2, <3>1, PlainRequest, PlainWrite, QueueClear, QueueReader DEF Request
      <3>2. CASE (Selects(Ready) /\ UNCHANGED pbVars) \/ accept \/ \E c \in Clients : timeout(c)
        BY <2>2, <3>2, PlainOthers
      <3> QED
        BY <1>3, <2>3, <3>1, <3>2 DEF Dispatch
    <2>4. CASE Arrives \/ Echoes
      <3>1. ring' = ring /\ got' = got
        BY <2>4 DEF Arrives, Echoes
      <3> QED
        BY <1>1, <2>1, <3>1, QueueRests
    <2>5. CASE \/ Tick /\ UNCHANGED pbVars
               \/ UNCHANGED vars
               \/ \E c \in Clients, r \in Requests, dl \in Deadlines \cup {0} : Asks(c, r, dl)
               \/ \E c \in Clients : connect(c) \/ Exits(c) \/ Killed(c)
      BY <2>2, <2>5, PlainOthers
    <2> QED
      BY <2>3, <2>4, <2>5 DEF PbNext
  <1> QED
    BY <1>2, <1>3

\* The ring with its two pointers is a bounded queue: a batch of bpf is appended without
\* packets that were sent (BpfAgent::receive, Ringbuf::write), what does not fit is lost at
\* the end the mode names, a reader takes the oldest one (Ringbuf::read, readdata), and
\* only clear() empties it.
THEOREM RingIsQueueHolds == ASSUME MaxAlive = 1 PROVE PbSpec => RingIsQueue
PROOF
  <1>1. PbInit => W /\ Ordered /\ SentOnce
    BY InitW, InitOrder, SentInit
  <1>2. W /\ Ordered /\ SentOnce /\ [PbNext]_vars => W' /\ Ordered' /\ SentOnce'
    BY StepW, StepOrder, SentStep
  <1>3. W /\ Ordered /\ SentOnce /\ [PbNext]_vars =>
          [IF ReadsBpf /\ run
           THEN \E own \in SUBSET {p.n : p \in {q \in Range(kbuf) : q.n < 0}} :
                  LET all == Kept(Contents \o Without(kbuf, own)[Len(kbuf)])
                  IN Contents' = IF Serving THEN Tail(all) ELSE all
           ELSE \/ Contents' = Contents /\ ~Serving
                \/ Serving /\ Contents # <<>> /\ Contents' = Tail(Contents)
                \/ Contents' = <<>> /\ \E c \in Clients : Clears(c)]_vars
    BY StepQueue DEF QueueStep
  <1> QED
    BY <1>1, <1>2, <1>3, PTL DEF PbSpec, RingIsQueue
=============================================================================
