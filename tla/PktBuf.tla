-------------------------------- MODULE PktBuf --------------------------------
(***************************************************************************)
(* pktbuf, the packet buffer of v6eval (lib/pkt, bin/pktbuf): one process  *)
(* per interface reads the packets of a bpf device into a ring, leaves out *)
(* the ones it sent itself, and answers the requests of the tools pktsend, *)
(* pktrecv and pktctl over a local socket.  The tools are started one      *)
(* after the other by the test scripts (MaxAlive = 1); a killed tool and   *)
(* its successor may still meet in the server.                             *)
(*                                                                         *)
(* A packet is known by its number: 1, 2, ... in the order of arrival for  *)
(* the packets of the network, negative for the ones sent by pktbuf, whose *)
(* contents the sender knows to be different.  The interface shows a sent  *)
(* packet to bpf some time after the write.                                *)
(***************************************************************************)
EXTENDS CmDispatch

CONSTANTS Clients,      \* connections of tools, as numbers
          MaxAlive,     \* tools that run at the same time
          RbSize,       \* packets the ring holds (RunEnv::bufferSize)
          Requests,     \* the requests the tools make
          Running,      \* {FALSE} for a pktbuf just started, {TRUE} after "pktctl capture"
          Deadlines,    \* the deadlines of a read, 0 for none
          MaxPackets,   \* bound: packets that arrive
          MaxTools,     \* bound: tools that are started
          MaxAsks,      \* bound: requests of the tools together
          MaxKills      \* bound: tools that are killed

ASSUME PbAssumption ==
  /\ RbSize \in Nat \ {0}
  /\ Clients \subseteq Nat \ {0} /\ IsFiniteSet(Clients)
  /\ MaxTime \in Nat /\ MaxPackets \in Nat /\ MaxAsks \in Nat
  /\ Requests \subseteq {"write", "read", "status", "wrap", "nowrap", "clear",
                         "capture", "stop", "dump"}
  /\ Deadlines \subseteq 0 .. MaxTime

VARIABLES ring,     \* Ringbuf: slots, rp, wp, mode
          run,      \* BpfAgent::runStat_ is eRun_
          fifo,     \* BpfAgent::fifo, the sent packets not filtered out yet
          readwait, \* PktBuf::readwait_, the client that waits for a packet
          kbuf,     \* the packets in the buffer of the kernel
          wire,     \* the sent packets bpf has not seen yet
          backlog,  \* the connections not accepted yet
          tool,     \* a client's process and connection
          leaked,   \* descriptors that stay open without a handler
          got,      \* history: the numbers of the packets given to readers
          tools, asks, kills, arrived, sent      \* counters of the bounds

pbVars == <<ring, run, fifo, readwait, kbuf, wire, backlog, tool, leaked, got,
            tools, asks, kills, arrived, sent>>
vars == <<cmVars, pbVars>>

None == "none"
Nobody == 0
BpfFd == 0
AcceptFd == 1
Numbers == -MaxAsks .. MaxPackets
Packets == [n : Numbers, at : 0 .. MaxTime]
NoPacket == [n |-> 0, at |-> 0]

NoTool == [fd |-> -1, alive |-> FALSE, req |-> None, asked |-> None, ans |-> None,
           deadline |-> 0, dp |-> 0, packet |-> NoPacket]

PbInit ==
  /\ CmInit
  /\ \E mode \in {"WRAP", "NOWRAP"} :      \* mode_ is not initialised
       ring = [slots |-> [k \in 0 .. RbSize |-> NoPacket], rp |-> 0, wp |-> 0, mode |-> mode]
  /\ run \in Running
  /\ readwait = Nobody
  /\ fifo = <<>> /\ kbuf = <<>> /\ wire = <<>> /\ backlog = <<>>
  /\ tool = [c \in Clients |-> NoTool]
  /\ leaked = {} /\ got = <<>>
  /\ tools = 0 /\ asks = 0 /\ kills = 0 /\ arrived = 0 /\ sent = 0

-----------------------------------------------------------------------------
(* Ringbuf: rbLen slots, one of them always free                            *)

rbLen == RbSize + 1

isEmpty(r) == r.wp = r.rp

isFull(r) == r.rp - r.wp = 1 \/ r.wp = r.rp + rbLen - 1

nextPoint(p) == IF p = rbLen - 1 THEN 0 ELSE p + 1

datanum(r) == IF r.wp >= r.rp THEN r.wp - r.rp ELSE r.wp - r.rp + rbLen

\* Mutant: the wrapping write leaves the read pointer behind
rbWriteKeepsRp(r, p) ==
  IF isFull(r) /\ r.mode = "NOWRAP" THEN r
  ELSE [r EXCEPT !.slots[r.wp] = p, !.wp = nextPoint(r.wp)]

rbWrite(r, p) ==
  IF isFull(r) /\ r.mode = "NOWRAP" THEN r
  ELSE [r EXCEPT !.slots[r.wp] = p,
                 !.wp = nextPoint(r.wp),
                 !.rp = IF isFull(r) THEN nextPoint(r.rp) ELSE r.rp]

rbRead(r) == IF isEmpty(r) THEN r ELSE [r EXCEPT !.rp = nextPoint(r.rp)]

\* Position n from the oldest packet
place(r, n) == IF r.rp + n < rbLen THEN r.rp + n ELSE r.rp + n - rbLen

readn(r, n) == IF isEmpty(r) THEN NoPacket ELSE r.slots[place(r, n)]

rbClear(r) == [r EXCEPT !.rp = 0, !.wp = 0]

-----------------------------------------------------------------------------
(* BpfAgent                                                                 *)

\* One packet of a batch: the oldest sent packet is filtered out, another one
\* is stored while capturing
Filter(s, p) ==
  IF s.fifo # <<>> /\ Head(s.fifo) = p.n THEN [s EXCEPT !.fifo = Tail(s.fifo)]
  ELSE IF run THEN [s EXCEPT !.ring = rbWrite(s.ring, p)]
  ELSE s

\* response(): the answer reaches a client that is alive
Answered(t, c, ans, packet, dp) ==
  [t EXCEPT ![c].req = None,
            ![c].ans = IF t[c].alive THEN ans ELSE None,
            ![c].packet = packet,
            ![c].dp = dp]

\* The server with these sent packets and this ring
With(f, r) == [fifo |-> f, ring |-> r, tool |-> tool, timers |-> timers,
               readwait |-> readwait, got |-> got]

\* Mutant: the newest packet of the batch is given away
readydataNewest(s, batch) ==
  IF isEmpty(s.ring) \/ s.readwait = Nobody THEN s
  ELSE [s EXCEPT !.ring = rbRead(s.ring),
                 !.tool = Answered(s.tool, s.readwait, "packet", Last(batch), 0),
                 !.timers = tqRemove(s.timers, s.readwait),
                 !.got = Append(s.got, Last(batch).n),
                 !.readwait = Nobody]

\* readydata(): the client that waits gets the first packet of the batch, and
\* the oldest one leaves the ring
readydata(s, batch) ==
  IF isEmpty(s.ring) \/ s.readwait = Nobody THEN s
  ELSE [fifo |-> s.fifo, ring |-> rbRead(s.ring),
        tool |-> Answered(s.tool, s.readwait, "packet", Head(batch), 0),
        timers |-> tqRemove(s.timers, s.readwait),
        got |-> Append(s.got, Head(batch).n),
        readwait |-> Nobody]

\* What the first packets of a batch leave of the sent packets and the ring
Filtered(batch) ==
  LET after[k \in 0 .. Len(batch)] ==
        IF k = 0 THEN [fifo |-> fifo, ring |-> ring] ELSE Filter(after[k - 1], batch[k])
  IN after

Received(batch) ==
  LET s == Filtered(batch)[Len(batch)]
  IN readydata(With(s.fifo, s.ring), batch)

\* BpfAgent::receive(): the whole buffer of the kernel
receive ==
  /\ LET s == Received(kbuf)
     IN /\ Notifies(BpfFd, s.timers)
        /\ fifo' = s.fifo /\ ring' = s.ring /\ tool' = s.tool
        /\ readwait' = s.readwait /\ got' = s.got
  /\ kbuf' = <<>>
  /\ UNCHANGED <<run, wire, backlog, leaked, tools, asks, kills, arrived, sent>>

-----------------------------------------------------------------------------
(* PktServer                                                                *)

accept ==
  /\ Notifies(AcceptFd, timers)
  /\ LET c == Head(backlog)
         used == {BpfFd, AcceptFd} \cup leaked \cup {tool[d].fd : d \in Clients}
     IN tool' = [tool EXCEPT ![c].fd = Min((0 .. Cardinality(used)) \ used)]
  /\ backlog' = Tail(backlog)
  /\ UNCHANGED <<ring, run, fifo, readwait, kbuf, wire, leaked, got,
                 tools, asks, kills, arrived, sent>>

\* The server reads a request from the connection of c; q are the timers it leaves
Serves(c, request, q) ==
  /\ Notifies(tool[c].fd, q) /\ tool[c].req = request
  /\ UNCHANGED <<backlog, tools, asks, kills, arrived>>

\* notify() detaches a handler whose response failed: nobody closes it any more
Responds(t, c, ans, packet, dp) ==
  IF t[c].alive THEN tool' = Answered(t, c, ans, packet, dp) /\ UNCHANGED leaked
  ELSE tool' = [t EXCEPT ![c] = NoTool] /\ leaked' = leaked \cup {t[c].fd}

\* A request that leaves readers and packets to be sent alone
Simple(c, request) ==
  /\ Serves(c, request, timers)
  /\ Responds(tool, c, "ok", NoPacket, 0)
  /\ UNCHANGED <<readwait, wire, fifo, got, sent>>

\* connectRequest() and statusRequest() change nothing
connectRequest(c) ==
  /\ \E r \in {"connect", "status"} : Simple(c, r)
  /\ UNCHANGED <<ring, run, kbuf>>

wrapRequest(c) ==
  Simple(c, "wrap") /\ ring' = [ring EXCEPT !.mode = "WRAP"] /\ UNCHANGED <<run, kbuf>>

nowrapRequest(c) ==
  Simple(c, "nowrap") /\ ring' = [ring EXCEPT !.mode = "NOWRAP"] /\ UNCHANGED <<run, kbuf>>

\* capture(): flushes the buffer of the kernel, the sent packets in it included
captureRequest(c) ==
  Simple(c, "capture") /\ run' = TRUE /\ kbuf' = <<>> /\ UNCHANGED ring

stopRequest(c) == Simple(c, "stop") /\ run' = FALSE /\ UNCHANGED <<ring, kbuf>>

\* clear(): while packets are to be filtered out, reads what the kernel has, and
\* gives one up when it has nothing
clearRequest(c) ==
  /\ LET s == IF fifo = <<>> THEN With(fifo, ring) ELSE Received(kbuf)
     IN /\ Serves(c, "clear", s.timers)
        /\ Responds(s.tool, c, "ok", NoPacket, 0)
        /\ ring' = rbClear(s.ring)
        /\ readwait' = s.readwait /\ got' = s.got
  /\ fifo' = <<>> /\ kbuf' = <<>>
  /\ UNCHANGED <<run, wire, sent>>

\* write(): noted as sent, then written; the result of the write is not looked at, and
\* when it failed no echo will come
writeRequest(c) ==
  /\ Serves(c, "write", timers)
  /\ sent' = sent + 1
  /\ fifo' = Append(fifo, -(sent + 1))
  /\ wire' \in {wire, Append(wire, -(sent + 1))}
  /\ Responds(tool, c, "ok", NoPacket, 0)
  /\ UNCHANGED <<ring, run, readwait, kbuf, got>>

\* The timer of a client that waits, if its request has a deadline
WithDeadline(c) ==
  IF tool[c].deadline = 0 THEN timers ELSE tqInsert(timers, tool[c].deadline, c)

\* Mutant: off by one
LateAt(p, deadline) == deadline # 0 /\ p.at >= deadline

Late(p, deadline) == deadline # 0 /\ p.at > deadline

\* readRequest(): waits while the ring is empty; a packet that came after the
\* deadline stays; otherwise the oldest packet
readRequest(c) ==
  /\ \/ /\ isEmpty(ring)
        /\ Serves(c, "read", WithDeadline(c))
        /\ readwait' = c
        /\ tool' = [tool EXCEPT ![c].req = None]
        /\ UNCHANGED <<ring, got, leaked>>
     \/ /\ ~isEmpty(ring) /\ Late(readn(ring, 0), tool[c].deadline)
        /\ Serves(c, "read", timers)
        /\ Responds(tool, c, "timeout", NoPacket, 0)
        /\ UNCHANGED <<readwait, ring, got>>
     \/ /\ ~isEmpty(ring) /\ ~Late(readn(ring, 0), tool[c].deadline)
        /\ Serves(c, "read", tqRemove(timers, c))
        /\ Responds(tool, c, "packet", readn(ring, 0), 0)
        /\ ring' = rbRead(ring)
        /\ got' = Append(got, readn(ring, 0).n)
        /\ UNCHANGED readwait
  /\ UNCHANGED <<run, fifo, kbuf, wire, sent>>

\* PktServer::timeout()
timeout(c) ==
  /\ Expires(c)
  /\ readwait' = Nobody
  /\ tool' = Answered(tool, c, "timeout", NoPacket, 0)
  /\ UNCHANGED <<ring, run, fifo, kbuf, wire, backlog, leaked, got, tools, asks, kills,
                 arrived, sent>>

\* dumpRequest(): the packet at position dp, and the next position or 0
dumpRequest(c) ==
  /\ Serves(c, "dump", timers)
  /\ LET next == tool[c].dp + 1
     IN Responds(tool, c, IF isEmpty(ring) THEN "empty" ELSE "dumped", readn(ring, tool[c].dp),
                 IF isEmpty(ring) \/ next >= datanum(ring) THEN 0 ELSE next)
  /\ UNCHANGED <<readwait, ring, run, fifo, kbuf, wire, got, sent>>

\* Mutant: a server that goes leaves itself registered
connectionLostKeeps(c) ==
  /\ Serves(c, None, tqRemove(timers, c)) /\ ~tool[c].alive
  /\ tool' = [tool EXCEPT ![c] = NoTool]
  /\ UNCHANGED <<readwait, ring, run, fifo, kbuf, wire, leaked, got, sent>>

\* receivePacket() finds the connection lost: PktServer::terminate() and its destructor
connectionLost(c) ==
  /\ Serves(c, None, tqRemove(timers, c)) /\ ~tool[c].alive
  /\ readwait' = IF readwait = c THEN Nobody ELSE readwait
  /\ tool' = [tool EXCEPT ![c] = NoTool]
  /\ UNCHANGED <<ring, run, fifo, kbuf, wire, leaked, got, sent>>

-----------------------------------------------------------------------------
(* The tools and the interface                                              *)

Alive == {c \in Clients : tool[c].alive}
Unused == {c \in Clients : tool[c] = NoTool}

\* PktClient::connect() and sendConnect()
connect(c) ==
  /\ Unused # {} /\ c = Min(Unused) /\ Cardinality(Alive) < MaxAlive /\ tools < MaxTools
  /\ tool' = [tool EXCEPT ![c] = [NoTool EXCEPT !.alive = TRUE, !.req = "connect",
                                                !.asked = "connect"]]
  /\ backlog' = Append(backlog, c)
  /\ tools' = tools + 1
  /\ UNCHANGED <<cmVars, ring, run, fifo, readwait, kbuf, wire, leaked, got, asks, kills, arrived, sent>>

HasAnswer(c) == tool[c].alive /\ tool[c].ans # None

\* The next request of a tool; pktctl goes on with a dump of more packets, and a
\* tool that reads again does so with the same deadline
Asks(c, request, dl) ==
  /\ HasAnswer(c)
  /\ IF request = "read" THEN tool[c].asked = "read" => dl = tool[c].deadline ELSE dl = 0
  /\ \/ tool[c].dp # 0 /\ request = "dump" /\ UNCHANGED asks
     \/ /\ tool[c].dp = 0 /\ tool[c].ans \notin {"timeout", "empty"}
        /\ asks < MaxAsks /\ asks' = asks + 1
  /\ tool' = [tool EXCEPT ![c].req = request, ![c].asked = request, ![c].ans = None,
                          ![c].deadline = dl]
  /\ UNCHANGED <<cmVars, ring, run, fifo, readwait, kbuf, wire, backlog, leaked, got,
                 tools, kills, arrived, sent>>

\* A process ends, and its connection with it
Ended(c) == [tool EXCEPT ![c] = [@ EXCEPT !.alive = FALSE, !.asked = None, !.ans = None,
                                          !.packet = NoPacket]]

Exits(c) ==
  /\ HasAnswer(c) /\ tool[c].dp = 0
  /\ tool' = Ended(c)
  /\ UNCHANGED <<cmVars, ring, run, fifo, readwait, kbuf, wire, backlog, leaked, got,
                 tools, asks, kills, arrived, sent>>

\* ... before its answer came, or in a dump; after it, this is Exits
Killed(c) ==
  /\ tool[c].alive /\ (tool[c].ans = None \/ tool[c].dp # 0) /\ kills < MaxKills
  /\ kills' = kills + 1
  /\ tool' = Ended(c)
  /\ UNCHANGED <<cmVars, ring, run, fifo, readwait, kbuf, wire, backlog, leaked, got,
                 tools, asks, arrived, sent>>

Arrives ==
  /\ arrived < MaxPackets
  /\ arrived' = arrived + 1
  /\ kbuf' = Append(kbuf, [n |-> arrived + 1, at |-> now])
  /\ UNCHANGED <<cmVars, ring, run, fifo, readwait, wire, backlog, tool, leaked, got,
                 tools, asks, kills, sent>>

\* The interface shows a sent packet to bpf
Echoes ==
  /\ wire # <<>>
  /\ kbuf' = Append(kbuf, [n |-> Head(wire), at |-> now])
  /\ wire' = Tail(wire)
  /\ UNCHANGED <<cmVars, ring, run, fifo, readwait, backlog, tool, leaked, got,
                 tools, asks, kills, arrived, sent>>

-----------------------------------------------------------------------------
Ready ==
  {fd \in {BpfFd} : kbuf # <<>>} \cup {fd \in {AcceptFd} : backlog # <<>>}
    \cup {tool[c].fd : c \in {d \in Clients : /\ tool[d].fd # -1
                                              /\ tool[d].req # None \/ ~tool[d].alive}}

Request(c) ==
  \/ connectRequest(c) \/ wrapRequest(c) \/ nowrapRequest(c)
  \/ captureRequest(c) \/ stopRequest(c) \/ clearRequest(c) \/ writeRequest(c)
  \/ readRequest(c) \/ dumpRequest(c) \/ connectionLost(c)

\* disp.dispatch() for ever
Dispatch ==
  \/ Selects(Ready) /\ UNCHANGED pbVars
  \/ receive
  \/ accept
  \/ \E c \in Clients : Request(c) \/ timeout(c)

PbNext ==
  \/ Dispatch
  \/ Tick /\ UNCHANGED pbVars
  \/ \E c \in Clients, r \in Requests, dl \in Deadlines \cup {0} : Asks(c, r, dl)
  \/ \E c \in Clients : connect(c) \/ Exits(c) \/ Killed(c)
  \/ Arrives
  \/ Echoes

\* The server waits in select() and has nothing to do: Dispatch is not enabled
Waiting == turn = {} /\ current = -1 /\ Ready = {} /\ ~tqDue(timers, now)

\* The clock runs, and the server runs its loop: the weak fairness of Dispatch
PbFairness == WF_now(Tick /\ UNCHANGED pbVars) /\ ([]<>Waiting \/ []<><<Dispatch>>_vars)

PbSpec == PbInit /\ [][PbNext]_vars /\ PbFairness

-----------------------------------------------------------------------------
(* Properties                                                               *)

\* Types: the pointers stay inside the ring, and the descriptors inside a
\* table of all that can be open
PbTypeOK ==
  /\ ring \in [slots : [0 .. RbSize -> Packets], rp : 0 .. RbSize, wp : 0 .. RbSize,
               mode : {"WRAP", "NOWRAP"}]
  /\ run \in BOOLEAN /\ now \in 0 .. MaxTime
  /\ readwait \in Clients \cup {Nobody}
  /\ Range(fifo) \cup Range(wire) \subseteq Numbers /\ Range(got) \subseteq Numbers
  /\ Range(kbuf) \subseteq Packets
  /\ Range(backlog) \subseteq Clients
  /\ \A c \in Clients : tool[c].fd \in -1 .. MaxTools + 2 /\ tool[c].packet \in Packets
  /\ turn \subseteq 0 .. MaxTools + 2

\* The packets in the ring, oldest first
Contents == [k \in 1 .. datanum(ring) |-> ring.slots[place(ring, k - 1)]]

\* What a buffer of RbSize packets keeps
Kept(s) ==
  IF Len(s) <= RbSize THEN s
  ELSE IF ring.mode = "WRAP" THEN SubSeq(s, Len(s) - RbSize + 1, Len(s))
  ELSE SubSeq(s, 1, RbSize)

ReadsBpf == BpfFd \in turn \ turn'
Clears(c) == tool[c].req = "clear" /\ tool'[c].req # "clear"
Serving == Len(got') > Len(got)

\* What is left of the first packets of a batch without those with these numbers
Without(batch, own) ==
  LET rest[k \in 0 .. Len(batch)] ==
        IF k = 0 THEN <<>>
        ELSE IF batch[k].n \in own THEN rest[k - 1] ELSE Append(rest[k - 1], batch[k])
  IN rest

\* The pointers of the ring (Ringbuf::write, read, clear) are a queue of at most
\* RbSize packets: a batch of bpf is appended without the sent packets filtered
\* out, the oldest packets (wrap) or the newest (nowrap) are lost when it is full,
\* a reader takes the oldest one and clear() all
RingIsQueue ==
  [][IF ReadsBpf /\ run
     THEN \E own \in SUBSET {p.n : p \in {q \in Range(kbuf) : q.n < 0}} :
            LET all == Kept(Contents \o Without(kbuf, own)[Len(kbuf)])
            IN Contents' = IF Serving THEN Tail(all) ELSE all
     ELSE \/ Contents' = Contents /\ ~Serving
          \/ Serving /\ Contents # <<>> /\ Contents' = Tail(Contents)
          \/ Contents' = <<>> /\ \E c \in Clients : Clears(c)]_vars

\* A packet of the network is given to readers at most once, and in the order of
\* arrival, whether it is taken from the ring (readRequest) or given to the client
\* that waits (readydata)
ReadInOrder ==
  \A i, j \in DOMAIN got : i < j /\ got[i] > 0 /\ got[j] > 0 => got[i] < got[j]

\* At most one client waits; it is the one in readwait_, its connection is open,
\* it has its timer and no other timer runs, and there is nothing it could have
\* read (readRequest, readydata, timeout and the destructor of PktServer agree)
OneWaiter ==
  /\ \A c \in Alive : tool[c].asked = "read" /\ tool[c].req = None /\ tool[c].ans = None
                        => readwait = c
  /\ readwait # Nobody => /\ isEmpty(ring)
                        /\ tool[readwait].fd # -1 /\ tool[readwait].req = None
  /\ timers = IF readwait = Nobody \/ tool[readwait].deadline = 0 THEN <<>>
              ELSE <<[at |-> tool[readwait].deadline, receiver |-> readwait]>>

\* A reader is told of a timeout (PktServer::timeout, readRequest) only when its
\* deadline is over and the ring has no packet that came by then
TimeoutIsTrue ==
  [][\A c \in Clients :
       tool[c].ans = None /\ tool'[c].ans = "timeout"
         => /\ tool[c].deadline # 0 /\ tool[c].deadline <= now
            /\ \A p \in Range(Contents) : p.at > tool[c].deadline]_vars

\* Every request of a tool is answered, a read without a deadline excepted
RequestAnswered ==
  \A c \in Clients :
    (tool[c].alive /\ tool[c].ans = None /\ (tool[c].asked = "read" => tool[c].deadline # 0))
      ~> (tool[c].ans # None \/ ~tool[c].alive)
=============================================================================
