# TLA+ models of the TAHI test tools

TAHI is a conformance test suite for IPv6 nodes. Three of its programs keep state
over time and serve several actors at once; they are modelled here:

- **koid** (`src/koi-2.2.0`), the socket daemon: test scripts do not open sockets
  themselves but ask koid, over a UNIX domain socket, to open, accept, read and close
  them, and koid stores what the node under test sends;
- **vel** (`src/vel-5.0.1`), the traffic generator: a manager `velm` runs the threads of
  a scenario, agents `vela` on the hosts own the sockets, a command server `velo` beside
  each agent runs commands;
- **pktbuf** (`src/v6eval-3.3.2`), the packet buffer: one process per interface keeps
  what bpf captures in a ring for the tools `pktsend`, `pktrecv` and `pktctl`.

The rest of the repository is test data (1.3 million lines of packet definitions and
test scripts), libraries that build and take apart packets, and an older release of koi.

## Inventory

| Part | State | Operations | Hard behaviour |
|---|---|---|---|
| koid main loop, `bin/koid/koid.c` | none of its own | per turn: `kCloseTimerProc`, `kRecvTimerProc`, `select()`, `kDispatcherProc` | ordering of timers and handlers |
| dispatcher, `lib/kDispatcher` | none of its own | one handler per socket type and per request | partial failure of a request; ignored results; one client's departure resets all |
| socket table, `lib/kSocket` | list of `SocketInfo` (never shortened), `g_socket_socketid`, `g_readfds` | open, wait, register, close, send, look-up | descriptors handed out again; ids at the limit; failures between the steps of opening |
| message store, `lib/kData` | list with a last pointer, `g_msg_dataid` | register, clear, get and mark read | messages of several connections; the last pointer after a clear |
| receive timers, `lib/kRecvTimeoutTimer` | list with a last pointer, `g_rt_num` | set, remove, proc | message against timeout; removal while walking; answer to a departed client |
| close timers, `lib/kSocketCloseTimer` | 16 slots and a counter | init, set, remove, proc | full table; the same socket twice; a clock read once |
| framing, `lib/kBuffer`, `lib/kParser` | unparsed rest per socket, table of parsers | keep, merge, find the end of a message | segments that do not match messages, of several connections |
| client library, `libdata/kCommon` | the answer it waits for | write a request, read an answer | one answer too many or too few |
| velm | threads, events, per agent the tables of requests, listeners, accepted and open connections | a step of a statement, an answer of an agent, a timer | answers of two agents in any order; requests found again by socket number |
| vela | sockets with their counters and timers | a request, a connection, a packet, a timeout | loss and lateness of datagrams; numbers of sockets used again |
| velo | `cmdSet_`, a flag, its child processes | EXEC, CANCEL, SIGCHLD | the signal against the main program |
| collections, `lib/Cm/Bt*` | arrays of pointers | add, replace, remove, find, insert, grow, copy | linear probing with removal; the gap |
| dispatcher and timers, `lib/Cm` | handlers by descriptor, list of timers | `dispatch()` | what is due or ready in one turn |
| pktbuf, `lib/pkt` | ring, sent packets not seen yet, the reader that waits | the requests of the tools, a batch of bpf, a timeout | echoes of sent packets; batches; a killed tool |

`PROJECT.json` lists every part with what is modelled of it, and under `hazards` what is
hard to test, at the line where it bites, with the properties that watch it.

Correct means: a live socket of koid keeps its own descriptor and is served; an id names
one socket; the messages stored are those sent; a message is delivered once, in order,
from the socket asked for; a request gets one answer, its own, eventually. Every answer
an agent of vel gives is awaited and every awaited one comes; the two ends of a
connection belong together; a statement ends when its traffic took place. pktbuf gives
out every captured packet once, in order, and a timeout only when there was one.

## Modules

```
KSocket <- KData <- KRecvTimer <--\               KDelivery (abstract)
                                   Koid -- implements --^
KCloseTimer <---------------------/               Cltn (abstract)
                                  BtCltn -- implements --^
KStream      Vel   VelTraffic   Velo      CmDispatch <- PktBuf
```

`A <- B` is B EXTENDS A. `MC*` modules give the constants their values. Proofs are in
modules of their own, each of which EXTENDS the module it is about:
`KSocketProofs <- KoidProofs` (which is about Koid and, in it, KCloseTimer),
`KStreamProofs`, `VelProofs`, `TrafficProofs` (VelTraffic), `VeloProofs`, `PktBufProofs` and
`BtCltnProofs`. Operators commented "Mutant" are plausible mistakes that show each
property can fail; the models do not use them.

### koid

`koid` is a single thread. Clients come, ask and leave, peers connect, send, close and
reset, and time passes, in any order, between its turns.

**KSocket** models `kSocket.c` and the parts of the handlers that add entries. `sock` is
the list from `g_socket_start_ptr`, one record per entry with the fields the code reads;
`sockId`, `readfds` and `ret` are `g_socket_socketid`, `g_readfds` and the result of the
last command. `openFds` is the kernel's set of open descriptors and `peer` the
destination the kernel has connected a socket to; both are external. A new descriptor is
the lowest free one, as POSIX prescribes, which is what makes reuse happen. The walks of
the code (`loop < SOCKET_MAXNUM`, from the first entry) are the operator `WalkTo`, which
keeps their odd end on a list longer than the limit. Each opener is one action with one
disjunct per way it can end, named by the outcome of the system calls: `ok`, `noSocket`,
`sockoptFails`, `bindFails`, `connectFails`, `leaks` (WAIT returns without closing),
`unresolved` (getaddrinfo fails in a UDP send). `kSocketClose` is its three patterns; the
uninitialised record that pattern 2 may compare is the parameter `garbage`, of which only
"equals the id" and "does not" can matter.

**KData** models the store as the sequence reachable from `g_msg_start_ptr` and
`msgLinked`, whether the last pointer is the end of it. Bodies are numbers given by the
peers in the order of sending.

**KRecvTimer** models the timer list in the same way, with `rtLast` the position the last
pointer denotes. A deadline is the number of seconds left. `kRecvTimerProc` is one step
per entry; after it has freed an entry the successor it reads is the real one or none
(`stops`), the two outcomes of that read in which the daemon goes on. `RTSysSpec` is a
small system of its own: requests, messages and the clock on a fixed table of sockets.

**KCloseTimer** models the slots, the counter and, as `due`, the slots that the running
`kCloseTimerProc`, which read the clock before its loop, has still to close.

**Koid** composes them. `pc` is the place in the loop of `main()`; each handler is one
action holding all the changes the handler makes, except that `kSocketSend` at the end of
CONNECT and SEND is a second step (`sending`, during which nothing else moves).
`kDispatcherProc` picks the first ready entry in table order and looks its descriptor up
again, as the code does. Clients block after a request until they have read an answer,
like `PKTSendCMD`; `ans` is what koid has written to them, `net` what peers have sent and
koid has not read, `got` a history of the answers to RECV. Peers send whole messages
here.

**KStream** is about what Koid leaves out of `process_si_type_tcp`: a segment is any
non-empty part of what the peer has sent, the left data of the connection is taken out of
`kBuffer` and put in front of it, and the parser of the connection's payload type cuts it
into messages and a rest. The `while` loop of the handler is the recursive function `Turns`,
whose element w is the state after w turns (`Turn`). `ld`, `ldLast` and `ldNum` are the
list of left data, its last pointer and its counter; `parsers` is the table PARSER_ATTACH
changes. The parsers for DNS (a length in two bytes, to a small base) and SIP (start line,
empty line, Content-Length as one symbol each) are operators on sequences of numbers, with
the buffer's zero bytes and the places where `regexec()` stops.

**KDelivery** says what Koid promises: a queue per socket, from the head of which a RECV
is answered. Koid implements it (`ImplementsDelivery`) under the mapping of a socket's
queue to its unread messages in the store.

### vel

**Vel** models manager and agents. `th` holds each thread's statement, step and lock,
`run` the threads the manager goes on with before it looks at another message; `reqs`,
`listens`, `accepts` and `conns` are the collections of each agent's `TgAgntCtrl`, with
the keys `find()` uses; `events` and `delays` are the sync events and timers. `down` and
`up` are the TCP connections between manager and agents, `socks` the sockets of each
agent, named by descriptors, and `net` what is on its way between them. A statement is
the sequence of its operations (`Ops`), one operation per step as in `doStep()`.

**VelTraffic** has the traffic of one connection in full: the counters of `TcSocket`
(`sendcnt_`, `recvcnt_`, `sentcnt_`, `recvdcnt_`, `regard_`), its timer, RECVEFFECT, and
what `postSend` and `postReceive` of the TCP and the UDP socket do with them. Packets of a
statement are alike, so that the network is a number of packets per direction.

**Velo** has the race of the main program of velo with its SIGCHLD handler: `proc` are
the processes, `pending` and `handling` the signal, `cmdSet` and `findFailed` the set of
running commands and the flag `is_find_reqno_failure`. The handler interrupts the main
program anywhere, so what the latter reads of that state and what it does upon it are
separate steps: `place` is where it is (before the count of `cmdSet_`, the look at the
flag, `addCmd()`, the reset of the flag, `kill()`), `forked` and `found` are the commands
it holds in local variables there. `wait()` takes any zombie.

**BtCltn** models the two collections all tables of vel and v6eval are kept in, on an
array of places; hash values are chosen in the initial state. **Cltn** is what they
promise, a set with one element per key and a sequence; `ImplementsCltn` shows it under
the mapping `Content`, and `OperationsMatch` that each operation is the abstract one it
should be.

### pktbuf

**CmDispatch** is the dispatcher: the list of timers, and a turn that serves the
descriptors `select()` reported in ascending order, then the timers due. **PktBuf**
composes it with the ring (`ring`, with the two pointers of `Ringbuf`), the list of sent
packets (`fifo`), the reader that waits (`readwait`), the kernel's buffer (`kbuf`), the
sent packets bpf has not shown yet (`wire`), and the tools. A batch of bpf is what the
kernel's buffer holds when it is read.

## Runs

All bounds are in the `.cfg` files. Deadlock is checked except where the bounds end every
behaviour (socket, vel_traffic, velo and pktbuf, whose entries, statements, commands and
tools are used up).

| Run | Shows |
|---|---|
| `close_timer` | counter exact, only expired slots closed, each timer fires; three ids for two slots, ids -1 and 0 included |
| `socket` | live sockets have distinct, open, watched descriptors, the command socket survives, closed stays closed, no accepted connection outlives its listener, CONNECT answers a live socket; all protocols and failures, table limit reached |
| `koid_tcp` | koid is a queue per socket, whose messages are given out once and in order; every RECV is answered; a connection ended by its peer is closed, also when the single close slot is taken; clean after the last client |
| `koid_protocols` | RECV is answered from the socket it names or a child of it, and select() waits on open descriptors; TCP, UDP and RAW, both directions, id and message limits |
| `koid_clients` | timers always have a client, one answer per request, the right one, every request is read; two clients, FLUSH, an id that does not exist |
| `framing` | the messages stored are those sent, no byte is lost between two segments, no whole message waits; a DNS and a SIP connection, closed and reopened, parsers deleted |
| `vel` | both ends of a connection belong together, a thread that waits waits for one thing that will come, events hold all their members back, the scenario ends with no thread aborted, no request pending and no connection open |
| `vel_traffic` | a request is confirmed once, when the statement waits for it; TCP statements end with all packets counted; every statement ends; losses, late datagrams, failing sends |
| `velo` | the handler never waits for nothing, no EXEC and no CANCEL is answered twice or too early, "executed" is true, a command alone is answered unless its SIGCHLD comes between `expandRun`'s look at the flag and `addCmd()` |
| `bt_cltn` | sets and lists implement their abstract collections, operation by operation; five elements, two of one key, hash values that collide and wrap |
| `pktbuf` | the ring is a bounded queue, packets are given out once and in order, one reader waits and its timer with it, timeouts are true, requests are answered |
| `recv_timer_lost` | the violation below |

Each module also states the types of its variables (`...TypeOK`). Those of KCloseTimer,
KSocket, Velo and VelTraffic are proved; of `KoidTypeOK` and `PbTypeOK` the proofs contain
the parts they need (`LoopTypeOK`, `Types`). The others document the state and hold in the
run of their module when they are added to its configuration.

Bounds and why they suffice. koid: four table entries are the command socket, a client,
and two network sockets, which is a listener with a connection, or two independent
sockets, or a reused descriptor; five descriptors for four entries let descriptors be
reused or run out. Two messages are the fewest that can be reordered or duplicated. One
close slot makes the full table easy to reach; its general size is covered by the proof.
One second of timeout distinguishes waiting from expired. Two clients are enough for one
to inherit the other's descriptor. `SOCKET_MAXNUM` and `MSG_MAXMSGNUM` are lowered so that
they are reached. Framing: two messages per connection, some empty, some with bytes that
look like a length or a line end, cut anywhere. vel: three threads, two of them between
the same hosts, so that sockets of both are in one agent's table, and two events with one
member in common. Traffic: up to three statements of up to three packets, so that a late
datagram of one statement meets the next, two losses, a retry and a fatal error. velo:
three commands, two outstanding. Collections: lists of four elements and the capacities
up to ten that sets grow through. pktbuf: a ring of two packets, three arriving, two
tools with two requests, one kill, deadlines at and before the last instant.

Fairness. Close timers and `KoidFairness`: koid's loop has no exit and `select()` has a
timeout (weak fairness of a step of koid), a second passes (strong fairness: the
environment acts only while koid is in `select()`, so weak fairness would say nothing),
and a client reads an answer (`kReadUnixDomain` blocks until it can). Clients and peers
are not obliged to anything else. vel: manager and agents loop in `dispatch()`, which
serves every ready descriptor and due timer of a turn, hence weak fairness per
connection, socket and timer; commands end. velo: weak fairness of the server as a
whole; processes need not end. pktbuf: weak fairness of the server's loop, written with
its enabling condition spelled out (`Waiting`), and of the clock; tools and the network
need do nothing.

`EofCloses` supposes that clients do not fill the close table with requests for ever,
`RequestsAreRead` that the other clients do not send requests for ever: the first ready
entry is always served first.

### A disagreement between the code and its comments

`recv_timer_lost`: `kRecvTimerRemove` makes the node before the removed one the last node
although others follow (`kRecvTimeoutTimer.c:387`), so that the next `kRecvTimerSet`
("last data's next is new", line 204) cuts them off. They stay counted in `g_rt_num`,
"this table number", and are never answered. The run needs three waiting sockets.

### Where the passing properties stop holding

These properties are checked within a limit that the code draws. Most can be seen by
changing one constant of a configuration.

- `WatchedAreOpen`: after a failing `setsockopt` the closed descriptor is entered into
  `g_readfds` (`kSocket.c:604`) and the error path of `getsockname` (`kSocket.c:700`)
  leaves it there; `select()` fails from then on.
- `ChildrenDieWithParent` says that no child of a closed listener is spared. In fact
  every TCP connection is closed, those of other listeners and of CONNECT included
  (`||` for `&&`, `kSocket.c:1694`).
- `ConnectAnswersLive` does not ask for the protocol of the request:
  `kSocketCheckNewSocket` skips UDP sockets for `CM_PROT_TCP` only, so an ICMP or TLS
  CONNECT may be given one.
- Ids: `kSocketOpenRaw` does not look at the limit (`kSocket.c:3585`), so that ids run
  into the negative, and an id is given back when a system call fails. The walk of
  `kSocketCloseListener` for children stops at `g_socket_socketid`, and after the wrap it
  misses some: TLC refutes `ChildrenDieWithParent` with `SOCKET_MAXNUM = 3`, protocols TCP
  and ICMP and 14 entries.
- SEND on the id of a closed socket writes to whatever has its descriptor now:
  `kSocketSend` never looks at `si_status` (`kSocket.c:1875`).
- After a FLUSH of the last of several messages `g_msg_last_ptr` is dangling
  (`kData.c:200`) and the next message is never found. `ImplementsDelivery` is about
  clients that do not ask for FLUSH.
- `OneAnswerPerRequest`: a CONNECT whose send fails is answered NG and OK
  (`kDispatcher.c:1525`, `1534`).
- `RecvAnswered`: a RECV on an unknown id waits while the store is empty and is dropped
  without an answer once a message comes in (`kRecvTimeoutTimer.c:262`); with two clients
  the list loses timers as above, and a second RECV on one socket is refused silently.
- `BytesAreKept` and `MessagesAreWhole` hold with two connections. With three in the middle
  of a message (`MCAllDns`, `MCOneByte`), `kBufferGet` moves the last pointer to the
  predecessor of the node it takes out (`kBuffer.c:297`) and the next `kBufferSet` cuts
  off what followed. Empty lines between SIP messages leave zero bytes in the left data,
  and a SIP message without Content-Length ends at the next start line or with the
  segment.
- `ScenarioEnds`, `EndsMeet`: threads of one server address share a listener that may not
  be open yet (`TgAgntCtrl.cc:125`), the thread then aborts and those that wait for it in
  an event (`TgSyncEvent.cc:95`) wait for ever; and a thread that closes while another
  opens may be told of, or close, a socket that has its number now. Sockets are named by
  their descriptors alone, and `closeRequest` (`TgServer.cc:459`) closes whatever has the
  number. Take two threads between the same hosts that do not meet: act01 closes its
  client socket, the server's agent sees the end of the stream, closes its end and reports
  it closed, and its number is given to the listener of act02 before the CLOSE act01 sends
  for its server socket comes in, which closes the listener. The manager, having had the
  report, takes the answer for that of a socket "Closed and reported with
  "ClosedReport"" (`TgAgntCtrl.cc:548`). No property says that a CLOSE meets its own
  socket.
- `DoneMeansSent`: a send to be retried starts the timer all the same, and its expiry
  counts as an answer (`TcUDPSocket.cc:124`). A turnaround of zero packets is never
  confirmed, and over UDP it is confirmed twice when a late datagram of the statement
  before comes in.
- `AnsweredOnceEnded` is about requests, not commands: when SIGCHLD comes between
  `findPid()` and `kill()` (`TeServer.cc:195`, `199`), `childEnd` reports the command and
  removes it, `kill()` fails, and the failure is reported too, so that a cancelled command
  may have two answers. And it supposes that nothing is asked for after a command that is
  cancelled: `is_find_reqno_failure` keeps what the last search left (`TeServer.cc:222`),
  so that after a cancelled command in the middle a later one may be answered before it
  ends. velm cancels nothing (nothing calls `sendCmdCancelIndication`).
- `SingleCommandIsAnswered` has two conditions. Two commands that end together raise one
  signal, and `childEnd` calls `wait()` once (`TeServer.cc:69`); the comment in `expandRun`
  is about one command only. And the signal must not come between the look at the flag
  (`TeServer.cc:221`) and `addCmd()` (line 237), or the dead child is noted as running and
  the command, even the only one, is never answered, though the comment says that a
  response is sent "Instead of childEnd()" (line 223): without the condition
  (`EndedIsAnswered`) TLC finds this with one command. When `vfork()` fails, the response carries `eCmdExec_`
  for the request number (`TeServer.cc:241`).
- `RingIsQueue` and `ReadInOrder` are about the packets of the network. A reader that
  waits is given the first packet of the batch even if it is an echo of a sent one
  (`BpfAgent.cc:98`), and `clear()` gives up echoes that have not come yet, although the
  comment at `BpfAgent.cc:216` says it waits for them.
- `OneWaiter`: a second reader at the same time takes the first one's place
  (`PktServer.cc:136`); test scripts start one tool after the other.

## Proofs

The theorems hold for every value of the constants their modules assume: limits are
naturals, descriptors a non-empty finite set of naturals, clients, tools and commands any
set. Hypotheses beyond that are in the theorems, and each is one of three things: a fault
of the code described above ("stop holding"), without which the property is false; a limit
the code does not have but its users keep to; or a fact about what the environment sends.

**Close timers.** `KoidProofs` also proves of the close timers alone that the counter is
the number of used slots (`CountsUsedSlotsHolds`) and that a socket leaves the table only
when its time is up or with all others (`OnlyExpiredLeaveHolds`). The inductive invariant
`CTInv` adds that a socket has one slot (so that `kCloseTimerRemove`, which searches by
id, clears the slot being visited), that slots due are expired and in use, and that ids in
use are not negative (`kCloseTimerRemove` refuses negative ones, and -1 marks a vacant
slot).

**Sockets.** `KSocketProofs` proves, for all ports, addresses and every set of outcomes of
the system calls, that live sockets have distinct descriptors (`HandlesDistinct`) that are
open and watched (`AliveServed`) and that the command socket stays alive
(`CommandSocketSurvives`). None of the three is inductive alone: a new descriptor is
distinct from the live ones because it was not open and live ones are; a close takes a
descriptor from no other live entry because they are distinct; and the command socket is
safe because it is the first entry, which a walk reaches only if it matches. `SockInv` is
their conjunction with the types and the place of the command socket. There is one lemma
for each way an opener can end, one per operation, and two general ones: entries that only
become closed (`TrimPreserves`), and one entry added behind such a table
(`ExtendPreserves`). `SockStep` is the union of all operations with any argument: what is
proved of it holds of `SockNext` and of every step of koid.

What a step does to the table gives the action properties: closed entries stay closed
(`ClosedForGoodHolds`) and a successful CONNECT is answered with a live socket
(`ConnectAnswersLiveHolds`). `WatchedAreOpenHolds` has the hypothesis that `setsockopt`
never fails, `ChildrenDieHolds` that the id counter has not wrapped round (`sockId > 0`
always): while it has not, ids grow along the table (`ChildInv`), and a walk that stops at
the counter reaches every child. `NoRawNoWrap` shows that without raw sockets it never
wraps.

**koid.** `KoidProofs` first shows that each step of the composed daemon is a `SockStep` or
leaves the table alone, so that the four results above hold of it (`KoidSocketsServed`,
`KoidWatches`, `KoidChildren`, `KoidNoRawNoWrap`). Then, for any number of clients that
come, go and reset, in two layers:

- `ClientInv` is the conjunction of the table's invariants with ids that grow along it
  (`TableInv`); `IdsAreNamed`, the ids in the close table and in CLOSE requests are those
  of network sockets or stray; `ClientFds`, a client that is in or has gone has an open
  descriptor of its own, and a live socket with that descriptor is a client's;
  `TimersHaveClients`, the descriptor of a timer is that of a live client; and
  `CleanWithoutClients`, which is inductive only with the others.
  `TimersHaveClientsHolds` and `CleanWithoutClientsHolds` follow. When the table is full, a
  client that connected has a descriptor but no entry; the invariant says of it only that
  its descriptor is open, which keeps the kernel from handing it to another.
- `AnswerInv`: the request of a client is in one place at a time (`InOnePlace`): on its way,
  in a timer, in the send that follows a CONNECT or SEND, or answered; and what is there is
  what the client waits for (`PlaceIsWaitedFor`). `OneAnswerPerRequestHolds` and
  `AnswerMatchesRequestHolds` follow. The difficulty is the descriptor: answers go to a
  number, which may belong to a new client by then, and only `ClientInv` excludes it.

Hypotheses: ids have not wrapped round; `StraysNameNone`, the ids clients pass are those of
network sockets or outside the range koid hands out (koid does not check: a CLOSE with the
id of a client's own entry closes that client's connection); and for the last two theorems
that CONNECT requests carry no data, since such a request can be answered twice (above).

The refinement is proved too: `ImplementsDeliveryHolds`, every behaviour of koid is one of
`KDelivery`, and `DeliveredFromWantedHolds`. `DataInv` says what of the list the mapping
needs: it is linked, received messages have ids koid handed out and bodies peers sent, no
request is a FLUSH, and datagram sockets are sent whole messages. `MessageCases` lists
what a step of koid does to messages: nothing, one received, one recorded as sent, or one
given to a request; `NetCases` who may be the origin of a received one. The queue of a
socket is a recursive function over the list, and the lemmas about it are by induction:
it grows at its end by a received message (`UnreadGrows`), loses the first when the first
unread of the socket is marked (`UnreadShrinks`), and is unchanged by anything else
(`UnreadAgrees`). A handler marks the first message it finds for its request; it is the
least of what is wanted, so the first unread of its socket, whatever the request names.
And the entry a handler works on is the one whose descriptor was ready, because live
descriptors are distinct (`SockInv`): otherwise what was read would be stored under another
id. Hypotheses: ids have not wrapped round, no FLUSH (the dangling last pointer, above),
and the abstract specification knows the ids and bodies of the detailed one.
`StraysNameNone` is not needed.

**Framing.** `KStreamProofs` is about `kBuffer` and the loop of `process_si_type_tcp`
together, for any messages, any cut into segments, any base of the length bytes, clients
that come and go and parsers that are attached and deleted. `DnsConnectionsAreKept`: of
every open DNS connection that lost no segment to a missing parser, whatever the payload
types of the others, the messages registered are those sent, in order, no whole message
waits, and they, the bytes left over and those not read yet are all that was sent.
`MessagesAreWholeHolds` and `BytesAreKeptHolds` are the two properties of the run, where
all connections are DNS. The argument has two halves.

- The loop: the peer's messages end to end, with their lengths, are the recursive function
  of `FlattenSeq`, and one is a prefix of the bytes read exactly when all bytes up to its
  end are (`MessageIsAt`, `PartGrows`). A parser reads the length of the message it stands
  at (`LengthIsRead`), so a turn cuts off the next message or ends the loop with less than
  a message (`TurnKeepsCut`); by induction over the turns the loop ends at such a cut
  (`LoopCuts`). A turn takes at least two bytes, hence as many turns as bytes are enough.
- The list: with at most two connections since a client left, the list of left data has
  at most two nodes, its last pointer is its end and its counter its length (`Fits`), before
  and after `kBufferGet` and `kBufferSet`, and neither changes what is left of another
  connection (`SegmentKeepsOthers`).

`StreamInv` is the types, `Fits` and, for every open DNS connection, that its bytes are kept
(`DnsKept`). Hypothesis: `MaxStreams <= 2`, the limit beyond which the last pointer of
`kBuffer` goes wrong (above) and the theorems are false. Of SIP connections, whose parser
looks for line ends, nothing is proved but that they do the others no harm.

**vel.** `VelProofs` is about the threads of the manager, for every scenario and whatever
the agents answer, without hypotheses. `ThreadsWaitOnce`: a thread has one request at one
agent at most, or a place in one event, or a delay, made by the statement it is at, and a
thread that is to run has none. So an answer completes the statement that asked for it.
`SyncTogetherHolds`: nobody passes an event before all its members have come to it or
aborted. Its invariant `EventsWait` says that an event with a running timer waits for
nobody, and that a member it does not wait for has come; the step that needs `ThreadsWaitOnce`
is that nothing but the event itself takes a thread beyond it, so that a thread is past an
event only if the event let it go.

**velo.** `VeloProofs`: `WaitFindsChildHolds`, from the invariant that a pending or handled
SIGCHLD leaves a zombie to wait for (`SignalsHaveZombies`), in every interleaving of
signals, forks and ends. `AnsweredPerRequestHolds`: EXEC and CANCEL are each answered at
most once, in this order. Its invariant `OnceInv` follows a request from the connection to
the child and to `cmdSet_`, says that an answered command is forgotten there, and that the
command at `kill()` has a CANCEL that was not answered (`CancelIsOpen`), though its EXEC
may have been. `AnsweredOnceEndedHolds` adds that no command is
answered before it ended: what the flag is about (`FlagIsAboutForked`; while `expandRun` is
at the flag no command is known, `NoneKnownAtFlag`), that processes not waited for are
known, and that only the last command is at `kill()` (`FoundIsLast`). Hypotheses: no
command has the number 19, which is `eCmdExec_` and what the report of a failed `vfork()`
carries; for the last, that nothing follows a cancelled command (`CancelsTheLast`).

**vel traffic.** `TrafficProofs` proves the types with the bounds of the counters
(`TrafficTypes`), that confirms are awaited (`ConfirmsAreAwaitedHolds`), that done means
sent (`DoneMeansSentHolds`) and that TCP statements end complete
(`TcpTrafficCompleteHolds`), for every sequence of statements and any number of losses.
First come lemmas on what `postSend`, `sendPacket`, `postReceive` and a request do to a
socket; then every action of the agents is one of three forms (`AgentActs`). `ConfirmInv`
relates thread, client and server: a socket at work belongs to the request the thread waits
for, or is a server whose request is over; `AheadInv` relates packets sent and answered;
`TcpInv` counts packets from the sender through the network to the receiver (`Flow`), per
stage of the statement. Hypothesis: every turnaround has a packet to send
(`PacketsToAnswer`).

**pktbuf.** `PktBufProofs` proves `OneWaiterHolds`, `ReadInOrderHolds`,
`TimeoutIsTrueHolds` and `RingIsQueueHolds` for rings, batches and numbers of tools of any
size in both modes, if one tool is alive at a time (`MaxAlive = 1`: the test scripts run
one tool after the other; two readers at once displace each other, as said above). What makes the first hard
is a tool that is killed: its successor connects while the server still holds the old
connection. `ConnInv` therefore keeps the order of what the server will serve: within a
turn descriptors are served in ascending order and all that are ready are served
(`InTurns`, `Precedes`), so the end of the old connection is read before the new one's
second request. `WaitInv` ties the reader to the timer queue. `Ordered` is the invariant of
the order: the ring, the kernel's buffer and what readers got are ascending and each part
is before the next. A batch is written to the ring in a loop, the recursive function in
`Filtered`; the lemma about it is by induction over the batch with `InductionOnNat`.
Timeouts are true because the timer of the reader is due when its deadline is over
(`DueNow`), and a packet that came in time would have been given to it.
For the queue, `QueueWrite` and `QueueRead` say what one packet does to the contents of the
ring, wherever its pointers are; that dropping what does not fit packet by packet is the
same as dropping it once, at the end of the batch, is `KeptTwice`, the step of the induction
in `FilteredQueue`. There the packets left out are those found in the list of sent ones; as
no two sent packets have one number (`SentOnce`) this is a set of numbers, as `RingIsQueue`
says it. Only `receive` takes a batch, so every other turn takes the oldest packet, empties
the ring or leaves it alone (`OthersReadNot`, `StepQueue`).

**lib/Cm collections.** `BtCltnProofs` proves `ProbeChainsHolds`, the refinement
`ImplementsCltnHolds` and `OperationsMatchHolds` without hypotheses: for every set of elements (0 is the null
pointer), keys, hash values and initial sizes. The invariant `CltnInv` has a part for each
class. For a set, `SetOK`: one element per key (`OneEach`); no empty place between the home
of an element and its place, counted around the end of the array (`Chained`); and `num` is
the number of occupied places, at most two thirds of the capacity and one more. From the
first two a search stops exactly at the element (`SearchIsExact`); from the third the array
has room after `expand()`, and what is copied is within the limit of the new array, so that
copying never grows it, as the model takes for granted. The step to prove is the loop of
`rehash()`. `RehashStops` does it by induction over the visits, seen from an empty place z
other than the one of the removal: counted from there the way from a home to its place
never wraps, and the invariant of the loop (`VisitInv`) is that the only empty place such a
way may cross is the current one, and that only for elements not yet visited. That there is
a second empty place needs a capacity other than 3; capacities are 2 (`RehashOfTwo`, by
cases) or at least 4, because the constructor takes at least 2 and `expand()` goes from c
to 2(c + 1). For a list, `Holds`: the array is a sequence with the gap at `free_`. The
lemmas say that moving the gap (`GapAtHolds`), inserting, removing and copying keep it, and
that a full list is copied with its gap at the end, which `insert` must read again
(`CopyHolds`). In the refinement a set maps to what is stored and a list to that sequence;
copying is a stutter. The refinement alone would be content with any abstract operation
that explains a step, an insertion at another index included; `OperationsMatch` names the
one, with its element and index.

Recursive functions (over lists, rings, batches and bytes) are reasoned about with
`InductionOnNat`, induction over the naturals for a set of them in place of a predicate. It
is stated in each module that needs it, as is what `Min` returns (`MinIsLeast`).

Only model-checked:

- liveness (`EveryTimerFires`, `RecvAnswered`, `EofCloses`, `RequestsAreRead`,
  `ScenarioEnds`, `TrafficEnds`, `SingleCommandIsAnswered`, `RequestAnswered`), which needs
  fairness and ENABLED and is out of the prover's reach;
- the bound on descriptors in `PbTypeOK` (pktbuf), which no other property needs;
- `MessagesAreWhole` and `BytesAreKept` of SIP connections, for which the loop would need
  an induction over the lines of a message inside the one over messages;
- `EndsMeet` and `NobodyForgotten` of Vel. They are true of the scenario
  of the run and not of all: a second CONNECT of a thread to the same address leaves the
  identity of the first in `connects_` (`TgAgntCtrl.cc:138`), two threads may share a
  listener that is not open yet (`TgAgntCtrl.cc:125`), and a CLOSE sent before the report
  that the peer has closed comes in meets the socket that has the number now. A
  theorem would need hypotheses on the operations of the threads that say as much as the
  properties do.

## What is left out

- Failing `malloc`. In `kSocketOpen` and `kSocketOpenRaw` it ends as a missing parser does.
- SOCKINFO and DATAINFO requests, which only read; TLS_SETUP and TLS_CLEAR, present only
  in builds with TLS, which is taken to be set up.
- The outcomes of reading freed memory other than the old value and a null pointer, and a
  crash of a daemon: nothing is persisted, a new one starts from its initial state.
- Failures that no run or theorem meets: a failing `accept()` of a client in the composed
  daemon (`kDispatcher.c:1128`; KSocket has it), a TLS socket without its SSL object, on
  which a send succeeds and sends nothing (`kSocket.c:1899`), the stale type the close of a
  listener decides by when ids have wrapped round (`kSocket.c:1684`; KSocket has the stale
  parent), TCP sends that fail in the traffic of vel (`TcTCPSocket.cc:87`).
- In koid's FLUSH the byte order of a data id is that of a 16-bit `ntohs` of a `long`
  (`kDispatcher.c:2045`), taken to leave the low half; hosts differ.
- pktbuf with debugging options, which closes descriptor 0 (`pktbuf.cc:67`), so that a
  tool may get a lower one than bpf.
- In velo the handler of SIGCHLD interrupts operations on `cmdSet_`, on the heap and on the
  connection half way (`TeIF.cc:64` sends a response in two pieces); in the model it comes
  between them. The times `setStartTime()` and `setEndTime()` note.
- Message contents, log output, addresses beyond what comparisons tell apart; buffers of
  64 K and the `short` in which `kParserSIP` keeps a size.
- Traffic without bound, and agents of vel that die: `connectionLost` prints a message and
  the manager waits for ever.
- The requests of vel that no statement sends (CONNECTSND, LISTENRECV and their kin), and
  the parser of scenarios.
- The packet language of v6eval (`lib/Pz`), by far the largest part of the source: tables
  of protocol fields, their encoding and comparison, and calls of crypto functions,
  without state between two packets. The Perl libraries of koi (`libdata`) are of the same
  kind. A model of them would repeat their tables.
- koi-1.1.1, the ancestor of koi-2.2.0 with the same structure.

## Plan

What is next, the most important first:

1. Vel: `EndsMeet` and `NobodyForgotten` for scenarios in which each
   thread has an address of its own, connects to it once and closes after the last packet
   of its peer: from an invariant that relates the tables of an agent to the sockets it has.
2. KStream: SIP connections. `TurnKeepsCut` is the one lemma that knows the parser; it would
   need that `kParserSIP` finds the end of a message when, and only when, it is there.
