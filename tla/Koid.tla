-------------------------------- MODULE Koid --------------------------------
(***************************************************************************)
(* The daemon koid: its main loop and the handlers of lib/kDispatcher, put *)
(* together from the socket table, the message store and the two timer     *)
(* tables, with the clients that drive it and the peers it talks to.       *)
(*                                                                         *)
(* koid is one thread.  A turn of its loop is kCloseTimerProc, then        *)
(* kRecvTimerProc, then select() and the handler of the first ready socket *)
(* of the table.  Clients, peers and the clock act while koid is in        *)
(* select(): all they touch is queues that only the handlers read.         *)
(*                                                                         *)
(* A client has one request in flight: it writes a request and blocks      *)
(* until it has read an answer.  Peers send whole messages.                *)
(***************************************************************************)
EXTENDS KRecvTimer, KCloseTimer

CONSTANTS Clients,
          WithData,     \* whether CONNECT requests carry data: a set of Booleans
          StrayIds,     \* ids clients pass besides those of network sockets
          WaitTimes,    \* the delays CLOSE requests carry
          MaxMsgs       \* bound: messages sent by peers

ASSUME KoidAssumption ==
  /\ WithData \subseteq BOOLEAN /\ StrayIds \subseteq Int
  /\ WaitTimes \subseteq 0..MaxSec /\ MaxMsgs \in Nat

VARIABLES pc,           \* where the main loop is
          cst,          \* external: a client is out, connecting, in, or gone
          cfd,          \* the descriptor koid serves the client on
          req,          \* the request in the client's socket, or NoReq
          wait,         \* the command whose answer the client waits for, or "none"
          ans,          \* the answers koid has written, unread
          sending,      \* the kSocketSend the running handler has still to do
          net,          \* external: by table entry, what peers have sent
          nmsg,         \* messages sent by peers so far
          got           \* history: the messages answered to RECV requests

envVars == <<cst, cfd, req, wait, ans, net, nmsg, got>>
koidVars == <<sockVars, dataVars, rtVars, ctVars, pc, sending, envVars>>

Entries == 1..MaxEntries
Eof == 0                \* the end of a stream, in net
Conn == -1              \* a connection to accept, in net
Reset == -2             \* a reset by the peer, in net
OutBody == 0            \* the body of every message koid sends
NoReq == [cmd |-> "none"]
NotSending == [cmd |-> "none"]

Answer(cmd, res) == [cmd |-> cmd, res |-> res]

\* write() to a client: lost when the client has gone
Tell(c, as) == ans' = [ans EXCEPT ![c] = IF cst[c] = "in" THEN @ \o as ELSE @]

\* write() to a descriptor, which may have become that of no client
TellFd(fd, a) ==
  ans' = [c \in Clients |-> IF cfd[c] = fd /\ cst[c] = "in" THEN Append(ans[c], a) ELSE ans[c]]

\* What is queued on a descriptor goes with it
DropClosed == net' = [i \in Entries |-> IF i \in DOMAIN sock' /\ sock'[i].status = "CLOSE"
                                          THEN <<>> ELSE net[i]]

\* A message answered to a RECV request on socket want
Deliver(want, k) == got' = Append(got, [want |-> want, from |-> msgs[k].sid, body |-> msgs[k].body])

KoidInit ==
  /\ SockInit /\ DataInit /\ RTInit /\ CTInit
  /\ pc = "timers"
  /\ cst = [c \in Clients |-> "out"]
  /\ cfd = [c \in Clients |-> BadFd]
  /\ req = [c \in Clients |-> NoReq]
  /\ wait = [c \in Clients |-> "none"]
  /\ ans = [c \in Clients |-> <<>>]
  /\ sending = NotSending
  /\ net = [i \in Entries |-> <<>>]
  /\ nmsg = 0
  /\ got = <<>>

-----------------------------------------------------------------------------
(* The timers' part of a turn *)

CloseTimerBegins ==
  /\ pc = "timers"
  /\ kCloseTimerProc
  /\ pc' = "closing"
  /\ UNCHANGED <<sockVars, dataVars, rtVars, sending, envVars>>

\* An expired socket is closed
CloseTimerFires ==
  /\ pc = "closing" /\ due # {}
  /\ \E garbage \in {0, DueId} : kSocketClose(DueId, garbage)
  /\ kCloseTimerExpire
  /\ DropClosed
  /\ UNCHANGED <<dataVars, rtVars, pc, sending, cst, cfd, req, wait, ans, nmsg, got>>

RecvTimerBegins ==
  /\ pc = "closing" /\ due = {}
  /\ RecvProcBegins
  /\ pc' = "recv"
  /\ UNCHANGED <<sockVars, dataVars, ctVars, sending, envVars>>

RecvTimerDrops ==
  /\ pc = "recv"
  /\ \E stops \in BOOLEAN : RecvInvalid(stops)
  /\ UNCHANGED <<sockVars, ctVars, pc, sending, envVars>>

RecvTimerKeeps ==
  /\ pc = "recv"
  /\ RecvStillWaiting
  /\ UNCHANGED <<sockVars, ctVars, pc, sending, envVars>>

RecvTimerExpires ==
  /\ pc = "recv"
  /\ \E stops \in BOOLEAN : RecvTimedOut(stops)
  /\ TellFd(rt[rtPos].fd, Answer("RECV", "TIMEOUT"))
  /\ UNCHANGED <<sockVars, ctVars, pc, sending, cst, cfd, req, wait, net, nmsg, got>>

RecvTimerDelivers ==
  /\ pc = "recv"
  /\ \E stops \in BOOLEAN : RecvArrived(stops)
  /\ TellFd(rt[rtPos].fd, Answer("RECV", "OK"))
  /\ Deliver(rt[rtPos].sid, DataFor(rt[rtPos].sid))
  /\ UNCHANGED <<sockVars, ctVars, pc, sending, cst, cfd, req, wait, net, nmsg>>

RecvTimerEnds ==
  /\ pc = "recv"
  /\ RecvProcEnds
  /\ pc' = "select"
  /\ UNCHANGED <<sockVars, dataVars, ctVars, sending, envVars>>

-----------------------------------------------------------------------------
(* select() and the handlers: i is the table entry kDispatcherProc has chosen *)

ClientOf(i) == {c \in Clients : cfd[c] = sock[i].handle}

\* select() reports entry i
Ready(i) ==
  /\ IsAlive(i) /\ sock[i].handle \in readfds
  /\ CASE sock[i].type = "UNIX"      -> \E c \in Clients : cst[c] = "connecting"
       [] sock[i].type = "UNIX_DATA" -> \E c \in ClientOf(i) : cst[c] = "gone" \/ req[c] # NoReq
       [] OTHER                      -> net[i] # <<>>

\* kSocketGetSelectedHandle: the first ready entry of the table, or none (0)
kSocketGetSelectedHandle ==
  LET ready == {j \in DOMAIN sock : Ready(j)}
  IN  IF ready = {} THEN 0 ELSE Min(ready)

\* The handler is done: the next turn begins
Returns == pc' = "timers" /\ UNCHANGED sending

\* select() times out, or reports a descriptor that is in no entry
SelectIdle ==
  /\ pc = "select" /\ sending = NotSending
  /\ Selectable => kSocketGetSelectedHandle = 0
  /\ pc' = "timers"
  /\ UNCHANGED <<sockVars, dataVars, rtVars, ctVars, sending, envVars>>

AcceptClient(i, c) ==
  /\ sock[i].type = "UNIX"
  /\ cst[c] = "connecting"
  /\ UnixAccept(TRUE)
  /\ cst' = [cst EXCEPT ![c] = "in"]
  /\ cfd' = [cfd EXCEPT ![c] = NewFd]
  /\ Returns
  /\ UNCHANGED <<dataVars, rtVars, ctVars, req, wait, ans, net, nmsg, got>>

\* Mutant: the requests of the client keep waiting
ClientGoneKeepsRequests(i, c) ==
  /\ c \in ClientOf(i) /\ sock[i].type = "UNIX_DATA"
  /\ cst[c] = "gone" /\ req[c] = NoReq
  /\ Disconnect(i)
  /\ kCloseTimerInit
  /\ cst' = [cst EXCEPT ![c] = "out"]
  /\ cfd' = [cfd EXCEPT ![c] = BadFd]
  /\ DropClosed
  /\ Returns
  /\ UNCHANGED <<rtVars, dataVars, req, wait, ans, nmsg, got>>

\* Mutant: the close table is not emptied
ClientGoneKeepsCloses(i, c) ==
  /\ c \in ClientOf(i) /\ sock[i].type = "UNIX_DATA"
  /\ cst[c] = "gone" /\ req[c] = NoReq
  /\ Disconnect(i)
  /\ kRecvTimerInit
  /\ cst' = [cst EXCEPT ![c] = "out"]
  /\ cfd' = [cfd EXCEPT ![c] = BadFd]
  /\ DropClosed
  /\ Returns
  /\ UNCHANGED <<ctVars, dataVars, req, wait, ans, nmsg, got>>

\* process_si_type_unixd_data at the end of a client's stream.  The messages stay.
ClientGone(i, c) ==
  /\ c \in ClientOf(i) /\ sock[i].type = "UNIX_DATA"
  /\ cst[c] = "gone" /\ req[c] = NoReq
  /\ Disconnect(i)
  /\ kCloseTimerInit
  /\ kRecvTimerInit
  /\ cst' = [cst EXCEPT ![c] = "out"]
  /\ cfd' = [cfd EXCEPT ![c] = BadFd]
  /\ DropClosed
  /\ Returns
  /\ UNCHANGED <<dataVars, req, wait, ans, nmsg, got>>

\* A request of client c is read
Handles(i, c, cmd) ==
  /\ c \in ClientOf(i) /\ sock[i].type = "UNIX_DATA"
  /\ req[c].cmd = cmd
  /\ req' = [req EXCEPT ![c] = NoReq]

\* process_command_connect_req
HandleConnect(i, c) ==
  LET r == req[c]
  IN  /\ Handles(i, c, "CONNECT")
      /\ \E sp \in Ports, sa \in Addrs, dp \in DPorts, da \in DAddrs, o \in KernelOutcomes :
           Connect(r.proto, sp, sa, dp, da, o, TRUE)
      /\ IF ret'.ok /\ r.data
           THEN /\ sending' = [c |-> c, cmd |-> "CONNECT", id |-> ret'.id]
                /\ UNCHANGED <<pc, ans>>
           ELSE /\ Tell(c, <<Answer("CONNECT", IF ret'.ok THEN "OK" ELSE "NG")>>)
                /\ Returns
      /\ UNCHANGED <<dataVars, rtVars, ctVars, cst, cfd, wait, net, nmsg, got>>

\* process_command_wait_req
HandleWait(i, c) ==
  /\ Handles(i, c, "WAIT")
  /\ \E sp \in Ports, sa \in Addrs, o \in KernelOutcomes : Wait(req[c].proto, sp, sa, o, TRUE)
  /\ Tell(c, <<Answer("WAIT", IF ret'.ok THEN "OK" ELSE "NG")>>)
  /\ Returns
  /\ UNCHANGED <<dataVars, rtVars, ctVars, cst, cfd, wait, net, nmsg, got>>

\* process_command_send_req up to its kSocketSend
HandleSend(i, c) ==
  /\ Handles(i, c, "SEND")
  /\ sending' = [c |-> c, cmd |-> "SEND", id |-> req[c].id]
  /\ UNCHANGED <<sockVars, dataVars, rtVars, ctVars, pc, cst, cfd, wait, ans, net, nmsg, got>>

\* kSocketSend with its kDataRegist, and what its callers do with the result: a CONNECT
\* whose send failed is answered NG and then OK.
Sends ==
  LET s == sending
      stored == ret'.ok /\ Registrable(s.id)
  IN  /\ s # NotSending
      /\ \E o \in SendOutcomes : kSocketSend(s.id, o)
      /\ IF ret'.ok THEN kDataRegist(s.id, "SEND", OutBody) ELSE UNCHANGED dataVars
      /\ Tell(s.c, IF stored THEN <<Answer(s.cmd, "OK")>>
                   ELSE IF s.cmd = "SEND" THEN <<Answer("SEND", "NG")>>
                   ELSE <<Answer("CONNECT", "NG"), Answer("CONNECT", "OK")>>)
      /\ sending' = NotSending
      /\ pc' = "timers"
      /\ UNCHANGED <<rtVars, ctVars, cst, cfd, req, wait, net, nmsg, got>>

\* Mutant: no timer is set for a request that finds nothing
HandleRecvForgets(i, c) ==
  LET r == req[c]
      k == DataFor(r.id)
  IN  /\ Handles(i, c, "RECV")
      /\ IF k > 0 THEN /\ MarkRead(k)
                       /\ Tell(c, <<Answer("RECV", "OK")>>)
                       /\ Deliver(r.id, k)
                  ELSE UNCHANGED <<dataVars, ans, got>>
      /\ Returns
      /\ UNCHANGED <<sockVars, rtVars, ctVars, cst, cfd, wait, net, nmsg>>

\* process_command_recv_req: a request that finds nothing becomes a timer; when the
\* timer is refused nothing is answered
HandleRecv(i, c) ==
  LET r == req[c]
      k == DataFor(r.id)
  IN  /\ Handles(i, c, "RECV")
      /\ \/ /\ k = Invalid
            /\ Tell(c, <<Answer("RECV", "NG")>>)
            /\ UNCHANGED <<dataVars, rtVars, got>>
         \/ /\ k = NoData
            /\ kRecvTimerSet(sock[i].handle, r.id, r.sec)
            /\ UNCHANGED <<dataVars, ans, got>>
         \/ /\ k > 0
            /\ MarkRead(k)
            /\ Tell(c, <<Answer("RECV", "OK")>>)
            /\ Deliver(r.id, k)
            /\ UNCHANGED rtVars
      /\ Returns
      /\ UNCHANGED <<sockVars, ctVars, cst, cfd, wait, net, nmsg>>

\* process_command_close_req
HandleClose(i, c) ==
  LET r == req[c]
      accepted == r.id >= 0 /\ SetAccepted(r.id)
  IN  /\ Handles(i, c, "CLOSE")
      /\ IF r.id >= 0 THEN kCloseTimerSet(r.id, r.sec) ELSE UNCHANGED ctVars
      /\ Tell(c, <<Answer("CLOSE", IF accepted THEN "OK" ELSE "NG")>>)
      /\ Returns
      /\ UNCHANGED <<sockVars, dataVars, rtVars, cst, cfd, wait, net, nmsg, got>>

\* process_command_flush_req: everything, one socket's messages, or one message
HandleFlush(i, c) ==
  LET r == req[c]
  IN  /\ Handles(i, c, "FLUSH")
      /\ CASE msgs = <<>>        -> UNCHANGED dataVars
           [] r.proto = "all"    -> kDataInit
           [] r.proto = "socket" -> kDataClear(r.id, 0)
           [] r.proto = "data"   -> kDataClear(0, r.id % 2^16)     \* ntohs
      /\ Tell(c, <<Answer("FLUSH", "OK")>>)
      /\ Returns
      /\ UNCHANGED <<sockVars, rtVars, ctVars, cst, cfd, wait, net, nmsg, got>>

Consume(i) == net' = [net EXCEPT ![i] = Tail(@)]

\* process_si_type_listen on a TCP listening socket; without a free descriptor accept()
\* fails and the connection stays
HandleListenTcp(i) ==
  /\ sock[i].type = "LISTEN_TCP"
  /\ \/ /\ \E dp \in DPorts, da \in DAddrs, usable \in BOOLEAN : Accept(i, dp, da, usable)
        /\ Consume(i)
     \/ FreeFds = {} /\ UNCHANGED <<sockVars, net>>
  /\ Returns
  /\ UNCHANGED <<dataVars, rtVars, ctVars, cst, cfd, req, wait, ans, nmsg, got>>

\* process_si_type_listen on a UDP listening socket: the datagram is the first message
\* of the new socket, and is lost when udpaccept fails or the socket is not registered.
HandleListenUdp(i) ==
  /\ sock[i].type = "LISTEN_UDP"
  /\ \/ UNCHANGED <<sockVars, dataVars>>
     \/ \E dp \in DPorts, da \in DAddrs, usable \in BOOLEAN :
          /\ Accept(i, dp, da, usable)
          /\ IF usable /\ sockId # SOCKET_MAXNUM /\ NextId > 0 /\ msgId # MSG_MAXMSGNUM
               THEN Store(NextId, "RECV", Head(net[i]))
               ELSE UNCHANGED dataVars
  /\ Consume(i)
  /\ Returns
  /\ UNCHANGED <<rtVars, ctVars, cst, cfd, req, wait, ans, nmsg, got>>

\* process_si_type_tcp: a message, registered if kDataRegist takes it
HandleTcpMessage(i) ==
  /\ sock[i].type = "DATA" /\ Head(net[i]) > Eof
  /\ kDataRegist(sock[i].id, "RECV", Head(net[i]))
  /\ Consume(i)
  /\ Returns
  /\ UNCHANGED <<sockVars, rtVars, ctVars, cst, cfd, req, wait, ans, nmsg, got>>

\* process_si_type_tcp: recv() fails, which clears the error
HandleTcpError(i) ==
  /\ sock[i].type = "DATA" /\ Head(net[i]) = Reset
  /\ Consume(i)
  /\ Returns
  /\ UNCHANGED <<sockVars, dataVars, rtVars, ctVars, cst, cfd, req, wait, ans, nmsg, got>>

\* Mutant: the connection is no longer watched, even if the close table is full
HandleTcpEofUnwatched(i) ==
  /\ sock[i].type = "DATA" /\ Head(net[i]) = Eof
  /\ kCloseTimerSet(sock[i].id, 0)
  /\ readfds' = readfds \ {sock[i].handle}
  /\ Returns
  /\ UNCHANGED <<sock, sockId, openFds, ret, dataVars, rtVars, envVars>>

\* Mutant: the end of the stream is only logged
HandleTcpEofIgnored(i) ==
  /\ sock[i].type = "DATA" /\ Head(net[i]) = Eof
  /\ Returns
  /\ UNCHANGED <<sockVars, dataVars, ctVars, rtVars, envVars>>

\* process_si_type_tcp: the end of the stream, which stays readable.  The result of
\* kCloseTimerSet is not looked at.
HandleTcpEof(i) ==
  /\ sock[i].type = "DATA" /\ Head(net[i]) = Eof
  /\ kCloseTimerSet(sock[i].id, 0)
  /\ Returns
  /\ UNCHANGED <<sockVars, dataVars, rtVars, envVars>>

\* process_si_type_udp and process_si_type_raw
HandleDatagram(i) ==
  /\ sock[i].type \in {"UDP", "RAW"}
  /\ IF sock[i].type = "UDP" THEN UdpRecv(i) ELSE UNCHANGED sockVars
  /\ kDataRegist(sock[i].id, "RECV", Head(net[i]))
  /\ Consume(i)
  /\ Returns
  /\ UNCHANGED <<rtVars, ctVars, cst, cfd, req, wait, ans, nmsg, got>>

\* kDispatcherProc hands the ready handle on; the handlers look its entry up again
kDispatcherProc ==
  /\ pc = "select" /\ sending = NotSending /\ Selectable
  /\ \E j \in {kSocketGetSelectedHandle} \ {0} :
     \E i \in {kSocketGetSIBySocketHandle(sock[j].handle)} :
       \/ \E c \in Clients :
            \/ AcceptClient(i, c)
            \/ ClientGone(i, c)
            \/ HandleConnect(i, c)
            \/ HandleWait(i, c)
            \/ HandleSend(i, c)
            \/ HandleRecv(i, c)
            \/ HandleClose(i, c)
            \/ HandleFlush(i, c)
       \/ HandleListenTcp(i)
       \/ HandleListenUdp(i)
       \/ HandleTcpMessage(i)
       \/ HandleTcpError(i)
       \/ HandleTcpEof(i)
       \/ HandleDatagram(i)

Timers ==
  \/ CloseTimerBegins \/ CloseTimerFires
  \/ RecvTimerBegins \/ RecvTimerDrops \/ RecvTimerKeeps
  \/ RecvTimerExpires \/ RecvTimerDelivers \/ RecvTimerEnds

\* A step of koid
Daemon == Timers \/ SelectIdle \/ kDispatcherProc \/ Sends

-----------------------------------------------------------------------------
(* Clients, peers and the clock *)

InSelect == pc = "select" /\ sending = NotSending

daemonVars == <<sockVars, dataVars, rtVars, ctVars, pc, sending>>

NetworkIds == {sock[i].id : i \in {j \in DOMAIN sock : sock[j].type \notin UnixTypes}} \cup StrayIds

\* The bound on the table: what is under way may each add an entry
CanGrow ==
  Len(sock) + Cardinality({c \in Clients : cst[c] = "connecting"})
            + Cardinality({c \in Clients : req[c].cmd \in {"CONNECT", "WAIT"}})
            + Cardinality({i \in DOMAIN sock : /\ sock[i].type \in {"LISTEN_TCP", "LISTEN_UDP"}
                                               /\ net[i] # <<>>}) < MaxEntries

ClientConnects(c) ==
  /\ InSelect /\ cst[c] = "out" /\ CanGrow
  /\ cst' = [cst EXCEPT ![c] = "connecting"]
  /\ UNCHANGED <<daemonVars, cfd, req, wait, ans, net, nmsg, got>>

\* The client leaves, with or without having read its answer
ClientLeaves(c) ==
  /\ InSelect /\ cst[c] = "in"
  /\ cst' = [cst EXCEPT ![c] = "gone"]
  /\ wait' = [wait EXCEPT ![c] = "none"]
  /\ ans' = [ans EXCEPT ![c] = <<>>]
  /\ UNCHANGED <<daemonVars, cfd, req, net, nmsg, got>>

RequestsOf(cmd) ==
  CASE cmd = "CONNECT" -> [cmd : {cmd}, proto : Protocols, data : WithData]
    [] cmd = "WAIT"    -> [cmd : {cmd}, proto : Protocols]
    [] cmd = "SEND"    -> [cmd : {cmd}, id : NetworkIds]
    [] cmd = "RECV"    -> [cmd : {cmd}, id : NetworkIds, sec : Timeouts]
    [] cmd = "CLOSE"   -> [cmd : {cmd}, id : NetworkIds, sec : WaitTimes]
    [] cmd = "FLUSH"   -> [cmd : {cmd}, proto : {"all"}, id : {0}]
                            \cup [cmd : {cmd}, proto : {"socket"}, id : NetworkIds]
                            \cup [cmd : {cmd}, proto : {"data"}, id : 1..msgId]

ClientRequests(c) ==
  /\ InSelect /\ cst[c] = "in" /\ wait[c] = "none"
  /\ \E cmd \in Commands : \E r \in RequestsOf(cmd) :
       /\ cmd \in {"CONNECT", "WAIT"} => CanGrow
       /\ req' = [req EXCEPT ![c] = r]
       /\ wait' = [wait EXCEPT ![c] = cmd]
  /\ UNCHANGED <<daemonVars, cst, cfd, ans, net, nmsg, got>>

\* The client reads one answer and takes it for that to its request
ClientReads(c) ==
  /\ InSelect /\ cst[c] = "in" /\ wait[c] # "none" /\ ans[c] # <<>>
  /\ wait' = [wait EXCEPT ![c] = "none"]
  /\ ans' = [ans EXCEPT ![c] = Tail(@)]
  /\ UNCHANGED <<daemonVars, cst, cfd, req, net, nmsg, got>>

Streaming(i) == IF net[i] = <<>> THEN TRUE ELSE Last(net[i]) # Eof

\* A message, or a datagram from where the kernel has connected the socket to
PeerSends(i) ==
  /\ InSelect /\ nmsg < MaxMsgs
  /\ IsAlive(i) /\ sock[i].type \in {"DATA", "UDP", "RAW"} /\ Streaming(i)
  /\ sock[i].type = "UDP" => sock[i].peer # <<0, 0>>
  /\ net' = [net EXCEPT ![i] = Append(@, nmsg + 1)]
  /\ nmsg' = nmsg + 1
  /\ UNCHANGED <<daemonVars, cst, cfd, req, wait, ans, got>>

PeerCloses(i) ==
  /\ InSelect /\ IsAlive(i) /\ sock[i].type = "DATA" /\ Streaming(i)
  /\ net' = [net EXCEPT ![i] = Append(@, Eof)]
  /\ UNCHANGED <<daemonVars, cst, cfd, req, wait, ans, nmsg, got>>

\* What was not read is lost
PeerResets(i) ==
  /\ InSelect /\ IsAlive(i) /\ sock[i].type = "DATA" /\ Streaming(i)
  /\ net' = [net EXCEPT ![i] = <<Reset, Eof>>]
  /\ UNCHANGED <<daemonVars, cst, cfd, req, wait, ans, nmsg, got>>

\* A connection, or the first datagram of a peer, to a listening socket
PeerConnects(i) ==
  /\ InSelect /\ IsAlive(i) /\ net[i] = <<>> /\ CanGrow
  /\ \/ /\ sock[i].type = "LISTEN_TCP"
        /\ net' = [net EXCEPT ![i] = <<Conn>>]
        /\ UNCHANGED nmsg
     \/ /\ sock[i].type = "LISTEN_UDP" /\ nmsg < MaxMsgs
        /\ net' = [net EXCEPT ![i] = <<nmsg + 1>>]
        /\ nmsg' = nmsg + 1
  /\ UNCHANGED <<daemonVars, cst, cfd, req, wait, ans, got>>

Second ==
  /\ InSelect
  /\ Tick /\ RecvTick
  /\ UNCHANGED <<sockVars, dataVars, pc, sending, envVars>>

Environment ==
  \/ \E c \in Clients : ClientConnects(c) \/ ClientLeaves(c) \/ ClientRequests(c) \/ ClientReads(c)
  \/ \E i \in DOMAIN sock : PeerSends(i) \/ PeerCloses(i) \/ PeerResets(i) \/ PeerConnects(i)
  \/ Second

KoidNext == Daemon \/ Environment

\* koid's loop never stops, seconds pass, and a client reads the answer it waits for.
KoidFairness ==
  /\ WF_koidVars(Daemon)
  /\ SF_koidVars(Second)
  /\ \A c \in Clients : SF_koidVars(ClientReads(c))

KoidSpec == KoidInit /\ [][KoidNext]_koidVars
KoidFairSpec == KoidSpec /\ KoidFairness

-----------------------------------------------------------------------------
\* The tables of the parts keep their types under the main loop.
KoidTypeOK ==
  /\ SockTypeOK /\ DataTypeOK /\ RTTypeOK /\ CTTypeOK
  /\ pc \in {"timers", "closing", "recv", "select"}
  /\ cst \in [Clients -> {"out", "connecting", "in", "gone"}]
  /\ cfd \in [Clients -> Fds \cup {BadFd}]
  /\ nmsg \in 0..MaxMsgs

\* A RECV request that waits in the timer table belongs to a client whose command
\* socket is still in the socket table: the departure of a client empties the table
\* before its descriptor can become that of another socket, which would otherwise be
\* sent the answer.
TimersHaveClients ==
  \A k \in DOMAIN rt : \E i \in Alive : sock[i].type = "UNIX_DATA" /\ sock[i].handle = rt[k].fd

\* The bodies of the messages of socket s, among the first k of ms, that no RECV request
\* was answered yet
UnreadUpTo(ms, s) ==
  LET upTo[k \in 0..Len(ms)] ==
        IF k = 0 THEN <<>>
        ELSE IF ms[k].mode = "RECV" /\ ~ms[k].read /\ ms[k].sid = s
          THEN Append(upTo[k - 1], ms[k].body)
        ELSE upTo[k - 1]
  IN  upTo

UnreadOf(s) == UnreadUpTo(msgs, s)[Len(msgs)]

Delivery == INSTANCE KDelivery WITH
  Sockets <- SocketIds,
  queue <- [s \in SocketIds |-> UnreadOf(s)],
  delivered <- [k \in DOMAIN got |-> [from |-> got[k].from, body |-> got[k].body]]

\* koid, its store, its timers and its tables included, does nothing to messages that a
\* queue per socket does not do, as long as no client asks for a FLUSH: a message that was
\* registered leaves the store only as the answer to one request, oldest first.
ImplementsDelivery == Delivery!DeliverySpec

\* A RECV request is answered a message of the socket it names, or, when it names a
\* listening socket, of a connection of it; 0 names every socket.
DeliveredFromWanted ==
  \A k \in DOMAIN got : \/ got[k].want \in {0, got[k].from}
                        \/ \E i \in DOMAIN sock : /\ sock[i].id = got[k].from
                                                  /\ sock[i].parent = got[k].want

\* When the last client has gone no network socket is left open and no timer is left:
\* the next client starts from a clean daemon.
CleanWithoutClients ==
  (\A i \in Alive : sock[i].type # "UNIX_DATA") =>
    /\ \A i \in Alive : sock[i].type = "UNIX"
    /\ rt = <<>> /\ Used(sct) = {}

\* The client of a request is given one answer: none is left over once it has read it.
OneAnswerPerRequest ==
  \A c \in Clients : Len(ans[c]) <= IF wait[c] = "none" THEN 0 ELSE 1

\* The answer a client finds is to the request it waits for, although descriptors of
\* clients that have gone are used again and timers write to descriptors.
AnswerMatchesRequest ==
  \A c \in Clients : \A k \in DOMAIN ans[c] : wait[c] \in {"none", ans[c][k].cmd}

\* Every RECV request is answered: with a message, an error or, at the latest, the
\* expiry of its timeout.
RecvAnswered == \A c \in Clients : wait[c] = "RECV" ~> wait[c] # "RECV"

\* A request is read although kSocketGetSelectedHandle always serves the first ready entry
\* of the table, provided the other clients do not send requests for ever: a connection at
\* its end, which stays ready, does not keep koid from a command socket that comes later.
RequestsAreRead ==
  \A c \in Clients :
    <>[](\A d \in Clients \ {c} : req[d] = NoReq) => (req[c] # NoReq ~> req[c] = NoReq)

\* A connection whose peer has closed it is closed, even if the close table is full of
\* delayed CLOSE requests when the end of the stream is read, provided clients do not
\* fill the table with CLOSE requests for ever.
EofCloses ==
  <>[](\A c \in Clients : req[c].cmd # "CLOSE") =>
    \A i \in Entries : (i \in Alive /\ net[i] = <<Eof>>) ~> i \notin Alive
=============================================================================
