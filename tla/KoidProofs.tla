------------------------------ MODULE KoidProofs ------------------------------
(***************************************************************************)
(* The daemon, for every number of clients and every size of its tables:   *)
(* its sockets stay what KSocketProofs says of them, the requests that     *)
(* wait in the timer table belong to clients that are still there, a       *)
(* client is given one answer, to the request it waits for, and what RECV  *)
(* requests are answered comes off one queue per socket.  And the close    *)
(* timer table for every size, set of ids and delay: the counter equals    *)
(* the number of slots in use, a socket has at most one slot, and the loop *)
(* of kCloseTimerProc only meets slots that are still expired.             *)
(***************************************************************************)
EXTENDS Koid, KSocketProofs, FiniteSetTheorems, SequenceTheorems

\* What clients write and koid answers
Requests ==
  {NoReq}
    \cup [cmd : {"CONNECT"}, proto : Protocols, data : WithData]
    \cup [cmd : {"WAIT"}, proto : Protocols]
    \cup [cmd : {"SEND"}, id : Int]
    \cup [cmd : {"RECV"}, id : Int, sec : Timeouts]
    \cup [cmd : {"CLOSE"}, id : Int, sec : WaitTimes]
    \cup [cmd : {"FLUSH"}, proto : {"all", "socket", "data"}, id : Int]

Names == {"CONNECT", "WAIT", "SEND", "RECV", "CLOSE", "FLUSH"}

Answers == [cmd : Names, res : {"OK", "NG", "TIMEOUT"}]

Sendings == {NotSending} \cup [c : Clients, cmd : {"CONNECT", "SEND"}, id : Int]

\* The state of the main loop and its clients is well typed.
LoopTypeOK ==
  /\ cst \in [Clients -> {"out", "connecting", "in", "gone"}]
  /\ cfd \in [Clients -> Fds \cup {BadFd}]
  /\ req \in [Clients -> Requests]
  /\ wait \in [Clients -> Names \cup {"none"}]
  /\ ans \in [Clients -> Seq(Answers)]
  /\ sending \in Sendings

\* The timer tables as far as the sockets and the clients are concerned
TimersOK ==
  /\ rt \in Seq([fd : Fds \cup {BadFd}, sid : Int, left : Nat])
  /\ rtLast \in 0..Len(rt)
  /\ rtPos \in Nat
  /\ sct \in [Slots -> [sct_socketid : Int, left : Int]]
  /\ due \subseteq Slots

\* The ids requests and the close table name are those of network sockets, or stray.
IdsAreNamed ==
  /\ \A c \in Clients : req[c].cmd = "CLOSE" => req[c].id \in NetworkIds
  /\ \A s \in Slots : sct[s].sct_socketid \in NetworkIds \cup {T_SCT_INIT}

\* A client has a descriptor of its own as long as koid has not noticed that it has gone.
ClientFds ==
  /\ \A c \in Clients : cfd[c] # BadFd <=> cst[c] \in {"in", "gone"}
  /\ \A c \in Clients : cfd[c] # BadFd => cfd[c] \in openFds
  /\ \A c, d \in Clients : cfd[c] = cfd[d] /\ cfd[c] # BadFd => c = d
  /\ \A i \in Alive : sock[i].handle # BadFd
  /\ \A i \in Alive, c \in Clients : sock[i].handle = cfd[c] => sock[i].type = "UNIX_DATA"

\* The four places the request of a client can be in
AtKoid(c) == req[c] # NoReq
BeingSent(c) == sending # NotSending /\ sending.c = c
InTimer(c) == \E k \in DOMAIN rt : rt[k].fd = cfd[c]
IsAnswered(c) == ans[c] # <<>>

\* It is in one of them at most.
InOnePlace(c) ==
  /\ AtKoid(c) => ~BeingSent(c) /\ ~InTimer(c) /\ ~IsAnswered(c)
  /\ BeingSent(c) => ~InTimer(c) /\ ~IsAnswered(c)
  /\ InTimer(c) => ~IsAnswered(c)
  /\ Len(ans[c]) <= 1

\* It is there because the client waits for it, unless the client has gone.
PlaceIsWaitedFor(c) ==
  /\ cst[c] # "in" => wait[c] = "none" /\ ~IsAnswered(c)
  /\ cst[c] \in {"out", "connecting"} => ~AtKoid(c) /\ ~BeingSent(c)
  /\ cst[c] = "in" =>
       /\ AtKoid(c) => req[c].cmd = wait[c]
       /\ BeingSent(c) => sending.cmd = wait[c]
       /\ InTimer(c) => wait[c] = "RECV"
       /\ \A k \in DOMAIN ans[c] : ans[c][k].cmd = wait[c]

\* A client has one timer at most.
OneTimerEach == \A k, l \in DOMAIN rt : rt[k].fd = rt[l].fd => k = l

\* A CONNECT without data is answered by its handler.
OnlySends == sending # NotSending => sending.cmd = "SEND"

AnswerInv ==
  /\ \A c \in Clients : InOnePlace(c) /\ PlaceIsWaitedFor(c)
  /\ OneTimerEach /\ OnlySends

\* Ids that name no socket, now or later, as long as the ids are not used up
StraysNameNone == \A id \in StrayIds : id \in Int /\ (id <= 0 \/ id > SOCKET_MAXNUM)

loopVars == <<cst, cfd, req, wait, ans, sending>>

-----------------------------------------------------------------------------
(* Requests and answers *)

\* What a request carries depends on its command.
LEMMA RequestTypes ==
  ASSUME NEW r \in Requests
  PROVE  /\ r.cmd \in Names \cup {"none"}
         /\ r.cmd = "none" <=> r = NoReq
         /\ r.cmd = "CONNECT" => r.proto \in Protocols /\ r.data \in WithData
         /\ r.cmd = "WAIT" => r.proto \in Protocols
         /\ r.cmd \in {"SEND", "RECV", "CLOSE"} => r.id \in Int
         /\ r.cmd = "RECV" => r.sec \in Timeouts
         /\ r.cmd = "CLOSE" => r.sec \in WaitTimes
PROOF
  BY DEF Requests, NoReq, Names

\* Clients name integers.
LEMMA NetworkIdsType == ASSUME SockInv PROVE NetworkIds \subseteq Int
PROOF
  <1>1. \A i \in DOMAIN sock : sock[i].id \in Int
    BY FieldTypes DEF SockInv, SockTypeOK
  <1> QED
    BY <1>1, KoidAssumption DEF NetworkIds

\* What clients ask for is a request.
LEMMA RequestsOfType ==
  ASSUME SockInv, NEW cmd \in Commands, NEW r \in RequestsOf(cmd)
  PROVE  /\ r \in Requests /\ r.cmd = cmd /\ r # NoReq /\ cmd \in Names
         /\ cmd = "CLOSE" => r.id \in NetworkIds
PROOF
  <1>1. NetworkIds \subseteq Int
    BY NetworkIdsType
  <1>2. cmd \in Names
    BY SocketAssumption DEF Names
  <1>3. CASE cmd = "CONNECT"
    BY <1>3 DEF RequestsOf, Requests, NoReq, Names
  <1>4. CASE cmd = "WAIT"
    BY <1>4 DEF RequestsOf, Requests, NoReq, Names
  <1>5. CASE cmd = "SEND"
    BY <1>1, <1>5 DEF RequestsOf, Requests, NoReq, Names
  <1>6. CASE cmd = "RECV"
    BY <1>1, <1>6 DEF RequestsOf, Requests, NoReq, Names
  <1>7. CASE cmd = "CLOSE"
    BY <1>1, <1>7 DEF RequestsOf, Requests, NoReq, Names
  <1>8. CASE cmd = "FLUSH"
    BY <1>1, <1>8 DEF RequestsOf, Requests, NoReq, Names
  <1> QED
    BY <1>2, <1>3, <1>4, <1>5, <1>6, <1>7, <1>8 DEF Names

-----------------------------------------------------------------------------
(* What a step of koid does to its sockets is an operation on the table *)

\* select() reports an entry of the table, and the handlers find one.
LEMMA SelectedEntry ==
  ASSUME SockInv, NEW j \in {kSocketGetSelectedHandle} \ {0},
         NEW i \in {kSocketGetSIBySocketHandle(sock[j].handle)}
  PROVE  /\ j \in DOMAIN sock /\ Ready(j) /\ i \in DOMAIN sock
         /\ IdsGrow => i \in Alive /\ sock[i].handle = sock[j].handle
PROOF
  <1> DEFINE ready == {m \in DOMAIN sock : Ready(m)}
             S == {m \in Alive : sock[m].handle = sock[j].handle}
             seen == {m \in S : m <= SOCKET_MAXNUM}
  <1>1. sock \in Seq(SocketInfo) /\ DOMAIN sock = 1..Len(sock) /\ Len(sock) \in Nat
    BY DEF SockInv, SockTypeOK
  <1>2. j \in ready
    <2>1. ready # {} /\ j = Min(ready)
      BY DEF kSocketGetSelectedHandle
    <2>2. ready \subseteq Nat
      BY <1>1
    <2> HIDE DEF ready
    <2> QED
      BY <2>1, <2>2, MinIsLeast
  <1>3. IsAlive(j) /\ sock[j].handle \in readfds
    BY <1>2 DEF Ready
  <1>4. sock[j].handle \in Nat
    BY <1>3, SocketAssumption DEF SockInv, SockTypeOK
  <1>5. j \in S /\ S \subseteq DOMAIN sock
    BY <1>2, <1>3 DEF Alive
  <1>6. i = WalkTo(S)
    BY <1>4 DEF kSocketGetSIBySocketHandle
  <1>7. CASE seen # {}
    <2>0. seen \subseteq Nat
      BY <1>1, <1>5
    <2>1. Min(seen) \in seen
      <3> HIDE DEF seen
      <3> QED
        BY <1>7, <2>0, MinIsLeast
    <2>2. i \in S
      BY <1>6, <1>7, <2>1 DEF WalkTo
    <2> QED
      BY <1>2, <1>5, <2>2
  <1>8. CASE seen = {}
    <2>1. SOCKET_MAXNUM \in Nat
      BY SocketAssumption
    <2>2. ~(j <= SOCKET_MAXNUM) /\ j \in 1..Len(sock)
      BY <1>1, <1>5, <1>8
    <2>3. Len(sock) > SOCKET_MAXNUM
      BY <1>1, <2>1, <2>2
    <2>4. i = SOCKET_MAXNUM + 1
      BY <1>6, <1>8, <2>3 DEF WalkTo
    <2>5. ~IdsGrow
      BY <1>1, <2>1, <2>3, TableFits
    <2> QED
      BY <1>1, <1>2, <2>1, <2>3, <2>4, <2>5
  <1> QED
    BY <1>7, <1>8

\* The handlers, each on an entry of the table.
LEMMA HandlerSockStep ==
  ASSUME SockInv, LoopTypeOK, NEW i \in DOMAIN sock,
         \/ \E c \in Clients :
              \/ AcceptClient(i, c) \/ ClientGone(i, c) \/ HandleConnect(i, c)
              \/ HandleWait(i, c) \/ HandleSend(i, c) \/ HandleRecv(i, c)
              \/ HandleClose(i, c) \/ HandleFlush(i, c)
         \/ HandleListenTcp(i) \/ HandleListenUdp(i) \/ HandleTcpMessage(i)
         \/ HandleTcpError(i) \/ HandleTcpEof(i) \/ HandleDatagram(i)
  PROVE  [SockStep]_sockVars
PROOF
  <1>1. ASSUME NEW c \in Clients, AcceptClient(i, c)
        PROVE  SockStep
    BY <1>1 DEF AcceptClient, SockStep
  <1>2. ASSUME NEW c \in Clients, ClientGone(i, c)
        PROVE  SockStep
    BY <1>2 DEF ClientGone, SockStep
  <1>3. ASSUME NEW c \in Clients, HandleConnect(i, c)
        PROVE  SockStep
    <2>1. req[c] \in Requests /\ req[c].cmd = "CONNECT"
      BY <1>3 DEF HandleConnect, Handles, LoopTypeOK
    <2>2. req[c].proto \in Protocols
      BY <2>1, RequestTypes
    <2> QED
      BY <1>3, <2>2 DEF HandleConnect, SockStep
  <1>4. ASSUME NEW c \in Clients, HandleWait(i, c)
        PROVE  SockStep
    <2>1. req[c] \in Requests /\ req[c].cmd = "WAIT"
      BY <1>4 DEF HandleWait, Handles, LoopTypeOK
    <2>2. req[c].proto \in Protocols
      BY <2>1, RequestTypes
    <2> QED
      BY <1>4, <2>2 DEF HandleWait, SockStep
  <1>5. ASSUME NEW c \in Clients,
               HandleSend(i, c) \/ HandleRecv(i, c) \/ HandleClose(i, c) \/ HandleFlush(i, c)
        PROVE  UNCHANGED sockVars
    BY <1>5 DEF HandleSend, HandleRecv, HandleClose, HandleFlush
  <1>6. CASE HandleListenTcp(i)
    BY <1>6 DEF HandleListenTcp, SockStep
  <1>7. CASE HandleListenUdp(i)
    BY <1>7 DEF HandleListenUdp, SockStep
  <1>8. CASE HandleTcpMessage(i) \/ HandleTcpError(i) \/ HandleTcpEof(i)
    BY <1>8 DEF HandleTcpMessage, HandleTcpError, HandleTcpEof
  <1>9. CASE HandleDatagram(i)
    BY <1>9 DEF HandleDatagram, SockStep
  <1> QED
    BY <1>1, <1>2, <1>3, <1>4, <1>5, <1>6, <1>7, <1>8, <1>9

\* Every step of the daemon and its environment is an operation on the table, or none.
LEMMA KoidSockStep ==
  ASSUME SockInv, LoopTypeOK, [KoidNext]_koidVars
  PROVE  [SockStep]_sockVars
PROOF
  <1>1. CASE Timers
    BY <1>1 DEF Timers, CloseTimerBegins, CloseTimerFires, RecvTimerBegins, RecvTimerDrops,
      RecvTimerKeeps, RecvTimerExpires, RecvTimerDelivers, RecvTimerEnds, SockStep
  <1>2. CASE SelectIdle
    BY <1>2 DEF SelectIdle
  <1>3. CASE kDispatcherProc
    BY <1>3, SelectedEntry, HandlerSockStep DEF kDispatcherProc
  <1>4. CASE Sends
    <2>1. sending \in Sendings /\ sending # NotSending
      BY <1>4 DEF Sends, LoopTypeOK
    <2>2. sending.id \in Int
      BY <2>1 DEF Sendings
    <2> QED
      BY <1>4, <2>2 DEF Sends, SockStep
  <1>5. CASE Environment
    BY <1>5 DEF Environment, ClientConnects, ClientLeaves, ClientRequests, ClientReads,
      PeerSends, PeerCloses, PeerResets, PeerConnects, Second, daemonVars
  <1>6. CASE UNCHANGED koidVars
    BY <1>6 DEF koidVars
  <1> QED
    BY <1>1, <1>2, <1>3, <1>4, <1>5, <1>6 DEF KoidNext, Daemon

-----------------------------------------------------------------------------
(* The receive timers *)

TimerEntry == [fd : Fds \cup {BadFd}, sid : Int, left : Nat]

\* The entry at k is taken out, the ones behind it move up.
LEMMA RemoveAtEntries ==
  ASSUME NEW R, NEW s \in Seq(R), NEW k \in DOMAIN s
  PROVE  /\ RemoveAt(s, k) \in Seq(R)
         /\ Len(RemoveAt(s, k)) = Len(s) - 1
         /\ \A j \in 1..Len(s) - 1 : RemoveAt(s, k)[j] = s[IF j < k THEN j ELSE j + 1]
PROOF
  <1> DEFINE p == SubSeq(s, 1, k - 1)
             q == SubSeq(s, k + 1, Len(s))
             r == RemoveAt(s, k)
  <1>1. Len(s) \in Nat /\ k \in 1..Len(s) /\ DOMAIN s = 1..Len(s)
    OBVIOUS
  <1>2. p \in Seq(R) /\ Len(p) = k - 1 /\ \A j \in 1..k - 1 : p[j] = s[j]
    BY <1>1
  <1>3. q \in Seq(R) /\ Len(q) = Len(s) - k /\ \A j \in 1..Len(s) - k : q[j] = s[k + j]
    BY <1>1
  <1>4. r = p \o q
    BY DEF RemoveAt
  <1> HIDE DEF p, q, r
  <1>5. r \in Seq(R) /\ Len(r) = Len(s) - 1
    <2>1. r \in Seq(R) /\ Len(r) = Len(p) + Len(q)
      BY <1>2, <1>3, <1>4, ConcatProperties
    <2> QED
      BY <1>1, <1>2, <1>3, <2>1
  <1>6. ASSUME NEW j \in 1..Len(s) - 1
        PROVE  r[j] = s[IF j < k THEN j ELSE j + 1]
    <2>1. CASE j < k
      BY <1>1, <1>2, <1>3, <1>4, <2>1
    <2>2. CASE ~(j < k)
      <3>1. j - (k - 1) \in 1..Len(s) - k /\ k + (j - (k - 1)) = j + 1
        BY <1>1, <2>2
      <3>2. r[j] = q[j - (k - 1)]
        BY <1>1, <1>2, <1>3, <1>4, <2>2
      <3> QED
        BY <1>3, <2>2, <3>1, <3>2
    <2> QED
      BY <2>1, <2>2
  <1> QED
    BY <1>5, <1>6 DEF r

\* A step of kRecvTimerProc that is done with an entry
LEMMA LeaveEntries ==
  ASSUME TimersOK, rtPos \in DOMAIN rt, NEW stops, Leave(stops)
  PROVE  /\ rt' \in Seq(TimerEntry) /\ rtLast' \in 0..Len(rt') /\ rtPos' \in Nat
         /\ \A k \in DOMAIN rt' : LET j == IF k < rtPos THEN k ELSE k + 1
                                  IN  j \in DOMAIN rt \ {rtPos} /\ rt'[k] = rt[j]
PROOF
  <1>1. rt \in Seq(TimerEntry) /\ rtLast \in 0..Len(rt) /\ Len(rt) \in Nat /\ rtPos \in Nat
        /\ DOMAIN rt = 1..Len(rt)
    BY DEF TimersOK, TimerEntry
  <1>2. /\ rt' = RemoveAt(rt, rtPos)
        /\ rtLast' = IF rtPos > 1 THEN rtPos - 1 ELSE IF rtLast > 1 THEN rtLast - 1 ELSE 0
        /\ rtPos' = IF stops THEN Len(rt) + 1 ELSE rtPos
    BY DEF Leave, kRecvTimerRemove
  <1>3. /\ rt' \in Seq(TimerEntry) /\ Len(rt') = Len(rt) - 1
        /\ \A j \in 1..Len(rt) - 1 : rt'[j] = rt[IF j < rtPos THEN j ELSE j + 1]
    BY <1>1, <1>2, RemoveAtEntries
  <1>4. DOMAIN rt' = 1..Len(rt) - 1
    BY <1>1, <1>3
  <1> QED
    BY <1>1, <1>2, <1>3, <1>4

\* A RECV request enters the table as its last entry, and may cut entries off, or is not
\* entered.
LEMMA RecvTimerSetEntries ==
  ASSUME TimersOK, NEW fd \in Fds \cup {BadFd}, NEW sid \in Int, NEW sec \in Nat,
         kRecvTimerSet(fd, sid, sec)
  PROVE  /\ rt' \in Seq(TimerEntry) /\ rtLast' \in 0..Len(rt') /\ rtPos' \in Nat
         /\ \A k \in DOMAIN rt' : \/ k \in DOMAIN rt /\ rt'[k] = rt[k]
                                  \/ k = Len(rt') /\ rt'[k].fd = fd
PROOF
  <1> DEFINE e == [fd |-> fd, sid |-> sid, left |-> sec]
  <1>1. rt \in Seq(TimerEntry) /\ rtLast \in 0..Len(rt) /\ Len(rt) \in Nat /\ rtPos' \in Nat
    BY DEF TimersOK, TimerEntry, kRecvTimerSet
  <1>2. e \in TimerEntry /\ e.fd = fd
    BY DEF TimerEntry
  <1>3. CASE UNCHANGED <<rt, rtLast>>
    BY <1>1, <1>3
  <1>4. CASE rt = <<>> /\ rt' = <<e>> /\ rtLast' = 1
    BY <1>1, <1>2, <1>4
  <1>5. CASE rtLast # 0 /\ rt' = Append(SubSeq(rt, 1, rtLast), e) /\ rtLast' = rtLast + 1
    <2> DEFINE p == SubSeq(rt, 1, rtLast)
    <2>1. p \in Seq(TimerEntry) /\ Len(p) = rtLast /\ \A k \in 1..rtLast : p[k] = rt[k]
      BY <1>1
    <2> HIDE DEF p, e
    <2>2. rt' \in Seq(TimerEntry) /\ Len(rt') = rtLast + 1 /\ rt'[rtLast + 1] = e
          /\ \A k \in 1..rtLast : rt'[k] = p[k]
      BY <1>2, <1>5, <2>1 DEF p, e
    <2> QED
      BY <1>1, <1>2, <1>5, <2>1, <2>2
  <1> QED
    BY <1>3, <1>4, <1>5 DEF kRecvTimerSet

-----------------------------------------------------------------------------
(* Types *)

\* What is told is an answer.
LEMMA TellTypes ==
  ASSUME ans \in [Clients -> Seq(Answers)], NEW c, NEW fd, NEW a \in Answers,
         NEW b \in Answers
  PROVE  /\ Tell(c, <<a>>) => ans' \in [Clients -> Seq(Answers)]
         /\ Tell(c, <<a, b>>) => ans' \in [Clients -> Seq(Answers)]
         /\ TellFd(fd, a) => ans' \in [Clients -> Seq(Answers)]
PROOF
  <1>1. <<a>> \in Seq(Answers) /\ <<a, b>> \in Seq(Answers)
    OBVIOUS
  <1>2. \A d \in Clients : ans[d] \in Seq(Answers)
    OBVIOUS
  <1>3. \A d \in Clients : Append(ans[d], a) \in Seq(Answers)
    BY <1>2
  <1>4. \A d \in Clients : /\ ans[d] \o <<a>> \in Seq(Answers)
                           /\ ans[d] \o <<a, b>> \in Seq(Answers)
    BY <1>1, <1>2
  <1> QED
    BY <1>2, <1>3, <1>4 DEF Tell, TellFd

\* The answers koid gives
LEMMA AnswerTypes ==
  ASSUME NEW cmd \in Names, NEW res \in {"OK", "NG", "TIMEOUT"}
  PROVE  Answer(cmd, res) \in Answers /\ Answer(cmd, res).cmd = cmd
PROOF
  BY DEF Answer, Answers

\* The requests a handler reads
LEMMA HandledRequest ==
  ASSUME LoopTypeOK, NEW i, NEW c \in Clients, NEW cmd, Handles(i, c, cmd), cmd \in Names
  PROVE  /\ req[c] \in Requests /\ req[c].cmd = cmd /\ AtKoid(c)
         /\ c \in ClientOf(i) /\ cfd[c] = sock[i].handle /\ sock[i].type = "UNIX_DATA"
         /\ req' = [req EXCEPT ![c] = NoReq] /\ req' \in [Clients -> Requests]
PROOF
  <1>1. req[c] \in Requests /\ NoReq \in Requests
    BY DEF LoopTypeOK, Requests
  <1>2. req[c].cmd = cmd /\ cmd # "none"
    BY DEF Handles, Names
  <1>3. req[c] # NoReq
    BY <1>2 DEF NoReq
  <1> QED
    BY <1>1, <1>2, <1>3 DEF Handles, ClientOf, AtKoid, LoopTypeOK

\* The handlers of the command sockets keep the types.
LEMMA CommandTypes ==
  ASSUME SockInv, LoopTypeOK, NEW i, NEW c \in Clients,
         \/ AcceptClient(i, c) \/ ClientGone(i, c) \/ HandleConnect(i, c)
         \/ HandleWait(i, c) \/ HandleSend(i, c) \/ HandleRecv(i, c)
         \/ HandleClose(i, c) \/ HandleFlush(i, c)
  PROVE  LoopTypeOK'
PROOF
  <1> USE DEF Names
  <1>0. ans \in [Clients -> Seq(Answers)] /\ sending \in Sendings
    BY DEF LoopTypeOK
  <1>1. CASE AcceptClient(i, c)
    <2>1. NewFd \in Fds
      BY <1>1, NewFdIsFree DEF AcceptClient, UnixAccept
    <2> QED
      BY <1>1, <2>1 DEF AcceptClient, Returns, LoopTypeOK
  <1>2. CASE ClientGone(i, c)
    BY <1>2 DEF ClientGone, Returns, LoopTypeOK
  <1>3. CASE HandleConnect(i, c)
    <2>1. req' \in [Clients -> Requests]
      BY <1>3, HandledRequest DEF HandleConnect
    <2>2. SockInv'
      <3>1. req[c].proto \in Protocols
        BY <1>3, HandledRequest, RequestTypes DEF HandleConnect
      <3>2. [SockStep]_sockVars
        BY <1>3, <3>1 DEF HandleConnect, SockStep
      <3> QED
        BY <3>2, SockStepOK
    <2>3. ret'.id \in Int
      BY <2>2 DEF SockInv, SockTypeOK, Results
    <2>4. sending' \in Sendings
      BY <1>0, <1>3, <2>3 DEF HandleConnect, Sendings, Returns
    <2>5. ans' \in [Clients -> Seq(Answers)]
      BY <1>0, <1>3, AnswerTypes, TellTypes DEF HandleConnect
    <2> QED
      BY <1>3, <2>1, <2>4, <2>5 DEF HandleConnect, LoopTypeOK
  <1>4. CASE HandleWait(i, c)
    <2>1. req' \in [Clients -> Requests]
      BY <1>4, HandledRequest DEF HandleWait
    <2>2. ans' \in [Clients -> Seq(Answers)]
      BY <1>0, <1>4, AnswerTypes, TellTypes DEF HandleWait
    <2> QED
      BY <1>4, <2>1, <2>2 DEF HandleWait, LoopTypeOK, Returns
  <1>5. CASE HandleSend(i, c)
    <2>0. req' \in [Clients -> Requests] /\ req[c] \in Requests /\ req[c].cmd = "SEND"
      BY <1>5, HandledRequest DEF HandleSend
    <2>1. req' \in [Clients -> Requests] /\ req[c].id \in Int
      BY <2>0, RequestTypes
    <2> QED
      BY <1>5, <2>1 DEF HandleSend, LoopTypeOK, Sendings
  <1>6. CASE HandleRecv(i, c)
    <2>1. req' \in [Clients -> Requests]
      BY <1>6, HandledRequest DEF HandleRecv
    <2>2. ans' \in [Clients -> Seq(Answers)]
      BY <1>0, <1>6, AnswerTypes, TellTypes DEF HandleRecv
    <2> QED
      BY <1>6, <2>1, <2>2 DEF HandleRecv, LoopTypeOK, Returns
  <1>7. CASE HandleClose(i, c)
    <2>1. req' \in [Clients -> Requests]
      BY <1>7, HandledRequest DEF HandleClose
    <2>2. ans' \in [Clients -> Seq(Answers)]
      BY <1>0, <1>7, AnswerTypes, TellTypes DEF HandleClose
    <2> QED
      BY <1>7, <2>1, <2>2 DEF HandleClose, LoopTypeOK, Returns
  <1>8. CASE HandleFlush(i, c)
    <2>1. req' \in [Clients -> Requests]
      BY <1>8, HandledRequest DEF HandleFlush
    <2>2. ans' \in [Clients -> Seq(Answers)]
      BY <1>0, <1>8, AnswerTypes, TellTypes DEF HandleFlush
    <2> QED
      BY <1>8, <2>1, <2>2 DEF HandleFlush, LoopTypeOK, Returns
  <1> QED
    BY <1>1, <1>2, <1>3, <1>4, <1>5, <1>6, <1>7, <1>8

\* What a client asks for is a request, and what it reads goes.
LEMMA ClientTypes ==
  ASSUME SockInv, LoopTypeOK, NEW c \in Clients,
         ClientConnects(c) \/ ClientLeaves(c) \/ ClientRequests(c) \/ ClientReads(c)
  PROVE  LoopTypeOK'
PROOF
  <1> USE DEF daemonVars
  <1>1. CASE ClientConnects(c)
    BY <1>1 DEF ClientConnects, LoopTypeOK
  <1>2. CASE ClientLeaves(c)
    BY <1>2 DEF ClientLeaves, LoopTypeOK
  <1>3. CASE ClientRequests(c)
    <2>1. PICK cmd \in Commands : \E r \in RequestsOf(cmd) :
            req' = [req EXCEPT ![c] = r] /\ wait' = [wait EXCEPT ![c] = cmd]
      BY <1>3 DEF ClientRequests
    <2>2. PICK r \in RequestsOf(cmd) : req' = [req EXCEPT ![c] = r]
      BY <2>1
    <2>3. r \in Requests /\ cmd \in Names
      BY RequestsOfType
    <2> QED
      BY <1>3, <2>1, <2>2, <2>3 DEF ClientRequests, LoopTypeOK
  <1>4. CASE ClientReads(c)
    <2>1. Tail(ans[c]) \in Seq(Answers)
      BY <1>4 DEF ClientReads, LoopTypeOK
    <2> QED
      BY <1>4, <2>1 DEF ClientReads, LoopTypeOK
  <1> QED
    BY <1>1, <1>2, <1>3, <1>4

\* Every step keeps the types of the loop and its clients.
LEMMA LoopTypesStep == SockInv /\ LoopTypeOK /\ [KoidNext]_koidVars => LoopTypeOK'
PROOF
  <1> SUFFICES ASSUME SockInv, LoopTypeOK, [KoidNext]_koidVars PROVE LoopTypeOK'
    OBVIOUS
  <1>0. ASSUME UNCHANGED loopVars PROVE LoopTypeOK'
    BY <1>0 DEF loopVars, LoopTypeOK
  <1>1. CASE RecvTimerExpires \/ RecvTimerDelivers
    <2>1. PICK a \in Answers : TellFd(rt[rtPos].fd, a)
      <3>1. Answer("RECV", "TIMEOUT") \in Answers /\ Answer("RECV", "OK") \in Answers
        BY AnswerTypes DEF Names
      <3> QED
        BY <1>1, <3>1 DEF RecvTimerExpires, RecvTimerDelivers
    <2>2. ans' \in [Clients -> Seq(Answers)]
      BY <2>1, TellTypes DEF LoopTypeOK
    <2> QED
      BY <1>1, <2>2 DEF RecvTimerExpires, RecvTimerDelivers, LoopTypeOK
  <1>2. CASE CloseTimerBegins \/ CloseTimerFires \/ RecvTimerBegins \/ RecvTimerDrops
             \/ RecvTimerKeeps \/ RecvTimerEnds \/ SelectIdle
    BY <1>0, <1>2 DEF CloseTimerBegins, CloseTimerFires, RecvTimerBegins, RecvTimerDrops,
       RecvTimerKeeps, RecvTimerEnds, SelectIdle, envVars, loopVars
  <1>3. ASSUME NEW i,
               \/ HandleListenTcp(i) \/ HandleListenUdp(i) \/ HandleTcpMessage(i)
               \/ HandleTcpError(i) \/ HandleTcpEof(i) \/ HandleDatagram(i)
        PROVE  LoopTypeOK'
    BY <1>0, <1>3 DEF HandleListenTcp, HandleListenUdp, HandleTcpMessage, HandleTcpError,
       HandleTcpEof, HandleDatagram, Returns, envVars, loopVars
  <1>4. CASE kDispatcherProc
    BY <1>3, <1>4, CommandTypes DEF kDispatcherProc
  <1>5. CASE Sends
    <2>1. sending \in Sendings \ {NotSending}
      BY <1>5 DEF Sends, LoopTypeOK
    <2>2. sending.cmd \in {"CONNECT", "SEND"}
      BY <2>1 DEF Sendings
    <2>3. sending.cmd \in Names
      BY <2>2 DEF Names
    <2>4. /\ Answer(sending.cmd, "OK") \in Answers /\ Answer("SEND", "NG") \in Answers
          /\ Answer("CONNECT", "NG") \in Answers /\ Answer("CONNECT", "OK") \in Answers
      BY <2>3, AnswerTypes DEF Names
    <2>5. ans' \in [Clients -> Seq(Answers)]
      BY <1>5, <2>4, TellTypes DEF Sends, LoopTypeOK
    <2> QED
      BY <1>5, <2>5 DEF Sends, LoopTypeOK, Sendings
  <1>6. ASSUME NEW i, PeerSends(i) \/ PeerCloses(i) \/ PeerResets(i) \/ PeerConnects(i)
        PROVE  LoopTypeOK'
    BY <1>0, <1>6 DEF PeerSends, PeerCloses, PeerResets, PeerConnects, daemonVars, loopVars
  <1>7. CASE Second \/ UNCHANGED koidVars
    BY <1>0, <1>7 DEF Second, koidVars, envVars, loopVars
  <1>8. CASE Environment
    BY <1>6, <1>7, <1>8, ClientTypes DEF Environment
  <1> QED
    BY <1>1, <1>2, <1>4, <1>5, <1>7, <1>8 DEF KoidNext, Daemon, Timers

\* koid starts without clients.
LEMMA LoopInit == KoidInit => SockInit /\ LoopTypeOK
PROOF
  BY DEF KoidInit, LoopTypeOK, Requests, Sendings

\* What the main loop does to the socket table is what KSocketProofs allows for, and its
\* clients, requests and answers keep their types.
THEOREM KoidSockets == KoidSpec => [](SockInv /\ LoopTypeOK)
PROOF
  <1>1. KoidInit => SockInv /\ LoopTypeOK
    BY LoopInit, SockInitOK
  <1>2. SockInv /\ LoopTypeOK /\ [KoidNext]_koidVars => (SockInv /\ LoopTypeOK)'
    BY KoidSockStep, SockStepOK, LoopTypesStep
  <1> QED
    BY <1>1, <1>2, PTL DEF KoidSpec

\* Under the main loop, with its timers and its clients, no two live sockets share a
\* descriptor, each live socket is waited on, and the command socket stays.
THEOREM KoidSocketsServed ==
  KoidSpec => [](AliveHandlesDistinct /\ AliveAreServed /\ CommandSocketAlive)
PROOF
  <1>1. SockInv => AliveHandlesDistinct /\ AliveAreServed /\ CommandSocketAlive
    BY DEF SockInv, CommandSocketAlive, AliveAreServed, Alive, IsAlive
  <1> QED
    BY <1>1, KoidSockets, PTL

\* Under the main loop, too, a failing setsockopt() alone leaves a closed descriptor in
\* g_readfds: without one koid never goes deaf.
THEOREM KoidWatches ==
  ASSUME "sockoptFails" \notin KernelOutcomes
  PROVE  KoidSpec => []WatchedAreOpen
PROOF
  <1>1. KoidInit => WatchedAreOpen
    BY LoopInit DEF SockInit, WatchedAreOpen
  <1>2. SockInv /\ LoopTypeOK /\ WatchedAreOpen /\ [KoidNext]_koidVars => WatchedAreOpen'
    BY KoidSockStep, WatchedStep
  <1> QED
    BY <1>1, <1>2, KoidSockets, PTL DEF KoidSpec

\* As long as the id counter has not wrapped round, ids name one socket each, and a
\* listening socket takes its connections with it.
THEOREM KoidChildren == KoidSpec /\ [](sockId > 0) => []ChildInv
PROOF
  <1>1. SockInv /\ SockInv' /\ LoopTypeOK /\ ChildInv /\ [KoidNext]_koidVars /\ (sockId > 0)' =>
          ChildInv'
    BY KoidSockStep, ChildStep
  <1> QED
    BY <1>1, LoopInit, ChildInit, KoidSockets, PTL DEF KoidSpec

\* Without raw sockets it never does.
THEOREM KoidNoRawNoWrap ==
  ASSUME "ICMP" \notin Protocols
  PROVE  KoidSpec => [](sockId > 0)
PROOF
  <1>1. KoidInit => sockId > 0
    BY LoopInit DEF SockInit
  <1>2. SockInv /\ LoopTypeOK /\ sockId > 0 /\ [KoidNext]_koidVars => (sockId > 0)'
    BY KoidSockStep, NoRawStep
  <1> QED
    BY <1>1, <1>2, KoidSockets, PTL DEF KoidSpec

-----------------------------------------------------------------------------
(* What koid does to its sockets, seen from the timers and the clients *)

\* Network sockets are opened for a client, or by a socket that is open.
Opens == TableOpens(NetTypes) /\ (UNCHANGED sock \/ \E i \in Alive : sock[i].type # "UNIX")

\* A client that has connected is in, or gone unnoticed.
Served(c) == cst[c] \in {"in", "gone"}

SocketCases ==
  \/ Opens /\ UNCHANGED cfd /\ \A c \in Clients : Served(c)' <=> Served(c)
  \/ due # {} /\ (\E g : CloseEntries(CloseSet(DueId, g))) /\ UNCHANGED <<cst, cfd>>
  \/ \E i \in Alive, c \in Clients : AcceptClient(i, c) \/ ClientGone(i, c)

\* Nothing happens to the table.
LEMMA NothingOpens == UNCHANGED <<sock, sockId, openFds>> => Opens
PROOF
  BY DEF Opens, TableOpens

\* What the requests of clients do
LEMMA CommandOpens ==
  ASSUME SockInv, LoopTypeOK, NEW i, NEW c \in Clients,
         \/ HandleConnect(i, c) \/ HandleWait(i, c) \/ HandleSend(i, c) \/ HandleRecv(i, c)
         \/ HandleClose(i, c) \/ HandleFlush(i, c)
  PROVE  Opens /\ UNCHANGED <<cst, cfd>>
PROOF
  <1> USE DEF Names
  <1>0. HasClient => \E k \in Alive : sock[k].type # "UNIX"
    BY DEF HasClient
  <1>1. CASE HandleConnect(i, c)
    <2>1. req[c].proto \in Protocols
      BY <1>1, HandledRequest, RequestTypes DEF HandleConnect
    <2>2. HasClient
      BY <1>1 DEF HandleConnect, Connect
    <2>3. TableOpens(NetTypes)
      BY <1>1, <2>1, ConnectStep DEF HandleConnect
    <2> QED
      BY <1>0, <1>1, <2>2, <2>3 DEF HandleConnect, Opens
  <1>2. CASE HandleWait(i, c)
    <2>1. PICK sp \in Ports, sa \in Addrs, o \in KernelOutcomes :
            Wait(req[c].proto, sp, sa, o, TRUE)
      BY <1>2 DEF HandleWait
    <2>2. HasClient /\ Outcome(o)
      BY <2>1 DEF Wait
    <2>3. \/ kSocketOpenWaitSocket("LISTEN_UDP", sp, sa, o, TRUE)
          \/ kSocketOpenRaw("WAIT", sa, 0, o, TRUE)
          \/ kSocketOpenWaitSocket("LISTEN_TCP", sp, sa, o, TRUE)
      BY <2>1 DEF Wait
    <2>4. TableOpens(NetTypes)
      BY <2>2, <2>3, OpenWaitStep, OpenRawStep
    <2> QED
      BY <1>0, <1>2, <2>2, <2>4 DEF HandleWait, Opens
  <1>3. CASE HandleSend(i, c) \/ HandleRecv(i, c) \/ HandleClose(i, c) \/ HandleFlush(i, c)
    BY <1>3, NothingOpens DEF HandleSend, HandleRecv, HandleClose, HandleFlush, sockVars
  <1> QED
    BY <1>1, <1>2, <1>3

\* What ready network sockets do
LEMMA NetworkOpens ==
  ASSUME SockInv, NEW i \in DOMAIN sock,
         \/ HandleListenTcp(i) \/ HandleListenUdp(i) \/ HandleTcpMessage(i)
         \/ HandleTcpError(i) \/ HandleTcpEof(i) \/ HandleDatagram(i)
  PROVE  Opens /\ UNCHANGED <<cst, cfd>>
PROOF
  <1>1. ASSUME NEW dp \in DPorts, NEW da \in DAddrs, NEW usable \in BOOLEAN,
               Accept(i, dp, da, usable)
        PROVE  Opens
    <2>1. TableOpens(NetTypes)
      BY <1>1, AcceptStep
    <2> QED
      BY <1>1, <2>1 DEF Accept, Opens
  <1>2. ASSUME UdpRecv(i)
        PROVE  Opens
    <2>1. sock[i].peer[1] \in DPorts \cup {0} /\ sock[i].peer[2] \in DAddrs \cup {0}
      BY FieldTypes DEF SockInv, SockTypeOK
    <2> QED
      BY <1>2, <2>1 DEF UdpRecv, Opens, TableOpens, Redirects
  <1>3. CASE HandleListenTcp(i)
    BY <1>1, <1>3, NothingOpens DEF HandleListenTcp, sockVars
  <1>4. CASE HandleListenUdp(i)
    BY <1>1, <1>4, NothingOpens DEF HandleListenUdp, sockVars
  <1>5. CASE HandleTcpMessage(i) \/ HandleTcpError(i) \/ HandleTcpEof(i)
    BY <1>5, NothingOpens DEF HandleTcpMessage, HandleTcpError, HandleTcpEof, sockVars, envVars
  <1>6. CASE HandleDatagram(i)
    BY <1>2, <1>6, NothingOpens DEF HandleDatagram, sockVars
  <1> QED
    BY <1>3, <1>4, <1>5, <1>6 DEF HandleListenTcp, HandleListenUdp, HandleDatagram

\* Every step is one of the cases.
LEMMA KoidSocketCases ==
  ASSUME SockInv, IdsGrow, LoopTypeOK, [KoidNext]_koidVars
  PROVE  SocketCases
PROOF
  <1>0. ASSUME UNCHANGED sockVars, UNCHANGED <<cst, cfd>>
        PROVE  SocketCases
    BY <1>0, NothingOpens DEF sockVars, SocketCases, Served
  <1>1. CASE CloseTimerFires
    BY <1>1 DEF CloseTimerFires, kSocketClose, SocketCases
  <1>2. CASE CloseTimerBegins \/ RecvTimerBegins \/ RecvTimerDrops \/ RecvTimerKeeps
             \/ RecvTimerExpires \/ RecvTimerDelivers \/ RecvTimerEnds \/ SelectIdle
    BY <1>0, <1>2 DEF CloseTimerBegins, RecvTimerBegins, RecvTimerDrops, RecvTimerKeeps,
       RecvTimerExpires, RecvTimerDelivers, RecvTimerEnds, SelectIdle, envVars
  <1>3. CASE kDispatcherProc
    <2>1. PICK j \in {kSocketGetSelectedHandle} \ {0} :
            \E i \in {kSocketGetSIBySocketHandle(sock[j].handle)} :
               \/ \E c \in Clients :
                    \/ AcceptClient(i, c) \/ ClientGone(i, c) \/ HandleConnect(i, c)
                    \/ HandleWait(i, c) \/ HandleSend(i, c) \/ HandleRecv(i, c)
                    \/ HandleClose(i, c) \/ HandleFlush(i, c)
               \/ HandleListenTcp(i) \/ HandleListenUdp(i) \/ HandleTcpMessage(i)
               \/ HandleTcpError(i) \/ HandleTcpEof(i) \/ HandleDatagram(i)
      BY <1>3 DEF kDispatcherProc
    <2> DEFINE i == kSocketGetSIBySocketHandle(sock[j].handle)
    <2>2. i \in Alive /\ i \in DOMAIN sock
      BY SelectedEntry DEF Alive
    <2> HIDE DEF i
    <2>3. CASE \E c \in Clients : AcceptClient(i, c) \/ ClientGone(i, c)
      BY <2>2, <2>3 DEF SocketCases
    <2>4. ASSUME NEW c \in Clients,
                 \/ HandleConnect(i, c) \/ HandleWait(i, c) \/ HandleSend(i, c)
                 \/ HandleRecv(i, c) \/ HandleClose(i, c) \/ HandleFlush(i, c)
          PROVE  SocketCases
      BY <2>4, CommandOpens DEF SocketCases, Served
    <2>5. CASE \/ HandleListenTcp(i) \/ HandleListenUdp(i) \/ HandleTcpMessage(i)
               \/ HandleTcpError(i) \/ HandleTcpEof(i) \/ HandleDatagram(i)
      BY <2>2, <2>5, NetworkOpens DEF SocketCases, Served
    <2> QED
      BY <2>1, <2>3, <2>4, <2>5 DEF i
  <1>4. CASE Sends
    BY <1>4, NothingOpens DEF Sends, kSocketSend, SocketCases, Served
  <1>5. CASE \E c \in Clients : ClientConnects(c)
    BY <1>5, NothingOpens DEF ClientConnects, daemonVars, sockVars, SocketCases, Served, LoopTypeOK
  <1>6. CASE \E c \in Clients : ClientLeaves(c)
    BY <1>6, NothingOpens DEF ClientLeaves, daemonVars, sockVars, SocketCases, Served, LoopTypeOK
  <1>7. CASE \E c \in Clients : ClientRequests(c) \/ ClientReads(c)
    BY <1>0, <1>7 DEF ClientRequests, ClientReads, daemonVars
  <1>8. CASE \E i \in DOMAIN sock : PeerSends(i) \/ PeerCloses(i) \/ PeerResets(i) \/ PeerConnects(i)
    BY <1>0, <1>8 DEF PeerSends, PeerCloses, PeerResets, PeerConnects, daemonVars
  <1>9. CASE Second \/ UNCHANGED koidVars
    BY <1>0, <1>9 DEF Second, koidVars, envVars
  <1> QED
    BY <1>1, <1>2, <1>3, <1>4, <1>5, <1>6, <1>7, <1>8, <1>9
    DEF KoidNext, Daemon, Timers, Environment

-----------------------------------------------------------------------------
(* What koid does to its timers *)

\* A receive timer is an old one or that of a client's request; a slot of the close table
\* keeps its id, is cleared, or is given that of a network socket by a client or a socket.
TimersStep ==
  /\ TimersOK'
  /\ \A k \in DOMAIN rt' :
       \/ \E j \in DOMAIN rt : rt'[k].fd = rt[j].fd
       \/ \E i \in Alive : sock[i].type = "UNIX_DATA" /\ rt'[k].fd = sock[i].handle
  /\ \A s \in Slots :
       \/ sct'[s].sct_socketid \in {sct[s].sct_socketid, T_SCT_INIT}
       \/ sct'[s].sct_socketid \in NetworkIds /\ \E i \in Alive : sock[i].type # "UNIX"

\* Nothing happens to the tables.
LEMMA TimersRest ==
  ASSUME TimersOK, UNCHANGED <<rt, rtLast, sct>>, rtPos' \in Nat, due' \subseteq Slots
  PROVE  TimersStep
PROOF
  BY DEF TimersOK, TimersStep

\* One entry leaves the receive timers.
LEMMA TimersLeave ==
  ASSUME TimersOK, rtPos \in DOMAIN rt, NEW stops, Leave(stops), UNCHANGED <<sct, due>>
  PROVE  TimersStep
PROOF
  <1>1. /\ rt' \in Seq(TimerEntry) /\ rtLast' \in 0..Len(rt') /\ rtPos' \in Nat
        /\ \A k \in DOMAIN rt' : \E j \in DOMAIN rt : rt'[k] = rt[j]
    BY LeaveEntries
  <1> QED
    BY <1>1 DEF TimersOK, TimerEntry, TimersStep

\* kCloseTimerSet with the id of a network socket
LEMMA TimersSetClose ==
  ASSUME TimersOK, NEW id \in NetworkIds, id \in Int, NEW sec \in Int,
         kCloseTimerSet(id, sec), NEW i \in Alive, sock[i].type # "UNIX",
         UNCHANGED <<rt, rtLast, rtPos>>
  PROVE  TimersStep
PROOF
  <1>1. due' \subseteq Slots /\ rtPos' \in Nat
    BY DEF kCloseTimerSet, TimersOK
  <1>2. CASE UNCHANGED sct
    BY <1>1, <1>2, TimersRest
  <1>3. ASSUME NEW s, sct' = [sct EXCEPT ![s] = [sct_socketid |-> id, left |-> sec]]
        PROVE  TimersStep
    <2>1. /\ sct' \in [Slots -> [sct_socketid : Int, left : Int]]
          /\ \A u \in Slots : sct'[u].sct_socketid \in {sct[u].sct_socketid, id}
      BY <1>3 DEF TimersOK
    <2> QED
      BY <1>1, <2>1 DEF TimersOK, TimersStep
  <1> QED
    BY <1>2, <1>3 DEF kCloseTimerSet

\* The requests of clients
LEMMA CommandTimers ==
  ASSUME SockInv, LoopTypeOK, TimersOK, IdsAreNamed, NEW i \in Alive, NEW c \in Clients,
         \/ HandleConnect(i, c) \/ HandleWait(i, c) \/ HandleSend(i, c) \/ HandleRecv(i, c)
         \/ HandleClose(i, c) \/ HandleFlush(i, c)
  PROVE  TimersStep
PROOF
  <1> USE DEF Names
  <1>0. rtPos \in Nat /\ due \subseteq Slots
    BY DEF TimersOK
  <1>1. CASE HandleConnect(i, c) \/ HandleWait(i, c) \/ HandleSend(i, c) \/ HandleFlush(i, c)
    BY <1>0, <1>1, TimersRest
    DEF HandleConnect, HandleWait, HandleSend, HandleFlush, rtVars, ctVars
  <1>2. CASE HandleRecv(i, c)
    <2>1. req[c] \in Requests /\ req[c].cmd = "RECV" /\ sock[i].type = "UNIX_DATA"
      BY <1>2, HandledRequest DEF HandleRecv
    <2>2. req[c].id \in Int /\ req[c].sec \in Nat
      BY <2>1, RequestTypes, RecvTimerAssumption
    <2>3. sock[i].handle \in Fds \cup {BadFd}
      BY FieldTypes DEF SockInv, SockTypeOK, Alive
    <2>4. UNCHANGED <<sct, due>>
      BY <1>2 DEF HandleRecv, ctVars
    <2>5. CASE UNCHANGED rtVars
      BY <1>0, <2>4, <2>5, TimersRest DEF rtVars
    <2>6. CASE kRecvTimerSet(sock[i].handle, req[c].id, req[c].sec)
      <3>1. /\ rt' \in Seq(TimerEntry) /\ rtLast' \in 0..Len(rt') /\ rtPos' \in Nat
            /\ \A k \in DOMAIN rt' : \/ k \in DOMAIN rt /\ rt'[k] = rt[k]
                                     \/ rt'[k].fd = sock[i].handle
        BY <2>2, <2>3, <2>6, RecvTimerSetEntries
      <3> QED
        BY <2>1, <2>4, <3>1 DEF TimersOK, TimerEntry, TimersStep
    <2> QED
      BY <1>2, <2>5, <2>6 DEF HandleRecv
  <1>3. CASE HandleClose(i, c)
    <2>1. req[c] \in Requests /\ req[c].cmd = "CLOSE" /\ sock[i].type = "UNIX_DATA"
      BY <1>3, HandledRequest DEF HandleClose
    <2>2. req[c].id \in Int /\ req[c].sec \in Int
      <3>1. req[c].id \in Int /\ req[c].sec \in WaitTimes
        BY <2>1, RequestTypes
      <3>2. \A t \in 0..MaxSec : t \in Int
        OBVIOUS
      <3> QED
        BY <3>1, <3>2, KoidAssumption
    <2>3. req[c].id \in NetworkIds
      BY <2>1 DEF IdsAreNamed
    <2>4. UNCHANGED <<rt, rtLast, rtPos>>
      BY <1>3 DEF HandleClose, rtVars
    <2>5. CASE kCloseTimerSet(req[c].id, req[c].sec)
      BY <2>1, <2>2, <2>3, <2>4, <2>5, TimersSetClose
    <2>6. CASE UNCHANGED ctVars
      BY <1>0, <2>4, <2>6, TimersRest DEF ctVars
    <2> QED
      BY <1>3, <2>5, <2>6 DEF HandleClose
  <1> QED
    BY <1>1, <1>2, <1>3

\* Every step of koid
LEMMA KoidTimersStep ==
  ASSUME SockInv, IdsGrow, LoopTypeOK, TimersOK, IdsAreNamed, [KoidNext]_koidVars
  PROVE  TimersStep
PROOF
  <1>0. rtPos \in Nat /\ due \subseteq Slots
    BY DEF TimersOK
  <1>00. ASSUME UNCHANGED rtVars, UNCHANGED ctVars
         PROVE  TimersStep
    BY <1>0, <1>00, TimersRest DEF rtVars, ctVars
  <1>1. CASE CloseTimerBegins
    <2>1. due' \subseteq Slots
      BY <1>1 DEF CloseTimerBegins, kCloseTimerProc, Expired, Used
    <2> QED
      BY <1>0, <1>1, <2>1, TimersRest DEF CloseTimerBegins, kCloseTimerProc, rtVars
  <1>2. CASE CloseTimerFires
    <2>1. UNCHANGED <<rt, rtLast, rtPos>>
      BY <1>2 DEF CloseTimerFires, rtVars
    <2>2. due' \subseteq Slots
      BY <1>0, <1>2 DEF CloseTimerFires, kCloseTimerExpire
    <2>3. CASE UNCHANGED sct
      BY <1>0, <2>1, <2>2, <2>3, TimersRest
    <2>4. ASSUME NEW s, sct' = [sct EXCEPT ![s].sct_socketid = T_SCT_INIT]
          PROVE  TimersStep
      <3>1. /\ sct' \in [Slots -> [sct_socketid : Int, left : Int]]
            /\ \A u \in Slots : sct'[u].sct_socketid \in {sct[u].sct_socketid, T_SCT_INIT}
        <4>1. \A u \in Slots : sct[u] \in [sct_socketid : Int, left : Int]
          BY DEF TimersOK
        <4>2. \A u \in Slots : LET e == [sct[u] EXCEPT !.sct_socketid = T_SCT_INIT]
                               IN  /\ e \in [sct_socketid : Int, left : Int]
                                   /\ e.sct_socketid = T_SCT_INIT
          BY <4>1 DEF T_SCT_INIT
        <4>3. DOMAIN sct' = Slots /\ sct' = [u \in Slots |-> sct'[u]]
          BY <2>4 DEF TimersOK
        <4>4. \A u \in Slots : sct'[u] = IF u = s THEN [sct[u] EXCEPT !.sct_socketid = T_SCT_INIT]
                                      ELSE sct[u]
          BY <2>4 DEF TimersOK
        <4> QED
          BY <4>1, <4>2, <4>3, <4>4
      <3> QED
        BY <1>0, <2>1, <2>2, <3>1 DEF TimersOK, TimersStep
    <2> QED
      BY <1>2, <2>3, <2>4 DEF CloseTimerFires, kCloseTimerExpire, kCloseTimerRemove
  <1>3. CASE RecvTimerDrops \/ RecvTimerExpires \/ RecvTimerDelivers
    <2>1. PICK stops \in BOOLEAN : AtEntry /\ Leave(stops)
      BY <1>3 DEF RecvTimerDrops, RecvTimerExpires, RecvTimerDelivers,
         RecvInvalid, RecvTimedOut, RecvArrived
    <2> QED
      BY <1>3, <2>1, TimersLeave DEF RecvTimerDrops, RecvTimerExpires, RecvTimerDelivers,
         AtEntry, ctVars
  <1>4. CASE RecvTimerBegins \/ RecvTimerKeeps \/ RecvTimerEnds
    BY <1>0, <1>4, TimersRest DEF RecvTimerBegins, RecvTimerKeeps, RecvTimerEnds,
       RecvProcBegins, RecvStillWaiting, RecvProcEnds, ctVars
  <1>5. CASE kDispatcherProc
    <2>1. PICK j \in {kSocketGetSelectedHandle} \ {0} :
            \E i \in {kSocketGetSIBySocketHandle(sock[j].handle)} :
               \/ \E c \in Clients :
                    \/ AcceptClient(i, c) \/ ClientGone(i, c) \/ HandleConnect(i, c)
                    \/ HandleWait(i, c) \/ HandleSend(i, c) \/ HandleRecv(i, c)
                    \/ HandleClose(i, c) \/ HandleFlush(i, c)
               \/ HandleListenTcp(i) \/ HandleListenUdp(i) \/ HandleTcpMessage(i)
               \/ HandleTcpError(i) \/ HandleTcpEof(i) \/ HandleDatagram(i)
      BY <1>5 DEF kDispatcherProc
    <2> DEFINE i == kSocketGetSIBySocketHandle(sock[j].handle)
    <2>2. i \in Alive /\ i \in DOMAIN sock
      BY SelectedEntry DEF Alive
    <2> HIDE DEF i
    <2>3. ASSUME NEW c \in Clients, AcceptClient(i, c)
          PROVE  TimersStep
      BY <1>00, <2>3 DEF AcceptClient
    <2>4. ASSUME NEW c \in Clients, ClientGone(i, c)
          PROVE  TimersStep
      <3>1. rt' = <<>> /\ rtLast' = 0 /\ rtPos' = rtPos /\ due' = due
            /\ sct' = [s \in Slots |-> Vacant]
        BY <2>4 DEF ClientGone, kRecvTimerInit, kCloseTimerInit
      <3> QED
        BY <3>1 DEF TimersOK, TimersStep, Vacant, T_SCT_INIT
    <2>5. ASSUME NEW c \in Clients,
                 \/ HandleConnect(i, c) \/ HandleWait(i, c) \/ HandleSend(i, c)
                 \/ HandleRecv(i, c) \/ HandleClose(i, c) \/ HandleFlush(i, c)
          PROVE  TimersStep
      BY <2>2, <2>5, CommandTimers
    <2>6. CASE \/ HandleListenTcp(i) \/ HandleListenUdp(i) \/ HandleTcpMessage(i)
               \/ HandleTcpError(i) \/ HandleDatagram(i)
      BY <1>00, <2>6 DEF HandleListenTcp, HandleListenUdp, HandleTcpMessage, HandleTcpError,
         HandleDatagram
    <2>7. CASE HandleTcpEof(i)
      <3>1. sock[i].type = "DATA" /\ sock[i].id \in Int
        BY <2>2, <2>7, FieldTypes DEF HandleTcpEof, SockInv, SockTypeOK
      <3>2. sock[i].id \in NetworkIds
        BY <2>2, <3>1 DEF NetworkIds, UnixTypes
      <3>3. kCloseTimerSet(sock[i].id, 0) /\ UNCHANGED <<rt, rtLast, rtPos>>
        BY <2>7 DEF HandleTcpEof, rtVars
      <3> QED
        BY <2>2, <3>1, <3>2, <3>3, TimersSetClose
    <2> QED
      BY <2>1, <2>3, <2>4, <2>5, <2>6, <2>7 DEF i
  <1>6. CASE Second
    <2>1. /\ rt' = [k \in DOMAIN rt |-> [rt[k] EXCEPT !.left = IF @ > 0 THEN @ - 1 ELSE 0]]
          /\ rtLast' = rtLast /\ rtPos' = rtPos /\ due' = due
          /\ sct' = [s \in Slots |-> [sct[s] EXCEPT !.left = IF @ > 0 THEN @ - 1 ELSE 0]]
      BY <1>6 DEF Second, Tick, RecvTick
    <2>2. rt \in Seq(TimerEntry)
      BY DEF TimersOK, TimerEntry
    <2>3. DOMAIN rt' = DOMAIN rt /\ \A k \in DOMAIN rt : rt'[k] \in TimerEntry /\ rt'[k].fd = rt[k].fd
      <3>1. \A e \in TimerEntry : LET u == [e EXCEPT !.left = IF @ > 0 THEN @ - 1 ELSE 0]
                                IN  u \in TimerEntry /\ u.fd = e.fd
        BY DEF TimerEntry
      <3>2. \A k \in DOMAIN rt : rt[k] \in TimerEntry
        BY <2>2
      <3> QED
        BY <2>1, <3>1, <3>2
    <2>4. rt' \in Seq(TimerEntry) /\ Len(rt') = Len(rt)
      BY <2>1, <2>2, <2>3
    <2>5. \A s \in Slots : sct[s] \in [sct_socketid : Int, left : Int]
      BY DEF TimersOK
    <2>6. /\ sct' \in [Slots -> [sct_socketid : Int, left : Int]]
          /\ \A s \in Slots : sct'[s].sct_socketid = sct[s].sct_socketid
      BY <2>1, <2>5
    <2> QED
      BY <1>0, <2>1, <2>3, <2>4, <2>6 DEF TimersOK, TimersStep, TimerEntry
  <1>7. CASE SelectIdle \/ Sends \/ UNCHANGED koidVars
    BY <1>00, <1>7 DEF SelectIdle, Sends, koidVars
  <1>8. CASE \/ \E c \in Clients : ClientConnects(c) \/ ClientLeaves(c) \/ ClientRequests(c)
                                     \/ ClientReads(c)
             \/ \E i \in DOMAIN sock : PeerSends(i) \/ PeerCloses(i) \/ PeerResets(i)
                                     \/ PeerConnects(i)
    BY <1>00, <1>8 DEF ClientConnects, ClientLeaves, ClientRequests, ClientReads,
       PeerSends, PeerCloses, PeerResets, PeerConnects, daemonVars
  <1> QED
    BY <1>1, <1>2, <1>3, <1>4, <1>5, <1>6, <1>7, <1>8
    DEF KoidNext, Daemon, Timers, Environment

-----------------------------------------------------------------------------
(* What becomes of the live sockets *)

\* Sockets are opened on descriptors that were not open, and none is lost.
LEMMA OpeningEffect ==
  ASSUME SockInv, IdsGrow, SockInv', NEW types, TableOpens(types)
  PROVE  /\ openFds \subseteq openFds' /\ NetworkIds \subseteq NetworkIds'
         /\ \A i \in Alive : /\ i \in Alive' /\ sock'[i].type = sock[i].type
                             /\ sock'[i].handle = sock[i].handle
         /\ \A i \in Alive' \ Alive : /\ sock'[i].type \in types
                                      /\ sock'[i].handle \notin openFds
                                      /\ sock'[i].type # "UNIX_DATA" => sock'[i].handle # BadFd
PROOF
  <1>1. PICK T : /\ Quiet(T)
                 /\ \/ sock' = T
                    \/ \E si : NewEntry(si) /\ si.type \in types /\ sock' = Append(T, si)
    BY OpeningStep
  <1>2. /\ T \in Seq(SocketInfo) /\ DOMAIN T = DOMAIN sock
        /\ DOMAIN sock = 1..Len(sock) /\ Len(sock) \in Nat /\ Len(T) = Len(sock)
        /\ \A i \in DOMAIN sock :
             /\ T[i].id = sock[i].id /\ T[i].type = sock[i].type /\ T[i].handle = sock[i].handle
             /\ T[i].status = sock[i].status
    BY <1>1 DEF Quiet, Trimmed, SockInv, SockTypeOK
  <1>3. /\ DOMAIN sock \subseteq DOMAIN sock'
        /\ \A i \in DOMAIN sock : sock'[i] = T[i]
        /\ \A i \in DOMAIN sock' \ DOMAIN sock : NewEntry(sock'[i]) /\ sock'[i].type \in types
    <2>1. CASE sock' = T
      BY <1>2, <2>1
    <2>2. ASSUME NEW si, NewEntry(si), si.type \in types, sock' = Append(T, si)
          PROVE  /\ DOMAIN sock \subseteq DOMAIN sock'
                 /\ \A i \in DOMAIN sock : sock'[i] = T[i]
                 /\ \A i \in DOMAIN sock' \ DOMAIN sock :
                      NewEntry(sock'[i]) /\ sock'[i].type \in types
      <3>1. DOMAIN sock' = 1..Len(sock) + 1 /\ sock'[Len(sock) + 1] = si
            /\ \A i \in 1..Len(sock) : sock'[i] = T[i]
        BY <1>2, <2>2 DEF NewEntry
      <3> QED
        BY <1>2, <2>2, <3>1
    <2> QED
      BY <1>1, <2>1, <2>2
  <1>4. openFds \subseteq openFds'
    BY DEF TableOpens
  <1>5. NetworkIds \subseteq NetworkIds'
    BY <1>2, <1>3 DEF NetworkIds
  <1>6. \A i \in DOMAIN sock : (i \in Alive <=> i \in Alive') /\ sock'[i].type = sock[i].type
                                /\ sock'[i].handle = sock[i].handle
    BY <1>2, <1>3 DEF Alive, IsAlive
  <1>7. \A i \in Alive : i \in DOMAIN sock
    BY DEF Alive
  <1>8. \A i \in Alive' : i \in DOMAIN sock'
    BY DEF Alive
  <1>9. \A i \in Alive' \ Alive : NewEntry(sock'[i]) /\ sock'[i].type \in types
    BY <1>3, <1>6, <1>8
  <1> QED
    BY <1>4, <1>5, <1>6, <1>7, <1>9 DEF NewEntry

\* Sockets are closed.
LEMMA ClosingEffect ==
  ASSUME SockInv, NEW S \in SUBSET DOMAIN sock, CloseEntries(S)
  PROVE  /\ openFds' = openFds \ {sock[i].handle : i \in S} /\ NetworkIds \subseteq NetworkIds'
         /\ Alive' = Alive \ S
         /\ \A i \in DOMAIN sock : sock'[i].type = sock[i].type /\ sock'[i].handle = sock[i].handle
PROOF
  <1>1. /\ Trimmed(sock')
        /\ \A i \in S : sock'[i].status = "CLOSE"
        /\ \A i \in DOMAIN sock \ S : sock'[i] = sock[i]
    BY CloseEntriesTrims
  <1>2. openFds' = openFds \ {sock[i].handle : i \in S}
    BY DEF CloseEntries
  <1>3. NetworkIds \subseteq NetworkIds'
    BY <1>1 DEF NetworkIds, Trimmed
  <1>4. Alive' = Alive \ S
    BY <1>1 DEF Alive, IsAlive, Trimmed
  <1> QED
    BY <1>1, <1>2, <1>3, <1>4 DEF Trimmed

\* As long as ids name one socket, a close by id closes the entry with that id.
LEMMA NamedEntry ==
  ASSUME SockInv, IdsGrow, NEW id \in Int
  PROVE  LET k == kSocketGetSIBySocketId(id)
         IN  k = 0 \/ (k \in DOMAIN sock /\ sock[k].id = id)
PROOF
  <1> DEFINE S == {j \in DOMAIN sock : sock[j].id = id}
             seen == {j \in S : j <= SOCKET_MAXNUM}
  <1>1. Len(sock) \in Nat /\ Len(sock) <= SOCKET_MAXNUM /\ sock \in Seq(SocketInfo)
    BY TableFits, SocketAssumption DEF SockInv, SockTypeOK
  <1>2. seen \subseteq Nat
    BY <1>1
  <1>3. seen # {} => Min(seen) \in seen
    <2> HIDE DEF seen
    <2> QED
      BY <1>2, MinIsLeast
  <1>4. ~(Len(sock) > SOCKET_MAXNUM)
    BY <1>1, SocketAssumption
  <1>5. WalkTo(S) = 0 \/ WalkTo(S) \in S
    BY <1>3, <1>4 DEF WalkTo
  <1> QED
    BY <1>5 DEF kSocketGetSIBySocketId

\* The close timer closes network sockets only: ids it was given name no client.
LEMMA DueCloses ==
  ASSUME SockInv, IdsGrow, TimersOK, IdsAreNamed, StraysNameNone, due # {}, NEW g
  PROVE  CloseSet(DueId, g) \subseteq {i \in Alive : sock[i].type \notin UnixTypes}
PROOF
  <1> DEFINE id == DueId
             k == kSocketGetSIBySocketId(id)
  <1>1. id \in Int /\ id \in NetworkIds \cup {T_SCT_INIT}
    <2>1. due \subseteq Nat /\ due \subseteq Slots
      BY DEF TimersOK, Slots
    <2>2. Min(due) \in Slots
      BY <2>1, MinIsLeast
    <2> QED
      BY <2>2 DEF TimersOK, IdsAreNamed, DueId
  <1>2. CASE id = 0
    BY <1>2 DEF CloseSet, CloseAll, Closable
  <1>3. CASE id # 0 /\ k = 0
    BY <1>3 DEF CloseSet
  <1>4. CASE id # 0 /\ k # 0 /\ sock[k].type = "LISTEN_TCP"
    BY <1>4 DEF CloseSet, CloseListener, Closable
  <1>5. CASE id # 0 /\ k # 0 /\ sock[k].type # "LISTEN_TCP"
    <2>1. k \in DOMAIN sock /\ sock[k].id = id
      BY <1>1, <1>5, NamedEntry
    <2>2. sock[k].type \notin UnixTypes
      <3>1. id \in 1..SOCKET_MAXNUM
        BY <1>1, <2>1, TableFits, SocketAssumption DEF IdsGrow, SockInv, SockTypeOK
      <3>2. id # T_SCT_INIT /\ id \notin StrayIds
        BY <3>1, SocketAssumption DEF T_SCT_INIT, StraysNameNone
      <3>3. PICK j \in DOMAIN sock : sock[j].type \notin UnixTypes /\ sock[j].id = id
        BY <1>1, <3>2 DEF NetworkIds
      <3>4. j = k
        <4>1. j \in Nat /\ k \in Nat /\ sock[j].id \in Int
          BY <2>1, FieldTypes DEF SockInv, SockTypeOK
        <4> QED
          BY <2>1, <3>3, <4>1 DEF IdsGrow
      <3> QED
        BY <3>3, <3>4
    <2>3. CloseSet(id, g) = CloseOne(id)
      BY <1>5 DEF CloseSet
    <2>4. \A i \in CloseOne(id) : i = k /\ IsAlive(i)
      BY <1>5 DEF CloseOne, kSocketGetSIBySocketId
    <2> QED
      BY <2>1, <2>2, <2>3, <2>4 DEF Alive
  <1> HIDE DEF k
  <1> QED
    BY <1>2, <1>3, <1>4, <1>5

\* A client is accepted on a descriptor that was not open.
LEMMA AcceptEffect ==
  ASSUME SockInv, IdsGrow, SockInv', NEW i, NEW c \in Clients, AcceptClient(i, c)
  PROVE  /\ NewFd \in Fds \ openFds /\ NewFd # BadFd
         /\ openFds' = openFds \cup {NewFd} /\ NetworkIds \subseteq NetworkIds'
         /\ \A m \in Alive : /\ m \in Alive' /\ sock'[m].type = sock[m].type
                             /\ sock'[m].handle = sock[m].handle
         /\ \A m \in Alive' \ Alive : sock'[m].type = "UNIX_DATA" /\ sock'[m].handle = NewFd
PROOF
  <1> DEFINE si == Info(NextId, "UNIX_DATA", NewFd, 0, 0, 0, 0, 0)
  <1>1. NewFd \in Fds /\ NewFd \notin openFds /\ NewFd # BadFd
    BY NewFdIsFree DEF AcceptClient, UnixAccept
  <1>2. UnixAccept(TRUE)
    BY DEF AcceptClient
  <1>3. openFds' = openFds \cup {NewFd}
    BY <1>1, <1>2 DEF UnixAccept, Register, Info
  <1>4. TableOpens({"UNIX_DATA"})
    BY <1>2, UnixAcceptStep
  <1>5. si.handle = NewFd /\ si.status = "ALIVE" /\ si.type = "UNIX_DATA"
    BY DEF Info
  <1>6. sock' = sock \/ sock' = Append(sock, si)
    BY <1>2 DEF UnixAccept, Register
  <1>7. \A m \in Alive' \ Alive : sock'[m].handle = NewFd
    <2>1. sock \in Seq(SocketInfo) /\ DOMAIN sock = 1..Len(sock)
      BY DEF SockInv, SockTypeOK
    <2>2. sock' \in Seq(SocketInfo)
      BY DEF SockInv, SockTypeOK
    <2> HIDE DEF si
    <2>3. CASE sock' = sock
      BY <2>3 DEF Alive, IsAlive
    <2>4. CASE sock' = Append(sock, si)
      <3>1. \A m \in DOMAIN sock' : (m \in DOMAIN sock /\ sock'[m] = sock[m]) \/ sock'[m] = si
        BY <2>1, <2>4
      <3> QED
        BY <1>5, <3>1 DEF Alive, IsAlive
    <2> QED
      BY <1>6, <2>3, <2>4
  <1> QED
    BY <1>1, <1>3, <1>4, <1>7, OpeningEffect

\* The departure of a client closes its socket, and every network socket.
LEMMA GoneEffect ==
  ASSUME SockInv, IdsGrow, ClientFds, NEW i, NEW c \in Clients, ClientGone(i, c)
  PROVE  \E S \in SUBSET Alive :
           /\ CloseEntries(S)
           /\ \A m \in S : m = i \/ sock[m].type \notin UnixTypes
           /\ \A m \in Alive : sock[m].type \notin UnixTypes => m \in S
PROOF
  <1> DEFINE id == sock[i].id
             S == CloseSet(id, 0) \cup CloseAll
             k == kSocketGetSIBySocketId(id)
  <1>1. i \in Alive /\ sock[i].type = "UNIX_DATA" /\ CloseEntries(S)
    BY DEF ClientGone, Disconnect
  <1>2. i \in DOMAIN sock /\ i \in Nat \ {0} /\ id \in Int /\ id >= i
    BY <1>1, FieldTypes DEF Alive, SockInv, SockTypeOK, IdsGrow
  <1>3. Len(sock) \in Nat /\ Len(sock) <= SOCKET_MAXNUM /\ DOMAIN sock = 1..Len(sock)
    BY TableFits, SocketAssumption DEF SockInv, SockTypeOK
  <1>4. CloseAll = {m \in Alive : sock[m].type \notin UnixTypes}
    <2>1. \A m \in Alive : m \in 1..Len(sock) /\ sock[m].handle \in openFds
      BY <1>3 DEF Alive, ClientFds, SockInv, AliveAreServed
    <2>2. \A m \in Alive : m <= SOCKET_MAXNUM
      BY <1>3, <2>1, SocketAssumption
    <2> QED
      BY <2>1, <2>2 DEF CloseAll, Closable
  <1>5. k = 0 \/ k = i
    <2>1. k = 0 \/ (k \in DOMAIN sock /\ sock[k].id = id)
      BY <1>2, NamedEntry
    <2>2. k \in DOMAIN sock /\ sock[k].id = id => k = i
      BY <1>2, <1>3 DEF IdsGrow
    <2> HIDE DEF k
    <2> QED
      BY <2>1, <2>2
  <1>6. \A m \in CloseSet(id, 0) : m = i /\ m \in Alive
    <2>1. k = i => sock[k].type # "LISTEN_TCP"
      BY <1>1
    <2>2. CloseSet(id, 0) = {} \/ CloseSet(id, 0) = CloseOne(id)
      BY <1>2, <1>5, <2>1 DEF CloseSet
    <2>3. \A m \in CloseOne(id) : m = k /\ m # 0
      BY <1>2 DEF CloseOne, kSocketGetSIBySocketId
    <2> HIDE DEF k
    <2> QED
      BY <1>1, <1>5, <2>2, <2>3
  <1>7. S \in SUBSET Alive
    BY <1>4, <1>6
  <1> QED
    BY <1>1, <1>4, <1>6, <1>7

-----------------------------------------------------------------------------
(* The timers belong to clients that are there *)

\* What makes them so: ids name one socket, the timers name network sockets only, clients
\* have descriptors of their own.
TableInv == ChildInv /\ LoopTypeOK /\ TimersOK

ClientInv ==
  /\ TableInv /\ IdsAreNamed /\ ClientFds
  /\ TimersHaveClients /\ CleanWithoutClients

\* What the lemmas about a step need
StepFacts ==
  /\ ClientInv /\ StraysNameNone /\ SockInv' /\ LoopTypeOK'
  /\ SocketCases /\ TimersStep

LEMMA StepFactsHold ==
  ClientInv /\ StraysNameNone /\ SockInv' /\ LoopTypeOK' /\ [KoidNext]_koidVars => StepFacts
PROOF
  BY KoidSocketCases, KoidTimersStep DEF StepFacts, ClientInv, TableInv, ChildInv

\* The three ways the live sockets change: more of them, network sockets fewer, or one
\* client fewer, with all network sockets.
LEMMA LiveCases ==
  ASSUME StepFacts
  PROVE  /\ NetworkIds \subseteq NetworkIds'
         /\ \/ /\ \A m \in Alive : /\ m \in Alive' /\ sock'[m].type = sock[m].type
                                   /\ sock'[m].handle = sock[m].handle
               /\ Opens \/ \E i \in Alive, c \in Clients : AcceptClient(i, c)
            \/ /\ Alive' \subseteq Alive
               /\ \A m \in Alive : /\ sock'[m].type = sock[m].type
                                   /\ sock'[m].handle = sock[m].handle
                                   /\ sock[m].type \in UnixTypes => m \in Alive'
            \/ \E i \in Alive, c \in Clients : ClientGone(i, c)
PROOF
  <1>0. SockInv /\ IdsGrow /\ SockInv' /\ TimersOK /\ IdsAreNamed /\ StraysNameNone /\ ClientFds
    BY DEF StepFacts, ClientInv, TableInv, ChildInv
  <1>1. CASE Opens
    BY <1>0, <1>1, OpeningEffect DEF Opens
  <1>2. ASSUME NEW i \in Alive, NEW c \in Clients, AcceptClient(i, c)
        PROVE  /\ NetworkIds \subseteq NetworkIds'
               /\ \A m \in Alive : /\ m \in Alive' /\ sock'[m].type = sock[m].type
                                   /\ sock'[m].handle = sock[m].handle
    BY <1>0, <1>2, AcceptEffect
  <1>3. ASSUME due # {}, NEW g, CloseEntries(CloseSet(DueId, g))
        PROVE  /\ NetworkIds \subseteq NetworkIds'
               /\ Alive' \subseteq Alive
               /\ \A m \in Alive : /\ sock'[m].type = sock[m].type
                                   /\ sock'[m].handle = sock[m].handle
                                   /\ sock[m].type \in UnixTypes => m \in Alive'
    <2>1. CloseSet(DueId, g) \subseteq {m \in Alive : sock[m].type \notin UnixTypes}
      BY <1>0, <1>3, DueCloses
    <2>2. CloseSet(DueId, g) \in SUBSET DOMAIN sock /\ Alive \subseteq DOMAIN sock
      BY <2>1 DEF Alive
    <2> QED
      BY <1>0, <1>3, <2>1, <2>2, ClosingEffect
  <1>4. ASSUME NEW i \in Alive, NEW c \in Clients, ClientGone(i, c)
        PROVE  NetworkIds \subseteq NetworkIds'
    <2>1. PICK S \in SUBSET Alive : CloseEntries(S)
      BY <1>0, <1>4, GoneEffect
    <2>2. S \in SUBSET DOMAIN sock
      BY DEF Alive
    <2> QED
      BY <1>0, <2>1, <2>2, ClosingEffect
  <1> QED
    BY <1>1, <1>2, <1>3, <1>4 DEF StepFacts, SocketCases

\* A request that waits in the timer table belongs to a live client after the step.
LEMMA TimersHaveClientsStep ==
  ASSUME StepFacts
  PROVE  TimersHaveClients'
PROOF
  <1>1. CASE \A m \in Alive : sock[m].type \in UnixTypes =>
               m \in Alive' /\ sock'[m].type = sock[m].type /\ sock'[m].handle = sock[m].handle
    <2> SUFFICES ASSUME NEW k \in DOMAIN rt'
                 PROVE  \E i \in Alive' : sock'[i].type = "UNIX_DATA" /\ sock'[i].handle = rt'[k].fd
      BY DEF TimersHaveClients
    <2>1. PICK i \in Alive : sock[i].type = "UNIX_DATA" /\ sock[i].handle = rt'[k].fd
      BY DEF StepFacts, TimersStep, ClientInv, TimersHaveClients
    <2> QED
      BY <1>1, <2>1 DEF UnixTypes
  <1>2. CASE \E i \in Alive, c \in Clients : ClientGone(i, c)
    BY <1>2 DEF ClientGone, kRecvTimerInit, TimersHaveClients
  <1> QED
    BY <1>1, <1>2, LiveCases

\* The ids that requests and the close table name are still those of network sockets.
LEMMA NamedStep ==
  ASSUME StepFacts, [KoidNext]_koidVars
  PROVE  IdsAreNamed'
PROOF
  <1>0. SockInv /\ IdsAreNamed /\ LoopTypeOK /\ NetworkIds \subseteq NetworkIds'
    BY LiveCases DEF StepFacts, ClientInv, TableInv, ChildInv
  <1>1. \A s \in Slots : sct'[s].sct_socketid \in NetworkIds' \cup {T_SCT_INIT}
    BY <1>0 DEF StepFacts, TimersStep, IdsAreNamed
  <1>2. \A c \in Clients : req'[c].cmd = "CLOSE" => req'[c].id \in NetworkIds'
    <2>1. CASE \A c \in Clients : req'[c] \in {req[c], NoReq}
      BY <1>0, <2>1 DEF IdsAreNamed, NoReq
    <2>2. ASSUME NEW d \in Clients, ClientRequests(d)
          PROVE  \A c \in Clients : req'[c].cmd = "CLOSE" => req'[c].id \in NetworkIds'
      <3>1. PICK cmd \in Commands : \E r \in RequestsOf(cmd) : req' = [req EXCEPT ![d] = r]
        BY <2>2 DEF ClientRequests
      <3>2. PICK r \in RequestsOf(cmd) : req' = [req EXCEPT ![d] = r]
        BY <3>1
      <3>3. r.cmd = "CLOSE" => r.id \in NetworkIds
        BY <1>0, RequestsOfType
      <3>4. \A c \in Clients : req'[c] = IF c = d THEN r ELSE req[c]
        BY <1>0, <3>2 DEF LoopTypeOK
      <3> QED
        BY <1>0, <3>3, <3>4 DEF IdsAreNamed
    <2>3. \/ \A c \in Clients : req'[c] \in {req[c], NoReq}
          \/ \E d \in Clients : ClientRequests(d)
      <3>1. ASSUME UNCHANGED req PROVE \A c \in Clients : req'[c] \in {req[c], NoReq}
        BY <3>1
      <3>2. ASSUME NEW d \in Clients, NEW i, NEW cmd, Handles(i, d, cmd)
            PROVE  \A c \in Clients : req'[c] \in {req[c], NoReq}
        BY <1>0, <3>2 DEF Handles, LoopTypeOK
      <3>3. CASE kDispatcherProc
        <4>1. PICK i : \/ \E c \in Clients :
                            \/ AcceptClient(i, c) \/ ClientGone(i, c) \/ HandleConnect(i, c)
                            \/ HandleWait(i, c) \/ HandleSend(i, c) \/ HandleRecv(i, c)
                            \/ HandleClose(i, c) \/ HandleFlush(i, c)
                       \/ HandleListenTcp(i) \/ HandleListenUdp(i) \/ HandleTcpMessage(i)
                       \/ HandleTcpError(i) \/ HandleTcpEof(i) \/ HandleDatagram(i)
          BY <3>3 DEF kDispatcherProc
        <4>2. ASSUME NEW c \in Clients,
                     \/ HandleConnect(i, c) \/ HandleWait(i, c) \/ HandleSend(i, c)
                     \/ HandleRecv(i, c) \/ HandleClose(i, c) \/ HandleFlush(i, c)
              PROVE  \A d \in Clients : req'[d] \in {req[d], NoReq}
          BY <3>2, <4>2 DEF HandleConnect, HandleWait, HandleSend, HandleRecv, HandleClose,
             HandleFlush
        <4>3. ASSUME NEW c \in Clients, AcceptClient(i, c) \/ ClientGone(i, c)
              PROVE  UNCHANGED req
          BY <4>3 DEF AcceptClient, ClientGone
        <4>4. CASE \/ HandleListenTcp(i) \/ HandleListenUdp(i) \/ HandleTcpMessage(i)
                   \/ HandleTcpError(i) \/ HandleTcpEof(i) \/ HandleDatagram(i)
          BY <4>4 DEF HandleListenTcp, HandleListenUdp, HandleTcpMessage, HandleTcpError,
             HandleTcpEof, HandleDatagram, envVars
        <4> QED
          BY <3>1, <4>1, <4>2, <4>3, <4>4
      <3>4. CASE Timers \/ SelectIdle \/ Sends \/ Second \/ UNCHANGED koidVars
        BY <3>1, <3>4 DEF Timers, CloseTimerBegins, CloseTimerFires, RecvTimerBegins,
           RecvTimerDrops, RecvTimerKeeps, RecvTimerExpires, RecvTimerDelivers, RecvTimerEnds,
           SelectIdle, Sends, Second, koidVars, envVars
      <3>5. CASE \/ \E c \in Clients : ClientConnects(c) \/ ClientLeaves(c) \/ ClientReads(c)
                 \/ \E i \in DOMAIN sock : PeerSends(i) \/ PeerCloses(i) \/ PeerResets(i)
                                        \/ PeerConnects(i)
        BY <3>1, <3>5 DEF ClientConnects, ClientLeaves, ClientReads, PeerSends, PeerCloses,
           PeerResets, PeerConnects
      <3> QED
        BY <3>3, <3>4, <3>5 DEF KoidNext, Daemon, Environment
    <2> QED
      BY <2>1, <2>2, <2>3
  <1> QED
    BY <1>1, <1>2 DEF IdsAreNamed

\* Clients keep descriptors of their own when sockets are opened.
LEMMA OpensKeepsFds ==
  ASSUME StepFacts, Opens, UNCHANGED cfd, \A c \in Clients : Served(c)' <=> Served(c)
  PROVE  ClientFds'
PROOF
  <1>0. SockInv /\ SockInv' /\ IdsGrow /\ ClientFds
    BY DEF StepFacts, ClientInv, TableInv, ChildInv
  <1>1. /\ openFds \subseteq openFds'
        /\ \A i \in Alive : /\ i \in Alive' /\ sock'[i].type = sock[i].type
                            /\ sock'[i].handle = sock[i].handle
        /\ \A i \in Alive' \ Alive : /\ sock'[i].handle \notin openFds
                                     /\ sock'[i].handle # BadFd
    <2>1. "UNIX_DATA" \notin NetTypes
      BY DEF NetTypes, DataTypes
    <2> QED
      BY <1>0, <2>1, OpeningEffect DEF Opens
  <1>2. /\ \A c \in Clients : cfd'[c] # BadFd <=> cst'[c] \in {"in", "gone"}
        /\ \A c \in Clients : cfd'[c] # BadFd => cfd'[c] \in openFds'
        /\ \A c, d \in Clients : cfd'[c] = cfd'[d] /\ cfd'[c] # BadFd => c = d
    BY <1>0, <1>1 DEF ClientFds, Served
  <1>3. \A i \in Alive' : sock'[i].handle # BadFd
    BY <1>0, <1>1 DEF ClientFds
  <1>4. ASSUME NEW i \in Alive', NEW c \in Clients, sock'[i].handle = cfd'[c]
        PROVE  sock'[i].type = "UNIX_DATA"
    <2>1. CASE i \in Alive
      BY <1>0, <1>1, <1>4, <2>1 DEF ClientFds
    <2>2. CASE i \notin Alive
      BY <1>0, <1>1, <1>4, <2>2 DEF ClientFds
    <2> QED
      BY <2>1, <2>2
  <1> QED
    BY <1>2, <1>3, <1>4 DEF ClientFds

\* Network sockets, and the sockets of clients that have gone, take no other client's
\* descriptor with them.
LEMMA CloseKeepsFds ==
  ASSUME StepFacts, NEW S \in SUBSET Alive, CloseEntries(S),
         \A c \in Clients : cfd'[c] # BadFd <=> cst'[c] \in {"in", "gone"},
         \A c \in Clients : cfd'[c] = cfd[c] \/ cfd'[c] = BadFd,
         \A c \in Clients, m \in S : cfd'[c] # BadFd => sock[m].handle # cfd[c]
  PROVE  ClientFds'
PROOF
  <1>0. SockInv /\ ClientFds
    BY DEF StepFacts, ClientInv, TableInv, ChildInv
  <1>1. S \in SUBSET DOMAIN sock
    BY DEF Alive
  <1>2. /\ openFds' = openFds \ {sock[i].handle : i \in S}
        /\ Alive' = Alive \ S
        /\ \A i \in DOMAIN sock : sock'[i].type = sock[i].type /\ sock'[i].handle = sock[i].handle
    BY <1>0, <1>1, ClosingEffect
  <1>3. \A i \in Alive' : i \in Alive /\ sock'[i].type = sock[i].type
                          /\ sock'[i].handle = sock[i].handle
    BY <1>2 DEF Alive
  <1>4. \A c \in Clients : cfd'[c] # BadFd => cfd'[c] \in openFds'
    BY <1>0, <1>2 DEF ClientFds
  <1>5. \A c, d \in Clients : cfd'[c] = cfd'[d] /\ cfd'[c] # BadFd => c = d
    BY <1>0 DEF ClientFds
  <1>6. \A i \in Alive' : sock'[i].handle # BadFd
    BY <1>0, <1>3 DEF ClientFds
  <1>7. \A i \in Alive', c \in Clients : sock'[i].handle = cfd'[c] => sock'[i].type = "UNIX_DATA"
    BY <1>0, <1>3, <1>6 DEF ClientFds
  <1> QED
    BY <1>4, <1>5, <1>6, <1>7 DEF ClientFds

\* The client that is accepted is given a descriptor nobody has.
LEMMA AcceptKeepsFds ==
  ASSUME StepFacts, NEW i \in Alive, NEW c \in Clients, AcceptClient(i, c)
  PROVE  ClientFds'
PROOF
  <1>0. SockInv /\ SockInv' /\ IdsGrow /\ ClientFds /\ LoopTypeOK
    BY DEF StepFacts, ClientInv, TableInv, ChildInv
  <1>1. /\ NewFd \notin openFds /\ NewFd # BadFd
        /\ openFds' = openFds \cup {NewFd}
        /\ \A m \in Alive : /\ m \in Alive' /\ sock'[m].type = sock[m].type
                            /\ sock'[m].handle = sock[m].handle
        /\ \A m \in Alive' \ Alive : sock'[m].type = "UNIX_DATA" /\ sock'[m].handle = NewFd
    BY <1>0, AcceptEffect
  <1>2. /\ cst[c] = "connecting"
        /\ \A d \in Clients : /\ cst'[d] = IF d = c THEN "in" ELSE cst[d]
                              /\ cfd'[d] = IF d = c THEN NewFd ELSE cfd[d]
    BY <1>0 DEF AcceptClient, LoopTypeOK
  <1>3. \A m \in Alive : sock[m].handle \in openFds
    BY <1>0 DEF ClientFds, SockInv, AliveAreServed
  <1>4. \A d \in Clients : cfd'[d] # BadFd <=> cst'[d] \in {"in", "gone"}
    BY <1>0, <1>1, <1>2 DEF ClientFds
  <1>5. \A d \in Clients : cfd'[d] # BadFd => cfd'[d] \in openFds'
    BY <1>0, <1>1, <1>2 DEF ClientFds
  <1>6. \A d, e \in Clients : cfd'[d] = cfd'[e] /\ cfd'[d] # BadFd => d = e
    BY <1>0, <1>1, <1>2 DEF ClientFds
  <1>7. \A m \in Alive' : sock'[m].handle # BadFd
    BY <1>0, <1>1 DEF ClientFds
  <1>8. ASSUME NEW m \in Alive', NEW d \in Clients, sock'[m].handle = cfd'[d]
        PROVE  sock'[m].type = "UNIX_DATA"
    <2>1. CASE m \in Alive
      BY <1>0, <1>1, <1>2, <1>3, <1>8, <2>1 DEF ClientFds
    <2>2. CASE m \notin Alive
      BY <1>1, <2>2
    <2> QED
      BY <2>1, <2>2
  <1> QED
    BY <1>4, <1>5, <1>6, <1>7, <1>8 DEF ClientFds

\* Each step keeps them apart.
LEMMA ClientFdsStep ==
  ASSUME StepFacts
  PROVE  ClientFds'
PROOF
  <1>0. SockInv /\ IdsGrow /\ ClientFds /\ TimersOK /\ IdsAreNamed /\ StraysNameNone /\ LoopTypeOK
    BY DEF StepFacts, ClientInv, TableInv, ChildInv
  <1>1. CASE Opens /\ UNCHANGED cfd /\ \A c \in Clients : Served(c)' <=> Served(c)
    BY <1>1, OpensKeepsFds
  <1>2. ASSUME due # {}, NEW g, CloseEntries(CloseSet(DueId, g)), UNCHANGED <<cst, cfd>>
        PROVE  ClientFds'
    <2> DEFINE S == CloseSet(DueId, g)
    <2>1. S \subseteq {m \in Alive : sock[m].type \notin UnixTypes}
      BY <1>0, <1>2, DueCloses
    <2> HIDE DEF S
    <2>2. \A c \in Clients, m \in S : sock[m].handle # cfd[c]
      BY <1>0, <2>1 DEF ClientFds, UnixTypes
    <2>3. CloseEntries(S)
      BY <1>2 DEF S
    <2>4. \A c \in Clients : cfd'[c] # BadFd <=> cst'[c] \in {"in", "gone"}
      BY <1>0, <1>2 DEF ClientFds
    <2> QED
      BY <1>2, <2>1, <2>2, <2>3, <2>4, CloseKeepsFds
  <1>3. ASSUME NEW i \in Alive, NEW c \in Clients, AcceptClient(i, c)
        PROVE  ClientFds'
    BY <1>3, AcceptKeepsFds
  <1>4. ASSUME NEW i \in Alive, NEW c \in Clients, ClientGone(i, c)
        PROVE  ClientFds'
    <2>1. PICK S \in SUBSET Alive :
            CloseEntries(S) /\ \A m \in S : m = i \/ sock[m].type \notin UnixTypes
      BY <1>0, <1>4, GoneEffect
    <2>2. /\ cfd[c] = sock[i].handle /\ cst[c] = "gone"
          /\ \A d \in Clients : /\ cst'[d] = IF d = c THEN "out" ELSE cst[d]
                                /\ cfd'[d] = IF d = c THEN BadFd ELSE cfd[d]
      BY <1>0, <1>4 DEF ClientGone, ClientOf, LoopTypeOK
    <2>3. \A d \in Clients : cfd'[d] # BadFd <=> cst'[d] \in {"in", "gone"}
      BY <1>0, <2>2 DEF ClientFds
    <2>4. \A d \in Clients, m \in S : cfd'[d] # BadFd => sock[m].handle # cfd[d]
      <3>1. \A d \in Clients : cfd'[d] # BadFd => cfd[d] # sock[i].handle
        BY <1>0, <2>2 DEF ClientFds
      <3>2. \A d \in Clients, m \in S : m # i => sock[m].handle # cfd[d]
        BY <1>0, <2>1 DEF ClientFds, UnixTypes
      <3> QED
        BY <3>1, <3>2
    <2> QED
      BY <2>1, <2>2, <2>3, <2>4, CloseKeepsFds
  <1> QED
    BY <1>1, <1>2, <1>3, <1>4 DEF StepFacts, SocketCases

\* The departure of a client leaves no network socket and no timer.
LEMMA GoneCleans ==
  ASSUME StepFacts, NEW i, NEW c \in Clients, ClientGone(i, c)
  PROVE  CleanWithoutClients'
PROOF
  <1>0. SockInv /\ IdsGrow /\ ClientFds /\ SockInv'
    BY DEF StepFacts, ClientInv, TableInv, ChildInv
  <1>1. PICK S \in SUBSET Alive :
          CloseEntries(S) /\ \A m \in Alive : sock[m].type \notin UnixTypes => m \in S
    BY <1>0, GoneEffect
  <1>2. S \in SUBSET DOMAIN sock
    BY DEF Alive
  <1>3. /\ Alive' = Alive \ S
        /\ \A m \in DOMAIN sock : sock'[m].type = sock[m].type
    BY <1>0, <1>1, <1>2, ClosingEffect
  <1>4. \A m \in Alive' : sock'[m].type \in UnixTypes
    BY <1>1, <1>3 DEF Alive
  <1>5. rt' = <<>> /\ sct' = [s \in Slots |-> Vacant]
    BY DEF ClientGone, kRecvTimerInit, kCloseTimerInit
  <1>6. Used(sct') = {}
    BY <1>5 DEF Used, Vacant
  <1> QED
    BY <1>4, <1>5, <1>6 DEF CleanWithoutClients, UnixTypes

\* Without a client nothing is opened and no timer is set.
LEMMA CleanStep ==
  ASSUME StepFacts
  PROVE  CleanWithoutClients'
PROOF
  <1>0. TimersOK /\ TimersOK' /\ CleanWithoutClients /\ TimersStep
        /\ SockInv /\ SockInv' /\ IdsGrow
    BY DEF StepFacts, ClientInv, TableInv, ChildInv, TimersStep
  <1>1. CASE \E i \in Alive, c \in Clients : ClientGone(i, c)
    BY <1>1, GoneCleans
  <1>2. CASE ~\E i \in Alive, c \in Clients : ClientGone(i, c)
    <2> SUFFICES ASSUME \A i \in Alive' : sock'[i].type # "UNIX_DATA"
                 PROVE  /\ \A i \in Alive' : sock'[i].type = "UNIX"
                        /\ rt' = <<>> /\ Used(sct') = {}
      BY DEF CleanWithoutClients
    <2>1. \A i \in Alive : sock[i].type # "UNIX_DATA"
      BY <1>2, LiveCases DEF UnixTypes
    <2>2. (\A i \in Alive : sock[i].type = "UNIX") /\ rt = <<>> /\ Used(sct) = {}
      BY <1>0, <2>1 DEF CleanWithoutClients
    <2>3. rt' = <<>>
      <3>1. rt' \in Seq([fd : Fds \cup {BadFd}, sid : Int, left : Nat])
        BY <1>0 DEF TimersOK
      <3>2. \A k \in DOMAIN rt' : FALSE
        BY <1>0, <2>1, <2>2 DEF TimersStep
      <3>3. DOMAIN rt' = 1..Len(rt') /\ Len(rt') \in Nat
        BY <3>1
      <3>4. ~(Len(rt') >= 1)
        BY <3>2, <3>3
      <3> QED
        BY <3>1, <3>3, <3>4
    <2>4. Used(sct') = {}
      BY <1>0, <2>2 DEF TimersStep, Used
    <2>5. \A i \in Alive' : sock'[i].type = "UNIX"
      <3>1. CASE Opens
        <4>1. UNCHANGED sock
          BY <2>2, <3>1 DEF Opens
        <4> QED
          BY <2>2, <4>1 DEF Alive, IsAlive
      <3>2. CASE \E i \in Alive, c \in Clients : AcceptClient(i, c)
        <4>1. \A m \in Alive' \ Alive : sock'[m].type = "UNIX_DATA"
          BY <1>0, <3>2, AcceptEffect
        <4>2. \A m \in Alive : sock'[m].type = sock[m].type
          BY <1>0, <3>2, AcceptEffect
        <4> QED
          BY <2>2, <4>1, <4>2
      <3> QED
        BY <1>2, <2>2, <3>1, <3>2, LiveCases
    <2> QED
      BY <2>3, <2>4, <2>5
  <1> QED
    BY <1>1, <1>2

\* koid starts clean.
LEMMA ClientInit == KoidInit => ClientInv
PROOF
  <1> SUFFICES ASSUME KoidInit PROVE ClientInv
    OBVIOUS
  <1>1. SockInit /\ ChildInv /\ LoopTypeOK
    BY LoopInit, ChildInit
  <1>2. rt = <<>> /\ rtLast = 0 /\ rtPos = 0 /\ due = {} /\ sct = [s \in Slots |-> Vacant]
    BY DEF KoidInit, RTInit, CTInit
  <1>3. TimersOK
    BY <1>2 DEF TimersOK, Vacant, T_SCT_INIT
  <1>4. \A c \in Clients : req[c] = NoReq /\ cst[c] = "out" /\ cfd[c] = BadFd
    BY DEF KoidInit
  <1>5. IdsAreNamed
    BY <1>2, <1>4 DEF IdsAreNamed, NoReq, Vacant
  <1>6. \A i \in Alive : sock[i].type = "UNIX" /\ sock[i].handle # BadFd
    BY <1>1 DEF SockInit, Info, Alive, ChildInv, SockInv
  <1>7. ClientFds
    BY <1>4, <1>6 DEF ClientFds
  <1>8. TimersHaveClients /\ CleanWithoutClients
    <2>1. Used(sct) = {}
      BY <1>2 DEF Used, Vacant
    <2> QED
      BY <1>2, <1>6, <2>1 DEF TimersHaveClients, CleanWithoutClients
  <1> QED
    BY <1>1, <1>3, <1>5, <1>7, <1>8 DEF ClientInv, TableInv

\* As long as ids name one socket each and no client names another client's socket, every
\* step keeps the invariant.
LEMMA ClientStep ==
  ASSUME StraysNameNone
  PROVE  /\ ClientInv /\ ChildInv' /\ LoopTypeOK' /\ [KoidNext]_koidVars => ClientInv'
PROOF
  <1> SUFFICES ASSUME ClientInv, ChildInv', LoopTypeOK', [KoidNext]_koidVars
               PROVE  ClientInv'
    OBVIOUS
  <1>1. StepFacts
    BY StepFactsHold DEF ChildInv
  <1>2. TimersOK'
    BY <1>1 DEF StepFacts, TimersStep
  <1> QED
    BY <1>1, <1>2, NamedStep, ClientFdsStep, TimersHaveClientsStep, CleanStep
    DEF ClientInv, TableInv

LEMMA ClientInvariance ==
  ASSUME StraysNameNone
  PROVE  KoidSpec /\ [](sockId > 0) => []ClientInv
PROOF
  <1>1. ClientInv /\ ChildInv' /\ LoopTypeOK' /\ [KoidNext]_koidVars => ClientInv'
    BY ClientStep
  <1> QED
    BY <1>1, ClientInit, KoidChildren, KoidSockets, PTL DEF KoidSpec

\* A RECV request that waits belongs to a client whose command socket is open, so its answer
\* goes to no other socket that was given the descriptor: as long as the id counter has not
\* wrapped round and no client closes another client by its id.
THEOREM TimersHaveClientsHolds ==
  ASSUME StraysNameNone
  PROVE  KoidSpec /\ [](sockId > 0) => []TimersHaveClients
PROOF
  <1>1. ClientInv => TimersHaveClients
    BY DEF ClientInv
  <1> QED
    BY <1>1, ClientInvariance, PTL

\* Under the same hypotheses the last client that leaves takes every network socket and
\* every timer with it, whatever was open and however it leaves.
THEOREM CleanWithoutClientsHolds ==
  ASSUME StraysNameNone
  PROVE  KoidSpec /\ [](sockId > 0) => []CleanWithoutClients
PROOF
  <1>1. ClientInv => CleanWithoutClients
    BY DEF ClientInv
  <1> QED
    BY <1>1, ClientInvariance, PTL

-----------------------------------------------------------------------------
(* What a step does to the requests and answers of the clients *)

\* The receive timers are old ones.
TimersFewer ==
  /\ \A k \in DOMAIN rt' : \E m \in DOMAIN rt : rt'[k].fd = rt[m].fd
  /\ OneTimerEach => OneTimerEach'

\* Nothing happens to a client that is not told.
Rests == UNCHANGED loopVars /\ TimersFewer

\* kRecvTimerProc answers a request.
TimerAnswers ==
  /\ rtPos \in DOMAIN rt /\ \E stops : Leave(stops)
  /\ \E res \in {"OK", "TIMEOUT"} : TellFd(rt[rtPos].fd, Answer("RECV", res))
  /\ UNCHANGED <<cst, cfd, req, wait, sending>>

\* The handler of a request answers it.
HandlerAnswers(c) ==
  /\ AtKoid(c) /\ req' = [req EXCEPT ![c] = NoReq]
  /\ \E res \in {"OK", "NG"} : Tell(c, <<Answer(req[c].cmd, res)>>)
  /\ UNCHANGED <<cst, cfd, wait, sending>> /\ TimersFewer

\* It makes the request a timer, or forgets it.
HandlerWaits(c) ==
  /\ AtKoid(c) /\ req[c].cmd = "RECV" /\ req' = [req EXCEPT ![c] = NoReq]
  /\ \A k \in DOMAIN rt' : \/ k \in DOMAIN rt /\ rt'[k] = rt[k]
                           \/ k = Len(rt') /\ rt'[k].fd = cfd[c]
  /\ UNCHANGED <<cst, cfd, wait, ans, sending>>

\* It hands the request on to kSocketSend.
HandlerSends(c) ==
  /\ AtKoid(c) /\ req[c].cmd = "SEND" /\ req' = [req EXCEPT ![c] = NoReq]
  /\ sending = NotSending /\ (\E id \in Int : sending' = [c |-> c, cmd |-> "SEND", id |-> id])
  /\ UNCHANGED <<cst, cfd, wait, ans>> /\ TimersFewer

\* kSocketSend is done.
SendAnswers ==
  /\ sending # NotSending /\ sending' = NotSending
  /\ \E res \in {"OK", "NG"} : Tell(sending.c, <<Answer(sending.cmd, res)>>)
  /\ UNCHANGED <<cst, cfd, req, wait>> /\ TimersFewer

ClientCases(c) ==
  \/ ClientConnects(c) \/ ClientLeaves(c) \/ ClientRequests(c) \/ ClientReads(c)
  \/ sending = NotSending /\ \E i : AcceptClient(i, c) \/ ClientGone(i, c)
  \/ HandlerAnswers(c) \/ HandlerWaits(c) \/ HandlerSends(c)

LoopCases == Rests \/ TimerAnswers \/ SendAnswers \/ \E c \in Clients : ClientCases(c)

\* What leaves or ages is not new.
LEMMA SameTimersFewer == UNCHANGED rt => TimersFewer
PROOF
  BY DEF TimersFewer, OneTimerEach

LEMMA LeaveTimersFewer ==
  ASSUME TimersOK, rtPos \in DOMAIN rt, NEW stops, Leave(stops)
  PROVE  /\ TimersFewer
         /\ OneTimerEach => \A k \in DOMAIN rt' : rt'[k].fd # rt[rtPos].fd
PROOF
  <1>1. rt \in Seq(TimerEntry) /\ DOMAIN rt = 1..Len(rt) /\ Len(rt) \in Nat
    BY DEF TimersOK, TimerEntry
  <1>2. rt' \in Seq(TimerEntry) /\ DOMAIN rt' = 1..Len(rt') /\ Len(rt') \in Nat
    BY LeaveEntries
  <1>3. \A k \in DOMAIN rt' : LET j == IF k < rtPos THEN k ELSE k + 1
                              IN  j \in DOMAIN rt \ {rtPos} /\ rt'[k] = rt[j]
    BY LeaveEntries
  <1>4. OneTimerEach => \A k \in DOMAIN rt' : rt'[k].fd # rt[rtPos].fd
    BY <1>3 DEF OneTimerEach
  <1>5. OneTimerEach => OneTimerEach'
    <2> SUFFICES ASSUME OneTimerEach, NEW k \in DOMAIN rt', NEW l \in DOMAIN rt',
                        rt'[k].fd = rt'[l].fd
                 PROVE  k = l
      BY DEF OneTimerEach
    <2> DEFINE At(m) == IF m < rtPos THEN m ELSE m + 1
    <2>1. At(k) \in DOMAIN rt /\ At(l) \in DOMAIN rt /\ rt[At(k)].fd = rt[At(l)].fd
      BY <1>3
    <2>2. At(k) = At(l)
      <3> HIDE DEF At
      <3> QED
        BY <2>1 DEF OneTimerEach
    <2> QED
      BY <1>1, <1>2, <2>2
  <1> QED
    BY <1>3, <1>4, <1>5 DEF TimersFewer

\* The handlers of requests
LEMMA CommandCases ==
  ASSUME SockInv, LoopTypeOK, TimersOK, WithData \subseteq {FALSE}, sending = NotSending,
         NEW i \in Alive, NEW c \in Clients,
         \/ HandleConnect(i, c) \/ HandleWait(i, c) \/ HandleSend(i, c) \/ HandleRecv(i, c)
         \/ HandleClose(i, c) \/ HandleFlush(i, c)
  PROVE  HandlerAnswers(c) \/ HandlerWaits(c) \/ HandlerSends(c)
PROOF
  <1> USE DEF Names
  <1>1. CASE HandleConnect(i, c)
    <2>1. req[c] \in Requests /\ req[c].cmd = "CONNECT" /\ AtKoid(c)
          /\ req' = [req EXCEPT ![c] = NoReq]
      BY <1>1, HandledRequest DEF HandleConnect
    <2>2. req[c].data \in WithData
      BY <2>1, RequestTypes
    <2>3. ~req[c].data
      BY <2>2
    <2> QED
      BY <1>1, <2>1, <2>3, SameTimersFewer DEF HandleConnect, HandlerAnswers, Returns, rtVars
  <1>2. CASE HandleWait(i, c)
    <2>1. req[c].cmd = "WAIT" /\ AtKoid(c) /\ req' = [req EXCEPT ![c] = NoReq]
      BY <1>2, HandledRequest DEF HandleWait
    <2> QED
      BY <1>2, <2>1, SameTimersFewer DEF HandleWait, HandlerAnswers, Returns, rtVars
  <1>3. CASE HandleSend(i, c)
    <2>1. req[c] \in Requests /\ req[c].cmd = "SEND" /\ AtKoid(c)
          /\ req' = [req EXCEPT ![c] = NoReq]
      BY <1>3, HandledRequest DEF HandleSend
    <2>2. req[c].id \in Int
      BY <2>1, RequestTypes
    <2> QED
      BY <1>3, <2>1, <2>2, SameTimersFewer DEF HandleSend, HandlerSends, rtVars
  <1>4. CASE HandleRecv(i, c)
    <2>1. req[c] \in Requests /\ req[c].cmd = "RECV" /\ AtKoid(c)
          /\ req' = [req EXCEPT ![c] = NoReq] /\ cfd[c] = sock[i].handle
      BY <1>4, HandledRequest DEF HandleRecv
    <2>2. req[c].id \in Int /\ req[c].sec \in Nat
      BY <2>1, RequestTypes, RecvTimerAssumption
    <2>3. CASE kRecvTimerSet(sock[i].handle, req[c].id, req[c].sec) /\ UNCHANGED ans
      <3>1. sock[i].handle \in Fds \cup {BadFd}
        BY FieldTypes DEF SockInv, SockTypeOK, Alive
      <3>2. \A k \in DOMAIN rt' : \/ k \in DOMAIN rt /\ rt'[k] = rt[k]
                                  \/ k = Len(rt') /\ rt'[k].fd = sock[i].handle
        BY <2>2, <2>3, <3>1, RecvTimerSetEntries
      <3> QED
        BY <1>4, <2>1, <2>3, <3>2 DEF HandleRecv, HandlerWaits, Returns
    <2>4. CASE UNCHANGED rtVars /\ \E res \in {"OK", "NG"} : Tell(c, <<Answer("RECV", res)>>)
      BY <1>4, <2>1, <2>4, SameTimersFewer DEF HandleRecv, HandlerAnswers, Returns, rtVars
    <2> QED
      BY <1>4, <2>3, <2>4 DEF HandleRecv
  <1>5. CASE HandleClose(i, c)
    <2>1. req[c].cmd = "CLOSE" /\ AtKoid(c) /\ req' = [req EXCEPT ![c] = NoReq]
      BY <1>5, HandledRequest DEF HandleClose
    <2> QED
      BY <1>5, <2>1, SameTimersFewer DEF HandleClose, HandlerAnswers, Returns, rtVars
  <1>6. CASE HandleFlush(i, c)
    <2>1. req[c].cmd = "FLUSH" /\ AtKoid(c) /\ req' = [req EXCEPT ![c] = NoReq]
      BY <1>6, HandledRequest DEF HandleFlush
    <2> QED
      BY <1>6, <2>1, SameTimersFewer DEF HandleFlush, HandlerAnswers, Returns, rtVars
  <1> QED
    BY <1>1, <1>2, <1>3, <1>4, <1>5, <1>6

\* Every step is one of the cases.
LEMMA KoidLoopCases ==
  ASSUME SockInv, IdsGrow, LoopTypeOK, TimersOK, WithData \subseteq {FALSE}, OnlySends,
         [KoidNext]_koidVars
  PROVE  LoopCases
PROOF
  <1>0. ASSUME UNCHANGED loopVars, UNCHANGED rt PROVE LoopCases
    BY <1>0, SameTimersFewer DEF Rests, LoopCases
  <1>1. CASE RecvTimerDrops
    <2>1. PICK stops : AtEntry /\ Leave(stops)
      BY <1>1 DEF RecvTimerDrops, RecvInvalid
    <2>2. TimersFewer
      BY <2>1, LeaveTimersFewer DEF AtEntry
    <2> QED
      BY <1>1, <2>2 DEF RecvTimerDrops, Rests, LoopCases, envVars, loopVars
  <1>2. CASE RecvTimerExpires
    BY <1>2 DEF RecvTimerExpires, RecvTimedOut, AtEntry, TimerAnswers, LoopCases
  <1>3. CASE RecvTimerDelivers
    BY <1>3 DEF RecvTimerDelivers, RecvArrived, AtEntry, TimerAnswers, LoopCases
  <1>4. CASE CloseTimerBegins \/ CloseTimerFires \/ RecvTimerBegins \/ RecvTimerKeeps
             \/ RecvTimerEnds \/ SelectIdle \/ UNCHANGED koidVars
    BY <1>0, <1>4 DEF CloseTimerBegins, CloseTimerFires, RecvTimerBegins, RecvTimerKeeps,
       RecvTimerEnds, SelectIdle, RecvProcBegins, RecvStillWaiting, RecvProcEnds, rtVars,
       koidVars, envVars, loopVars
  <1>5. CASE kDispatcherProc
    <2>1. PICK j \in {kSocketGetSelectedHandle} \ {0} :
            \E i \in {kSocketGetSIBySocketHandle(sock[j].handle)} :
               \/ \E c \in Clients :
                    \/ AcceptClient(i, c) \/ ClientGone(i, c) \/ HandleConnect(i, c)
                    \/ HandleWait(i, c) \/ HandleSend(i, c) \/ HandleRecv(i, c)
                    \/ HandleClose(i, c) \/ HandleFlush(i, c)
               \/ HandleListenTcp(i) \/ HandleListenUdp(i) \/ HandleTcpMessage(i)
               \/ HandleTcpError(i) \/ HandleTcpEof(i) \/ HandleDatagram(i)
      BY <1>5 DEF kDispatcherProc
    <2> DEFINE i == kSocketGetSIBySocketHandle(sock[j].handle)
    <2>2. i \in Alive
      BY SelectedEntry
    <2>3. sending = NotSending
      BY <1>5 DEF kDispatcherProc
    <2> HIDE DEF i
    <2>4. ASSUME NEW c \in Clients, AcceptClient(i, c) \/ ClientGone(i, c)
          PROVE  LoopCases
      BY <2>3, <2>4 DEF LoopCases, ClientCases
    <2>5. ASSUME NEW c \in Clients,
                 \/ HandleConnect(i, c) \/ HandleWait(i, c) \/ HandleSend(i, c)
                 \/ HandleRecv(i, c) \/ HandleClose(i, c) \/ HandleFlush(i, c)
          PROVE  LoopCases
      BY <2>2, <2>3, <2>5, CommandCases DEF LoopCases, ClientCases
    <2>6. CASE \/ HandleListenTcp(i) \/ HandleListenUdp(i) \/ HandleTcpMessage(i)
               \/ HandleTcpError(i) \/ HandleTcpEof(i) \/ HandleDatagram(i)
      BY <1>0, <2>6 DEF HandleListenTcp, HandleListenUdp, HandleTcpMessage, HandleTcpError,
         HandleTcpEof, HandleDatagram, Returns, rtVars, envVars, loopVars
    <2> QED
      BY <2>1, <2>4, <2>5, <2>6 DEF i
  <1>6. CASE Sends
    <2>1. sending.cmd = "SEND"
      BY <1>6 DEF Sends, OnlySends
    <2>2. \E res \in {"OK", "NG"} : Tell(sending.c, <<Answer("SEND", res)>>)
      BY <1>6, <2>1 DEF Sends
    <2> QED
      BY <1>6, <2>1, <2>2, SameTimersFewer DEF Sends, SendAnswers, LoopCases, rtVars
  <1>7. CASE \E c \in Clients : \/ ClientConnects(c) \/ ClientLeaves(c)
                                \/ ClientRequests(c) \/ ClientReads(c)
    BY <1>7 DEF LoopCases, ClientCases
  <1>8. CASE \E i \in DOMAIN sock : \/ PeerSends(i) \/ PeerCloses(i)
                                    \/ PeerResets(i) \/ PeerConnects(i)
    BY <1>0, <1>8 DEF PeerSends, PeerCloses, PeerResets, PeerConnects, daemonVars, rtVars, loopVars
  <1>9. CASE Second
    <2>1. DOMAIN rt' = DOMAIN rt /\ \A k \in DOMAIN rt : rt'[k].fd = rt[k].fd
      <3>1. rt' = [k \in DOMAIN rt |-> [rt[k] EXCEPT !.left = IF @ > 0 THEN @ - 1 ELSE 0]]
        BY <1>9 DEF Second, RecvTick
      <3>2. rt \in Seq(TimerEntry)
        BY DEF TimersOK, TimerEntry
      <3>3. \A e \in TimerEntry :
              [e EXCEPT !.left = IF @ > 0 THEN @ - 1 ELSE 0].fd = e.fd
        BY DEF TimerEntry
      <3>4. \A k \in DOMAIN rt : rt[k] \in TimerEntry
        BY <3>2
      <3> QED
        BY <3>1, <3>3, <3>4
    <2>2. TimersFewer
      BY <2>1 DEF TimersFewer, OneTimerEach
    <2> QED
      BY <1>9, <2>2 DEF Second, Rests, LoopCases, envVars, loopVars
  <1> QED
    BY <1>1, <1>2, <1>3, <1>4, <1>5, <1>6, <1>7, <1>8, <1>9
    DEF KoidNext, Daemon, Timers, Environment

-----------------------------------------------------------------------------
(* One answer, to the request the client waits for *)

PlacesOK(c) == InOnePlace(c) /\ PlaceIsWaitedFor(c)

\* A client nothing happens to, except that its timer may go
LEMMA Untouched ==
  ASSUME NEW d \in Clients, PlacesOK(d), req'[d] = req[d], ans'[d] = ans[d], cst'[d] = cst[d],
         cfd'[d] = cfd[d], wait'[d] = wait[d],
         BeingSent(d)' => BeingSent(d) /\ sending' = sending,
         \A k \in DOMAIN rt' : rt'[k].fd = cfd[d] => \E m \in DOMAIN rt : rt[m].fd = cfd[d]
  PROVE  PlacesOK(d)'
PROOF
  <1>1. InTimer(d)' => InTimer(d)
    BY DEF InTimer
  <1>2. (AtKoid(d)' <=> AtKoid(d)) /\ (IsAnswered(d)' <=> IsAnswered(d))
    BY DEF AtKoid, IsAnswered
  <1>3. InOnePlace(d)'
    BY <1>1, <1>2 DEF PlacesOK, InOnePlace
  <1>4. PlaceIsWaitedFor(d)'
    BY <1>1, <1>2 DEF PlacesOK, PlaceIsWaitedFor
  <1> QED
    BY <1>3, <1>4 DEF PlacesOK

\* A client that asks nothing, and may have been answered
LEMMA Settled ==
  ASSUME NEW d \in Clients, ~AtKoid(d)', ~BeingSent(d)', ~InTimer(d)',
         \/ ans'[d] = <<>>
         \/ cst'[d] = "in" /\ \E a : ans'[d] = <<a>> /\ a.cmd = wait'[d],
         cst'[d] # "in" => wait'[d] = "none"
  PROVE  PlacesOK(d)'
PROOF
  <1>1. Len(ans'[d]) <= 1 /\ (IsAnswered(d)' => cst'[d] = "in")
        /\ \A k \in DOMAIN ans'[d] : ans'[d][k].cmd = wait'[d]
    <2>1. CASE ans'[d] = <<>>
      BY <2>1 DEF IsAnswered
    <2>2. ASSUME cst'[d] = "in", NEW a, ans'[d] = <<a>>, a.cmd = wait'[d]
          PROVE  /\ Len(ans'[d]) <= 1
                 /\ \A k \in DOMAIN ans'[d] : ans'[d][k].cmd = wait'[d]
      <3>1. Len(<<a>>) = 1 /\ DOMAIN <<a>> = {1} /\ <<a>>[1] = a
        OBVIOUS
      <3> QED
        BY <2>2, <3>1
    <2> QED
      BY <2>1, <2>2
  <1> QED
    BY <1>1 DEF PlacesOK, InOnePlace, PlaceIsWaitedFor

\* The clients of timers have descriptors.
LEMMA TimerFds ==
  ASSUME ClientInv
  PROVE  \A k \in DOMAIN rt : rt[k].fd \in openFds /\ rt[k].fd # BadFd
PROOF
  BY DEF ClientInv, TimersHaveClients, ClientFds, TableInv, ChildInv, SockInv, AliveAreServed

\* A client without an answer is told one.
LEMMA TellOne ==
  ASSUME LoopTypeOK, NEW c \in Clients, ans[c] = <<>>, NEW a, Tell(c, <<a>>)
  PROVE  /\ ans'[c] = IF cst[c] = "in" THEN <<a>> ELSE <<>>
         /\ \A d \in Clients \ {c} : ans'[d] = ans[d]
PROOF
  BY DEF LoopTypeOK, Tell

\* Who is at koid, being sent or in a timer is nowhere else.
LEMMA Elsewhere ==
  ASSUME NEW c \in Clients, PlacesOK(c), LoopTypeOK
  PROVE  /\ AtKoid(c) => /\ ~BeingSent(c) /\ ~InTimer(c) /\ ans[c] = <<>>
                         /\ cst[c] = "in" => req[c].cmd = wait[c]
                         /\ cst[c] # "in" => wait[c] = "none"
         /\ BeingSent(c) => /\ ~AtKoid(c) /\ ~InTimer(c) /\ ans[c] = <<>>
                            /\ cst[c] = "in" => sending.cmd = wait[c]
                            /\ cst[c] # "in" => wait[c] = "none"
         /\ InTimer(c) => /\ ~AtKoid(c) /\ ~BeingSent(c) /\ ans[c] = <<>>
                          /\ cst[c] = "in" => wait[c] = "RECV"
                          /\ cst[c] # "in" => wait[c] = "none"
         /\ ans[c] # <<>> => ~AtKoid(c) /\ ~BeingSent(c) /\ ~InTimer(c) /\ Len(ans[c]) = 1
PROOF
  <1>1. ans[c] # <<>> => Len(ans[c]) = 1
    <2>1. ans[c] \in Seq(Answers) /\ Len(ans[c]) \in Nat /\ Len(ans[c]) <= 1
      BY DEF LoopTypeOK, PlacesOK, InOnePlace
    <2>2. Len(ans[c]) = 0 => ans[c] = <<>>
      BY <2>1
    <2>3. \A n \in Nat : n <= 1 => n = 0 \/ n = 1
      OBVIOUS
    <2>4. Len(ans[c]) = 0 \/ Len(ans[c]) = 1
      BY <2>1, <2>3
    <2> QED
      BY <2>2, <2>4
  <1>2. InOnePlace(c) /\ PlaceIsWaitedFor(c)
    BY DEF PlacesOK
  <1>3. ans[c] # <<>> => ~AtKoid(c) /\ ~BeingSent(c) /\ ~InTimer(c)
    BY <1>2 DEF InOnePlace, IsAnswered
  <1>4. AtKoid(c) => ~BeingSent(c) /\ ~InTimer(c)
    BY <1>2 DEF InOnePlace
  <1>5. BeingSent(c) => ~AtKoid(c) /\ ~InTimer(c)
    BY <1>2 DEF InOnePlace
  <1>6. /\ cst[c] # "in" => wait[c] = "none"
        /\ cst[c] = "in" => /\ (AtKoid(c) => req[c].cmd = wait[c])
                           /\ (BeingSent(c) => sending.cmd = wait[c])
                           /\ (InTimer(c) => wait[c] = "RECV")
    BY <1>2 DEF PlaceIsWaitedFor
  <1> QED
    BY <1>1, <1>3, <1>4, <1>5, <1>6

\* kRecvTimerProc answers the client of the timer that leaves.
LEMMA TimerAnswersStep ==
  ASSUME ClientInv, AnswerInv, TimerAnswers
  PROVE  AnswerInv'
PROOF
  <1>0. LoopTypeOK /\ TimersOK /\ OneTimerEach
    BY DEF ClientInv, TableInv, AnswerInv
  <1>1. PICK res \in {"OK", "TIMEOUT"} : TellFd(rt[rtPos].fd, Answer("RECV", res))
    BY DEF TimerAnswers
  <1>2. TimersFewer /\ \A k \in DOMAIN rt' : rt'[k].fd # rt[rtPos].fd
    BY <1>0, LeaveTimersFewer DEF TimerAnswers
  <1>3. ASSUME NEW d \in Clients
        PROVE  PlacesOK(d)'
    <2>0. PlacesOK(d)
      BY DEF AnswerInv, PlacesOK
    <2>1. CASE cfd[d] = rt[rtPos].fd
      <3>1. InTimer(d)
        BY <2>1 DEF InTimer, TimerAnswers
      <3>2. ~AtKoid(d)' /\ ~BeingSent(d)' /\ ans[d] = <<>>
            /\ (cst[d] = "in" => wait[d] = "RECV") /\ (cst[d] # "in" => wait[d] = "none")
        BY <1>0, <2>0, <3>1, Elsewhere DEF TimerAnswers, AtKoid, BeingSent
      <3>3. ~InTimer(d)'
        BY <1>2, <2>1 DEF InTimer, TimerAnswers
      <3>4. ans'[d] = IF cst[d] = "in" THEN <<Answer("RECV", res)>> ELSE <<>>
        <4>1. ans'[d] = IF cst[d] = "in" THEN Append(ans[d], Answer("RECV", res)) ELSE ans[d]
          BY <1>1, <2>1 DEF TellFd
        <4>2. Append(<<>>, Answer("RECV", res)) = <<Answer("RECV", res)>>
          OBVIOUS
        <4> QED
          BY <3>2, <4>1, <4>2
      <3> QED
        BY <3>2, <3>3, <3>4, Settled DEF TimerAnswers, Answer
    <2>2. CASE cfd[d] # rt[rtPos].fd
      <3>1. ans'[d] = ans[d]
        BY <1>1, <2>2 DEF TellFd
      <3> QED
        BY <1>2, <2>0, <3>1, Untouched DEF TimerAnswers, TimersFewer, BeingSent
    <2> QED
      BY <2>1, <2>2
  <1>4. OnlySends'
    BY DEF TimerAnswers, AnswerInv, OnlySends
  <1> QED
    BY <1>0, <1>2, <1>3, <1>4 DEF AnswerInv, PlacesOK, TimersFewer

\* kSocketSend is answered.
LEMMA SendAnswersStep ==
  ASSUME ClientInv, AnswerInv, SendAnswers
  PROVE  AnswerInv'
PROOF
  <1>0. LoopTypeOK /\ OneTimerEach /\ TimersFewer
    BY DEF ClientInv, TableInv, AnswerInv, SendAnswers
  <1>1. PICK c \in Clients : c = sending.c /\ BeingSent(c)
    BY <1>0 DEF LoopTypeOK, Sendings, SendAnswers, BeingSent
  <1>2. PICK res \in {"OK", "NG"} : Tell(c, <<Answer(sending.cmd, res)>>)
    BY <1>1 DEF SendAnswers
  <1>3. PlacesOK(c)
    BY <1>1 DEF AnswerInv, PlacesOK
  <1>4. ~AtKoid(c) /\ ~InTimer(c) /\ ans[c] = <<>> /\ (cst[c] = "in" => sending.cmd = wait[c])
        /\ (cst[c] # "in" => wait[c] = "none")
    BY <1>0, <1>1, <1>3, Elsewhere
  <1>5. /\ ans'[c] = IF cst[c] = "in" THEN <<Answer(sending.cmd, res)>> ELSE <<>>
        /\ \A d \in Clients \ {c} : ans'[d] = ans[d]
    BY <1>0, <1>1, <1>2, <1>4, TellOne
  <1>6. \A d \in Clients : ~BeingSent(d)'
    BY DEF SendAnswers, BeingSent
  <1>7. PlacesOK(c)'
    <2>1. /\ cst'[c] = cst[c] /\ cfd'[c] = cfd[c] /\ req'[c] = req[c] /\ wait'[c] = wait[c]
      BY DEF SendAnswers
    <2>2. ~InTimer(c)' /\ ~AtKoid(c)'
      BY <1>0, <1>4, <2>1 DEF TimersFewer, InTimer, AtKoid
    <2>3. Answer(sending.cmd, res).cmd = sending.cmd
      BY DEF Answer
    <2> QED
      BY <1>1, <1>4, <1>5, <1>6, <2>1, <2>2, <2>3, Settled
  <1>8. ASSUME NEW d \in Clients \ {c}
        PROVE  PlacesOK(d)'
    <2>1. PlacesOK(d)
      BY DEF AnswerInv, PlacesOK
    <2> QED
      BY <1>0, <1>5, <1>6, <2>1, Untouched DEF SendAnswers, TimersFewer
  <1>9. OnlySends' /\ OneTimerEach'
    BY <1>0 DEF SendAnswers, OnlySends, TimersFewer
  <1>10. \A d \in Clients : PlacesOK(d)'
    BY <1>7, <1>8
  <1> QED
    BY <1>9, <1>10 DEF AnswerInv, PlacesOK

\* The others are not touched by what one client or its handler does.
LEMMA OthersOK ==
  ASSUME AnswerInv, NEW c \in Clients, TimersFewer,
         \A d \in Clients \ {c} : /\ req'[d] = req[d] /\ ans'[d] = ans[d] /\ cst'[d] = cst[d]
                                  /\ cfd'[d] = cfd[d] /\ wait'[d] = wait[d],
         \/ sending' \in {sending, NotSending}
         \/ sending = NotSending /\ sending'.c = c
  PROVE  \A d \in Clients \ {c} : PlacesOK(d)'
PROOF
  <1> SUFFICES ASSUME NEW d \in Clients \ {c} PROVE PlacesOK(d)'
    OBVIOUS
  <1>1. PlacesOK(d)
    BY DEF AnswerInv, PlacesOK
  <1>2. BeingSent(d)' => BeingSent(d) /\ sending' = sending
    BY DEF BeingSent
  <1> QED
    BY <1>1, <1>2, Untouched DEF TimersFewer

\* A handler answers its client.
LEMMA HandlerAnswersStep ==
  ASSUME ClientInv, AnswerInv, NEW c \in Clients, HandlerAnswers(c)
  PROVE  AnswerInv'
PROOF
  <1>0. LoopTypeOK /\ OneTimerEach /\ TimersFewer /\ PlacesOK(c)
    BY DEF ClientInv, TableInv, AnswerInv, HandlerAnswers, PlacesOK
  <1>1. PICK res \in {"OK", "NG"} : Tell(c, <<Answer(req[c].cmd, res)>>)
    BY DEF HandlerAnswers
  <1>2. /\ ~BeingSent(c) /\ ~InTimer(c) /\ ans[c] = <<>>
        /\ cst[c] = "in" => req[c].cmd = wait[c]
        /\ cst[c] # "in" => wait[c] = "none"
    BY <1>0, Elsewhere DEF HandlerAnswers
  <1>3. /\ ans'[c] = IF cst[c] = "in" THEN <<Answer(req[c].cmd, res)>> ELSE <<>>
        /\ \A d \in Clients \ {c} : ans'[d] = ans[d]
    BY <1>0, <1>1, <1>2, TellOne
  <1>4. /\ req'[c] = NoReq /\ \A d \in Clients \ {c} : req'[d] = req[d]
        /\ UNCHANGED <<cst, cfd, wait, sending>>
    BY <1>0 DEF HandlerAnswers, LoopTypeOK
  <1>5. PlacesOK(c)'
    <2>1. ~AtKoid(c)' /\ ~BeingSent(c)'
      BY <1>2, <1>4 DEF AtKoid, BeingSent
    <2>2. ~InTimer(c)'
      BY <1>0, <1>2, <1>4 DEF TimersFewer, InTimer
    <2>3. Answer(req[c].cmd, res).cmd = req[c].cmd
      BY DEF Answer
    <2> QED
      BY <1>2, <1>3, <1>4, <2>1, <2>2, <2>3, Settled
  <1>6. \A d \in Clients \ {c} : PlacesOK(d)'
    BY <1>0, <1>3, <1>4, OthersOK
  <1>7. OnlySends' /\ OneTimerEach'
    BY <1>0, <1>4 DEF AnswerInv, OnlySends, TimersFewer
  <1> QED
    BY <1>5, <1>6, <1>7 DEF AnswerInv, PlacesOK

\* A handler hands a request to kSocketSend.
LEMMA HandlerSendsStep ==
  ASSUME ClientInv, AnswerInv, NEW c \in Clients, HandlerSends(c)
  PROVE  AnswerInv'
PROOF
  <1>0. LoopTypeOK /\ OneTimerEach /\ TimersFewer /\ PlacesOK(c)
    BY DEF ClientInv, TableInv, AnswerInv, HandlerSends, PlacesOK
  <1>2. /\ ~InTimer(c) /\ ans[c] = <<>>
        /\ cst[c] = "in" => req[c].cmd = wait[c]
        /\ cst[c] # "in" => wait[c] = "none"
        /\ cst[c] \notin {"out", "connecting"}
    BY <1>0, Elsewhere DEF HandlerSends, PlacesOK, PlaceIsWaitedFor
  <1>3. /\ req'[c] = NoReq /\ \A d \in Clients \ {c} : req'[d] = req[d]
        /\ UNCHANGED <<cst, cfd, wait, ans>>
    BY <1>0 DEF HandlerSends, LoopTypeOK
  <1>4. sending' # NotSending /\ sending'.c = c /\ sending'.cmd = "SEND" /\ sending = NotSending
    BY DEF HandlerSends, NotSending
  <1>5. PlacesOK(c)'
    <2>1. ~AtKoid(c)'
      BY <1>3 DEF AtKoid
    <2>2. ~InTimer(c)'
      BY <1>0, <1>2, <1>3 DEF TimersFewer, InTimer
    <2>3. ~IsAnswered(c)' /\ Len(ans'[c]) <= 1 /\ DOMAIN ans'[c] = {}
      BY <1>2, <1>3 DEF IsAnswered
    <2>4. InOnePlace(c)'
      BY <2>1, <2>2, <2>3 DEF InOnePlace
    <2>5. cst[c] = "in" => sending'.cmd = wait'[c]
      BY <1>2, <1>3, <1>4 DEF HandlerSends
    <2>6. PlaceIsWaitedFor(c)'
      BY <1>2, <1>3, <2>1, <2>2, <2>3, <2>5 DEF PlaceIsWaitedFor
    <2> QED
      BY <2>4, <2>6 DEF PlacesOK
  <1>6. \A d \in Clients \ {c} : PlacesOK(d)'
    BY <1>0, <1>3, <1>4, OthersOK
  <1>7. OnlySends' /\ OneTimerEach'
    BY <1>0, <1>4 DEF OnlySends, TimersFewer
  <1> QED
    BY <1>5, <1>6, <1>7 DEF AnswerInv, PlacesOK

\* A handler makes a request a timer.
LEMMA HandlerWaitsStep ==
  ASSUME ClientInv, AnswerInv, NEW c \in Clients, HandlerWaits(c)
  PROVE  AnswerInv'
PROOF
  <1>0. LoopTypeOK /\ OneTimerEach /\ PlacesOK(c)
    BY DEF ClientInv, TableInv, AnswerInv, PlacesOK
  <1>1. \A k \in DOMAIN rt' : \/ k \in DOMAIN rt /\ rt'[k] = rt[k]
                              \/ k = Len(rt') /\ rt'[k].fd = cfd[c]
    BY DEF HandlerWaits
  <1>2. /\ ~BeingSent(c) /\ ~InTimer(c) /\ ans[c] = <<>>
        /\ cst[c] = "in" => req[c].cmd = wait[c]
        /\ cst[c] # "in" => wait[c] = "none"
        /\ cst[c] \notin {"out", "connecting"}
    BY <1>0, Elsewhere DEF HandlerWaits, PlacesOK, PlaceIsWaitedFor
  <1>3. /\ req'[c] = NoReq /\ \A d \in Clients \ {c} : req'[d] = req[d]
        /\ UNCHANGED <<cst, cfd, wait, ans, sending>>
    BY <1>0 DEF HandlerWaits, LoopTypeOK
  <1>4. cfd[c] # BadFd /\ \A d \in Clients \ {c} : cfd[d] # cfd[c]
    BY <1>0, <1>2 DEF ClientInv, ClientFds, LoopTypeOK
  <1>5. PlacesOK(c)'
    <2>1. ~AtKoid(c)' /\ ~BeingSent(c)'
      BY <1>2, <1>3 DEF AtKoid, BeingSent
    <2>2. ~IsAnswered(c)' /\ Len(ans'[c]) <= 1 /\ DOMAIN ans'[c] = {}
      BY <1>2, <1>3 DEF IsAnswered
    <2>3. InOnePlace(c)'
      BY <2>1, <2>2 DEF InOnePlace
    <2>4. cst[c] = "in" => wait'[c] = "RECV"
      BY <1>2, <1>3 DEF HandlerWaits
    <2>5. PlaceIsWaitedFor(c)'
      BY <1>2, <1>3, <2>1, <2>2, <2>4 DEF PlaceIsWaitedFor
    <2> QED
      BY <2>3, <2>5 DEF PlacesOK
  <1>6. ASSUME NEW d \in Clients \ {c}
        PROVE  PlacesOK(d)'
    <2>1. PlacesOK(d)
      BY DEF AnswerInv, PlacesOK
    <2>2. \A k \in DOMAIN rt' : rt'[k].fd = cfd[d] => \E m \in DOMAIN rt : rt[m].fd = cfd[d]
      BY <1>1, <1>4
    <2> QED
      BY <1>3, <2>1, <2>2, Untouched DEF BeingSent
  <1>7. OneTimerEach'
    <2>1. \A k \in DOMAIN rt : rt[k].fd # cfd[c]
      BY <1>2 DEF InTimer
    <2> QED
      BY <1>0, <1>1, <2>1 DEF OneTimerEach
  <1>8. OnlySends'
    BY <1>3 DEF AnswerInv, OnlySends
  <1> QED
    BY <1>5, <1>6, <1>7, <1>8 DEF AnswerInv, PlacesOK

\* Nothing happens but that timers leave.
LEMMA RestsStep ==
  ASSUME AnswerInv, Rests
  PROVE  AnswerInv'
PROOF
  <1>1. ASSUME NEW d \in Clients PROVE PlacesOK(d)'
    <2>1. PlacesOK(d)
      BY DEF AnswerInv, PlacesOK
    <2> QED
      BY <2>1, Untouched DEF Rests, loopVars, TimersFewer, BeingSent
  <1>2. OnlySends' /\ OneTimerEach'
    BY DEF AnswerInv, Rests, loopVars, OnlySends, TimersFewer
  <1> QED
    BY <1>1, <1>2 DEF AnswerInv, PlacesOK

\* A client connects, leaves, asks or reads.
LEMMA ClientActsStep ==
  ASSUME ClientInv, AnswerInv, NEW c \in Clients,
         ClientConnects(c) \/ ClientLeaves(c) \/ ClientRequests(c) \/ ClientReads(c)
  PROVE  AnswerInv'
PROOF
  <1>0. LoopTypeOK /\ OneTimerEach /\ PlacesOK(c) /\ SockInv
    BY DEF ClientInv, TableInv, ChildInv, AnswerInv, PlacesOK
  <1>1. InSelect /\ UNCHANGED <<rt, cfd, sending>>
    BY DEF ClientConnects, ClientLeaves, ClientRequests, ClientReads, daemonVars, rtVars
  <1>2. sending = NotSending /\ TimersFewer
    BY <1>1, SameTimersFewer DEF InSelect
  <1>3. ~BeingSent(c)' /\ (InTimer(c)' <=> InTimer(c))
    BY <1>1, <1>2 DEF BeingSent, InTimer
  <1>4. \A d \in Clients \ {c} : /\ req'[d] = req[d] /\ ans'[d] = ans[d] /\ cst'[d] = cst[d]
                                 /\ cfd'[d] = cfd[d] /\ wait'[d] = wait[d]
    BY <1>0, <1>1 DEF ClientConnects, ClientLeaves, ClientRequests, ClientReads, LoopTypeOK
  <1>5. ASSUME ClientConnects(c) PROVE PlacesOK(c)'
    <2>1. cst[c] = "out" /\ cst'[c] = "connecting" /\ UNCHANGED <<req, wait, ans>>
      BY <1>0, <1>5 DEF ClientConnects, LoopTypeOK
    <2>2. ~AtKoid(c) /\ ~IsAnswered(c) /\ wait[c] = "none" /\ cfd[c] = BadFd
      BY <1>0, <2>1 DEF PlacesOK, PlaceIsWaitedFor, ClientInv, ClientFds
    <2>3. ~InTimer(c)
      BY <2>2, TimerFds DEF InTimer
    <2> QED
      BY <1>3, <2>1, <2>2, <2>3, Settled DEF AtKoid, IsAnswered
  <1>6. ASSUME ClientLeaves(c) PROVE PlacesOK(c)'
    <2>1. cst[c] = "in" /\ cst'[c] = "gone" /\ wait'[c] = "none" /\ ans'[c] = <<>>
          /\ UNCHANGED req
      BY <1>0, <1>6 DEF ClientLeaves, LoopTypeOK
    <2>2. ~IsAnswered(c)' /\ Len(ans'[c]) <= 1 /\ (AtKoid(c)' <=> AtKoid(c))
      BY <2>1 DEF IsAnswered, AtKoid
    <2>3. InOnePlace(c)'
      BY <1>0, <1>3, <2>2 DEF PlacesOK, InOnePlace
    <2>4. PlaceIsWaitedFor(c)'
      BY <2>1, <2>2 DEF PlaceIsWaitedFor
    <2> QED
      BY <2>3, <2>4 DEF PlacesOK
  <1>7. ASSUME ClientRequests(c) PROVE PlacesOK(c)'
    <2>1. cst[c] = "in" /\ wait[c] = "none" /\ UNCHANGED <<cst, ans>>
      BY <1>7 DEF ClientRequests
    <2>9. PICK cmd \in Commands :
            \E r \in RequestsOf(cmd) : /\ req' = [req EXCEPT ![c] = r]
                                       /\ wait' = [wait EXCEPT ![c] = cmd]
      BY <1>7 DEF ClientRequests
    <2>2. PICK r \in RequestsOf(cmd) :
            req' = [req EXCEPT ![c] = r] /\ wait' = [wait EXCEPT ![c] = cmd]
      BY <2>9
    <2>3. r.cmd = cmd /\ req'[c] = r /\ wait'[c] = cmd
      BY <1>0, <2>2, RequestsOfType DEF LoopTypeOK
    <2>4. ~InTimer(c) /\ ans[c] = <<>>
      <3>1. PlaceIsWaitedFor(c) /\ ans[c] \in Seq(Answers)
        BY <1>0 DEF PlacesOK, LoopTypeOK
      <3>2. ~InTimer(c) /\ \A k \in DOMAIN ans[c] : ans[c][k].cmd = "none"
        BY <2>1, <3>1 DEF PlaceIsWaitedFor
      <3>3. \A a \in Answers : a.cmd # "none"
        BY DEF Answers, Names
      <3>4. ~(1 \in DOMAIN ans[c])
        BY <3>1, <3>2, <3>3
      <3> QED
        BY <3>1, <3>2, <3>4
    <2>5. InOnePlace(c)'
      BY <1>3, <2>1, <2>4 DEF InOnePlace, IsAnswered
    <2>6. PlaceIsWaitedFor(c)'
      BY <1>3, <2>1, <2>3, <2>4 DEF PlaceIsWaitedFor, AtKoid
    <2> QED
      BY <2>5, <2>6 DEF PlacesOK
  <1>8. ASSUME ClientReads(c) PROVE PlacesOK(c)'
    <2>1. cst[c] = "in" /\ ans[c] # <<>> /\ wait'[c] = "none" /\ ans'[c] = Tail(ans[c])
          /\ UNCHANGED <<cst, req>>
      BY <1>0, <1>8 DEF ClientReads, LoopTypeOK
    <2>2. ~AtKoid(c) /\ ~InTimer(c) /\ Len(ans[c]) = 1
      BY <1>0, <2>1, Elsewhere
    <2>3. ans'[c] = <<>>
      <3>1. ans[c] \in Seq(Answers)
        BY <1>0 DEF LoopTypeOK
      <3>2. Tail(ans[c]) \in Seq(Answers) /\ Len(Tail(ans[c])) = 0
        BY <2>1, <2>2, <3>1, HeadTailProperties
      <3> QED
        BY <2>1, <3>2, EmptySeq
    <2> QED
      BY <1>3, <2>1, <2>2, <2>3, Settled DEF AtKoid
  <1>9. PlacesOK(c)'
    BY <1>5, <1>6, <1>7, <1>8
  <1>10. \A d \in Clients \ {c} : PlacesOK(d)'
    BY <1>1, <1>2, <1>4, OthersOK
  <1>11. OnlySends' /\ OneTimerEach'
    BY <1>0, <1>1, <1>2 DEF OnlySends, TimersFewer
  <1> QED
    BY <1>9, <1>10, <1>11 DEF AnswerInv, PlacesOK

\* koid accepts a client, or finds that one has gone.
LEMMA ClientComesStep ==
  ASSUME ClientInv, SockInv', AnswerInv, sending = NotSending,
         NEW i, NEW c \in Clients, AcceptClient(i, c) \/ ClientGone(i, c)
  PROVE  AnswerInv'
PROOF
  <1>0. LoopTypeOK /\ OneTimerEach /\ PlacesOK(c) /\ SockInv /\ IdsGrow
    BY DEF ClientInv, TableInv, ChildInv, AnswerInv, PlacesOK
  <1>1. UNCHANGED <<req, wait, ans, sending>>
    BY DEF AcceptClient, ClientGone, Returns
  <1>2. \A d \in Clients \ {c} : cst'[d] = cst[d] /\ cfd'[d] = cfd[d]
    BY <1>0 DEF AcceptClient, ClientGone, LoopTypeOK
  <1>3. ~BeingSent(c)'
    BY <1>1 DEF BeingSent
  <1>4. ASSUME AcceptClient(i, c) PROVE PlacesOK(c)' /\ TimersFewer
    <2>1. cst[c] = "connecting" /\ cst'[c] = "in" /\ cfd'[c] = NewFd /\ UNCHANGED rt
      BY <1>0, <1>4 DEF AcceptClient, LoopTypeOK, rtVars
    <2>2. NewFd \notin openFds
      BY <1>0, <1>4, AcceptEffect
    <2>3. ~AtKoid(c) /\ ans[c] = <<>>
      BY <1>0, <2>1 DEF PlacesOK, PlaceIsWaitedFor, IsAnswered
    <2>4. ~InTimer(c)'
      BY <2>1, <2>2, TimerFds DEF InTimer
    <2>5. TimersFewer
      BY <2>1, SameTimersFewer
    <2>6. PlacesOK(c)'
      BY <1>1, <1>3, <2>1, <2>3, <2>4, Settled DEF AtKoid
    <2> QED
      BY <2>5, <2>6
  <1>5. ASSUME ClientGone(i, c) PROVE PlacesOK(c)' /\ TimersFewer
    <2>1. cst[c] = "gone" /\ cst'[c] = "out" /\ req[c] = NoReq /\ rt' = <<>>
      BY <1>0, <1>5 DEF ClientGone, LoopTypeOK, kRecvTimerInit
    <2>2. ~AtKoid(c)' /\ ans[c] = <<>> /\ wait[c] = "none" /\ ~InTimer(c)'
      BY <1>0, <1>1, <2>1
      DEF PlacesOK, PlaceIsWaitedFor, IsAnswered, AtKoid, InTimer
    <2>3. TimersFewer
      BY <2>1 DEF TimersFewer, OneTimerEach
    <2>4. PlacesOK(c)'
      BY <1>1, <1>3, <2>1, <2>2, Settled
    <2> QED
      BY <2>3, <2>4
  <1>6. PlacesOK(c)' /\ TimersFewer
    BY <1>4, <1>5
  <1>7. \A d \in Clients \ {c} : PlacesOK(d)'
    BY <1>1, <1>2, <1>6, OthersOK
  <1>8. OnlySends' /\ OneTimerEach'
    BY <1>0, <1>1, <1>6 DEF OnlySends, TimersFewer
  <1> QED
    BY <1>6, <1>7, <1>8 DEF AnswerInv, PlacesOK

\* Every step keeps the request of a client in one place.
LEMMA AnswerStep ==
  ASSUME WithData \subseteq {FALSE}
  PROVE  ClientInv /\ SockInv' /\ AnswerInv /\ [KoidNext]_koidVars => AnswerInv'
PROOF
  <1> SUFFICES ASSUME ClientInv, SockInv', AnswerInv, [KoidNext]_koidVars PROVE AnswerInv'
    OBVIOUS
  <1>1. LoopCases
    BY KoidLoopCases DEF ClientInv, TableInv, ChildInv, AnswerInv
  <1>3. CASE \E c \in Clients : HandlerAnswers(c) \/ HandlerWaits(c) \/ HandlerSends(c)
    BY <1>3, HandlerAnswersStep, HandlerWaitsStep, HandlerSendsStep
  <1>4. CASE \E c \in Clients : ClientConnects(c) \/ ClientLeaves(c) \/ ClientRequests(c)
                                \/ ClientReads(c)
    BY <1>4, ClientActsStep
  <1>5. CASE sending = NotSending /\ \E c \in Clients : \E i : AcceptClient(i, c) \/ ClientGone(i, c)
    BY <1>5, ClientComesStep
  <1> QED
    BY <1>1, <1>3, <1>4, <1>5, RestsStep, TimerAnswersStep, SendAnswersStep
    DEF LoopCases, ClientCases

LEMMA AnswerInit == KoidInit => AnswerInv
PROOF
  <1> SUFFICES ASSUME KoidInit PROVE AnswerInv
    OBVIOUS
  <1>1. rt = <<>> /\ sending = NotSending
    BY DEF KoidInit, RTInit
  <1>2. ASSUME NEW c \in Clients PROVE InOnePlace(c) /\ PlaceIsWaitedFor(c)
    <2>1. ans[c] = <<>> /\ req[c] = NoReq /\ cst[c] = "out" /\ wait[c] = "none"
      BY DEF KoidInit
    <2> QED
      BY <1>1, <2>1 DEF InOnePlace, PlaceIsWaitedFor, AtKoid, BeingSent, InTimer, IsAnswered
  <1> QED
    BY <1>1, <1>2 DEF AnswerInv, OneTimerEach, OnlySends

LEMMA AnswerInvariance ==
  ASSUME StraysNameNone, WithData \subseteq {FALSE}
  PROVE  KoidSpec /\ [](sockId > 0) => []AnswerInv
PROOF
  <1>1. ClientInv /\ SockInv' /\ AnswerInv /\ [KoidNext]_koidVars => AnswerInv'
    BY AnswerStep
  <1>2. KoidInit => AnswerInv
    BY AnswerInit
  <1> QED
    BY <1>1, <1>2, ClientInvariance, KoidSockets, PTL DEF KoidSpec

\* A client never has a second answer to a request: neither a handler and a timer, nor two
\* timers, nor an answer to the client that had its descriptor before.  A CONNECT that
\* carries data is left out: koid answers it twice when the send fails.
THEOREM OneAnswerPerRequestHolds ==
  ASSUME StraysNameNone, WithData \subseteq {FALSE}
  PROVE  KoidSpec /\ [](sockId > 0) => []OneAnswerPerRequest
PROOF
  <1>1. LoopTypeOK /\ AnswerInv => OneAnswerPerRequest
    <2> SUFFICES ASSUME LoopTypeOK, AnswerInv, NEW c \in Clients
                 PROVE  Len(ans[c]) <= IF wait[c] = "none" THEN 0 ELSE 1
      BY DEF OneAnswerPerRequest
    <2>1. Len(ans[c]) <= 1 /\ ans[c] \in Seq(Answers) /\ PlaceIsWaitedFor(c)
      BY DEF AnswerInv, InOnePlace, LoopTypeOK
    <2>2. ASSUME wait[c] = "none" PROVE ans[c] = <<>>
      <3>1. ans[c] # <<>> => \A k \in DOMAIN ans[c] : ans[c][k].cmd = "none"
        BY <2>1, <2>2 DEF PlaceIsWaitedFor, IsAnswered
      <3>2. \A a \in Answers : a.cmd # "none"
        BY DEF Answers, Names
      <3>3. ans[c] # <<>> => 1 \in DOMAIN ans[c] /\ ans[c][1] \in Answers
        BY <2>1
      <3> QED
        BY <3>1, <3>2, <3>3
    <2> QED
      BY <2>1, <2>2
  <1> QED
    BY <1>1, AnswerInvariance, KoidSockets, PTL

\* The answer a client finds is to the request it waits for.
THEOREM AnswerMatchesRequestHolds ==
  ASSUME StraysNameNone, WithData \subseteq {FALSE}
  PROVE  KoidSpec /\ [](sockId > 0) => []AnswerMatchesRequest
PROOF
  <1>1. AnswerInv => AnswerMatchesRequest
    <2> SUFFICES ASSUME AnswerInv, NEW c \in Clients, NEW k \in DOMAIN ans[c]
                 PROVE  wait[c] \in {"none", ans[c][k].cmd}
      BY DEF AnswerMatchesRequest
    <2>1. PlaceIsWaitedFor(c)
      BY DEF AnswerInv
    <2>2. ans[c] # <<>>
      OBVIOUS
    <2> QED
      BY <2>1, <2>2 DEF PlaceIsWaitedFor, IsAnswered
  <1> QED
    BY <1>1, AnswerInvariance, PTL

-----------------------------------------------------------------------------
(* The queues of messages not yet answered *)

Messages == [dataid : Int, sid : Int, mode : {"SEND", "RECV"}, read : BOOLEAN, body : Int]

\* Message k of ms waits for a RECV request on socket s.
WaitsOn(ms, k, s) == ms[k].mode = "RECV" /\ ~ms[k].read /\ ms[k].sid = s

\* What the queue of a socket is, message by message
LEMMA UnreadIs ==
  ASSUME NEW ms, Len(ms) \in Nat, NEW s
  PROVE  /\ UnreadUpTo(ms, s)[0] = <<>>
         /\ \A k \in 1..Len(ms) :
              UnreadUpTo(ms, s)[k] = IF WaitsOn(ms, k, s)
                                       THEN Append(UnreadUpTo(ms, s)[k - 1], ms[k].body)
                                       ELSE UnreadUpTo(ms, s)[k - 1]
PROOF
  <1> DEFINE Next1(q, k) == IF WaitsOn(ms, k, s) THEN Append(q, ms[k].body) ELSE q
             Is(h, n) == h = [k \in 0..n |-> IF k = 0 THEN <<>> ELSE Next1(h[k - 1], k)]
             G == {n \in Nat : \E h : Is(h, n)}
  <1>1. 0 \in G
    <2>1. Is([k \in 0..0 |-> <<>>], 0)
      OBVIOUS
    <2> QED
      BY <2>1
  <1>2. ASSUME NEW n \in Nat, n \in G PROVE n + 1 \in G
    <2> HIDE DEF Next1
    <2>1. PICK h : Is(h, n)
      BY <1>2
    <2> DEFINE g == [k \in 0..n + 1 |-> IF k <= n THEN h[k] ELSE Next1(h[n], n + 1)]
    <2>2. \A k \in 0..n : h[k] = IF k = 0 THEN <<>> ELSE Next1(h[k - 1], k)
      BY <2>1
    <2>3. \A k \in 0..n + 1 : g[k] = IF k = 0 THEN <<>> ELSE Next1(g[k - 1], k)
      <3>1. SUFFICES ASSUME NEW k \in 0..n + 1
                     PROVE  g[k] = IF k = 0 THEN <<>> ELSE Next1(g[k - 1], k)
        OBVIOUS
      <3>2. CASE k = 0
        BY <3>2, <2>2
      <3>3. CASE k \in 1..n
        <4>1. g[k] = h[k] /\ g[k - 1] = h[k - 1]
          BY <3>3
        <4> QED
          BY <3>3, <4>1, <2>2
      <3>4. CASE k = n + 1
        <4>1. g[k] = Next1(h[n], n + 1) /\ g[k - 1] = h[n]
          BY <3>4
        <4> QED
          BY <3>4, <4>1
      <3> QED
        BY <3>2, <3>3, <3>4
    <2>4. Is(g, n + 1)
      <3> DEFINE e == [k \in 0..n + 1 |-> IF k = 0 THEN <<>> ELSE Next1(g[k - 1], k)]
      <3>1. \A k \in 0..n + 1 : g[k] = e[k]
        BY <2>3
      <3>2. DOMAIN g = 0..n + 1 /\ DOMAIN e = 0..n + 1
        OBVIOUS
      <3>3. g = [k \in 0..n + 1 |-> g[k]] /\ e = [k \in 0..n + 1 |-> e[k]]
        OBVIOUS
      <3>4. g = e
        <4> HIDE DEF g, e
        <4> QED
          BY <3>1, <3>3
      <3> QED
        BY <3>4
    <2> HIDE DEF g, Is
    <2> QED
      BY <2>4
  <1>3. \E h : Is(h, Len(ms))
    <2> HIDE DEF Is
    <2>1. Nat \subseteq G
      <3> HIDE DEF G
      <3> QED
        BY <1>1, <1>2, InductionOnNat
    <2> QED
      BY <2>1
  <1>4. Is(UnreadUpTo(ms, s), Len(ms))
    BY <1>3 DEF UnreadUpTo, WaitsOn
  <1>5. ASSUME NEW h, Is(h, Len(ms))
        PROVE  h[0] = <<>> /\ \A k \in 1..Len(ms) : h[k] = Next1(h[k - 1], k)
    <2> HIDE DEF Next1
    <2>1. \A k \in 0..Len(ms) : h[k] = IF k = 0 THEN <<>> ELSE Next1(h[k - 1], k)
      BY <1>5
    <2> QED
      BY <2>1
  <1> QED
    BY <1>4, <1>5

\* A queue is a sequence of bodies.
LEMMA UnreadType ==
  ASSUME NEW ms \in Seq(Messages), NEW s
  PROVE  \A n \in 0..Len(ms) : UnreadUpTo(ms, s)[n] \in Seq(Int)
PROOF
  <1> DEFINE q == UnreadUpTo(ms, s)
             G == {n \in Nat : n <= Len(ms) => q[n] \in Seq(Int)}
  <1>0. /\ Len(ms) \in Nat /\ q[0] = <<>>
        /\ \A k \in 1..Len(ms) : q[k] = IF WaitsOn(ms, k, s) THEN Append(q[k - 1], ms[k].body)
                                        ELSE q[k - 1]
    BY UnreadIs
  <1> HIDE DEF q
  <1>1. 0 \in G
    BY <1>0, EmptySeq
  <1>2. ASSUME NEW n \in Nat, n \in G PROVE n + 1 \in G
    <2> SUFFICES ASSUME n + 1 <= Len(ms) PROVE q[n + 1] \in Seq(Int)
      OBVIOUS
    <2>1. n + 1 \in 1..Len(ms) /\ (n + 1) - 1 = n /\ q[n] \in Seq(Int)
      BY <1>0, <1>2
    <2>2. ms[n + 1] \in Messages
      BY <2>1, ElementOfSeq
    <2>3. ms[n + 1].body \in Int
      BY <2>2 DEF Messages
    <2>4. Append(q[n], ms[n + 1].body) \in Seq(Int)
      BY <2>1, <2>3, AppendProperties
    <2> QED
      BY <1>0, <2>1, <2>4
  <1>3. Nat \subseteq G
    <2> HIDE DEF G
    <2> QED
      BY <1>1, <1>2, InductionOnNat
  <1> QED
    BY <1>0, <1>3 DEF q

\* Lists that agree on what waits on a socket, up to some message, agree on its queue.
LEMMA UnreadAgrees ==
  ASSUME NEW ms \in Seq(Messages), NEW ns \in Seq(Messages), NEW s,
         NEW l \in Nat, l <= Len(ms), l <= Len(ns),
         \A k \in 1..l : /\ WaitsOn(ms, k, s) <=> WaitsOn(ns, k, s)
                         /\ WaitsOn(ms, k, s) => ms[k].body = ns[k].body
  PROVE  \A n \in 0..l : UnreadUpTo(ms, s)[n] = UnreadUpTo(ns, s)[n]
PROOF
  <1> DEFINE p == UnreadUpTo(ms, s)
             q == UnreadUpTo(ns, s)
             G == {n \in Nat : n <= l => p[n] = q[n]}
  <1>0. /\ p[0] = <<>> /\ q[0] = <<>>
        /\ \A k \in 1..Len(ms) : p[k] = IF WaitsOn(ms, k, s) THEN Append(p[k - 1], ms[k].body)
                                        ELSE p[k - 1]
        /\ \A k \in 1..Len(ns) : q[k] = IF WaitsOn(ns, k, s) THEN Append(q[k - 1], ns[k].body)
                                        ELSE q[k - 1]
    BY UnreadIs
  <1> HIDE DEF p, q
  <1>1. 0 \in G
    BY <1>0
  <1>2. ASSUME NEW n \in Nat, n \in G PROVE n + 1 \in G
    <2> SUFFICES ASSUME n + 1 <= l PROVE p[n + 1] = q[n + 1]
      OBVIOUS
    <2>1. /\ n + 1 \in 1..Len(ms) /\ n + 1 \in 1..Len(ns) /\ n + 1 \in 1..l
          /\ (n + 1) - 1 = n /\ p[n] = q[n]
      BY <1>2
    <2> QED
      BY <1>0, <2>1
  <1>3. Nat \subseteq G
    <2> HIDE DEF G
    <2> QED
      BY <1>1, <1>2, InductionOnNat
  <1> QED
    BY <1>3 DEF p, q

\* A message that is put at the end of the store ends the queue of its socket.
LEMMA UnreadGrows ==
  ASSUME NEW ms \in Seq(Messages), NEW m \in Messages, NEW s
  PROVE  LET ns == Append(ms, m)
             q == UnreadUpTo(ms, s)[Len(ms)]
         IN  UnreadUpTo(ns, s)[Len(ns)] = IF m.mode = "RECV" /\ ~m.read /\ m.sid = s
                                            THEN Append(q, m.body) ELSE q
PROOF
  <1> DEFINE ns == Append(ms, m)
             l == Len(ms)
  <1>1. /\ ns \in Seq(Messages) /\ Len(ns) = l + 1 /\ ns[l + 1] = m /\ l \in Nat
        /\ \A k \in 1..l : ns[k] = ms[k]
    OBVIOUS
  <1> HIDE DEF ns
  <1>2. UnreadUpTo(ms, s)[l] = UnreadUpTo(ns, s)[l]
    BY <1>1, UnreadAgrees DEF WaitsOn
  <1>3. l + 1 \in 1..Len(ns) /\ (l + 1) - 1 = l
    BY <1>1
  <1>4. UnreadUpTo(ns, s)[l + 1] = IF WaitsOn(ns, l + 1, s)
                                     THEN Append(UnreadUpTo(ns, s)[l], ns[l + 1].body)
                                     ELSE UnreadUpTo(ns, s)[l]
    BY <1>1, <1>3, UnreadIs
  <1> QED
    BY <1>1, <1>2, <1>4 DEF WaitsOn, ns

\* The first message that waits on a socket is the head of its queue, and marking it read
\* takes it off.
LEMMA UnreadShrinks ==
  ASSUME NEW ms \in Seq(Messages), NEW ns \in Seq(Messages), Len(ns) = Len(ms), NEW s,
         NEW k \in 1..Len(ms), WaitsOn(ms, k, s), ~WaitsOn(ns, k, s),
         \A j \in 1..k - 1 : ~WaitsOn(ms, j, s),
         \A j \in 1..Len(ms) : j # k => ns[j] = ms[j]
  PROVE  LET p == UnreadUpTo(ms, s)[Len(ms)]
             q == UnreadUpTo(ns, s)[Len(ns)]
         IN  p # <<>> /\ Head(p) = ms[k].body /\ Tail(p) = q
PROOF
  <1> DEFINE p == UnreadUpTo(ms, s)
             q == UnreadUpTo(ns, s)
             b == ms[k].body
             Related(n) == IF n < k THEN p[n] = <<>> /\ q[n] = <<>> ELSE p[n] = <<b>> \o q[n]
             G == {n \in Nat : n <= Len(ms) => Related(n)}
  <1>0. /\ p[0] = <<>> /\ q[0] = <<>> /\ Len(ms) \in Nat /\ k \in Nat /\ k >= 1
        /\ \A i \in 1..Len(ms) : p[i] = IF WaitsOn(ms, i, s) THEN Append(p[i - 1], ms[i].body)
                                        ELSE p[i - 1]
        /\ \A i \in 1..Len(ms) : q[i] = IF WaitsOn(ns, i, s) THEN Append(q[i - 1], ns[i].body)
                                        ELSE q[i - 1]
    BY UnreadIs
  <1>1. \A n \in 0..Len(ms) : q[n] \in Seq(Int)
    BY UnreadType
  <1>2. \A i \in 1..Len(ms) : ms[i].body \in Int
    <2>1. \A i \in 1..Len(ms) : ms[i] \in Messages
      OBVIOUS
    <2> QED
      BY <2>1 DEF Messages
  <1> HIDE DEF p, q
  <1>3. 0 \in G
    BY <1>0
  <1>4. ASSUME NEW n \in Nat, n \in G PROVE n + 1 \in G
    <2> SUFFICES ASSUME n + 1 <= Len(ms) PROVE Related(n + 1)
      OBVIOUS
    <2>1. /\ n + 1 \in 1..Len(ms) /\ n \in 0..Len(ms) /\ (n + 1) - 1 = n /\ Related(n)
      BY <1>0, <1>4
    <2>2. CASE n + 1 < k
      <3>1. n + 1 \in 1..k - 1 /\ n < k /\ n + 1 # k
        BY <1>0, <2>1, <2>2
      <3>2. ~WaitsOn(ms, n + 1, s) /\ ~WaitsOn(ns, n + 1, s)
        BY <2>1, <3>1 DEF WaitsOn
      <3> QED
        BY <1>0, <2>1, <2>2, <3>1, <3>2
    <2>3. CASE n + 1 = k
      <3>1. n < k /\ p[n] = <<>> /\ q[n] = <<>>
        BY <1>0, <2>1, <2>3
      <3>2. p[n + 1] = Append(<<>>, b) /\ q[n + 1] = <<>>
        BY <1>0, <2>1, <2>3, <3>1
      <3>3. Append(<<>>, b) = <<b>> \o <<>>
        OBVIOUS
      <3> QED
        BY <2>3, <3>2, <3>3
    <2>4. CASE n + 1 > k
      <3>1. ~(n < k) /\ ~(n + 1 < k) /\ n + 1 # k
        BY <1>0, <2>1, <2>4
      <3>2. p[n] = <<b>> \o q[n] /\ q[n] \in Seq(Int)
        BY <1>1, <2>1, <3>1
      <3>3. ns[n + 1] = ms[n + 1] /\ (WaitsOn(ms, n + 1, s) <=> WaitsOn(ns, n + 1, s))
        BY <2>1, <3>1 DEF WaitsOn
      <3>4. CASE WaitsOn(ms, n + 1, s)
        <4>1. p[n + 1] = Append(<<b>> \o q[n], ms[n + 1].body)
              /\ q[n + 1] = Append(q[n], ms[n + 1].body)
          BY <1>0, <2>1, <3>2, <3>3, <3>4
        <4>2. Append(<<b>> \o q[n], ms[n + 1].body) = <<b>> \o Append(q[n], ms[n + 1].body)
          <5>1. ASSUME NEW x \in Int, NEW y \in Int, NEW t \in Seq(Int)
                PROVE  Append(<<x>> \o t, y) = <<x>> \o Append(t, y)
            <6>1. <<x>> \in Seq(Int) /\ <<y>> \in Seq(Int) /\ <<x>> \o t \in Seq(Int)
              OBVIOUS
            <6>2. \A u \in Seq(Int) : Append(u, y) = u \o <<y>>
              BY AppendIsConcat
            <6> QED
              BY <6>1, <6>2, ConcatAssociative
          <5>2. b \in Int /\ ms[n + 1].body \in Int
            BY <1>2, <2>1
          <5> HIDE DEF b
          <5> QED
            BY <3>2, <5>1, <5>2
        <4> QED
          BY <3>1, <4>1, <4>2
      <3>5. CASE ~WaitsOn(ms, n + 1, s)
        BY <1>0, <2>1, <3>1, <3>2, <3>3, <3>5
      <3> QED
        BY <3>4, <3>5
    <2> QED
      BY <1>0, <2>2, <2>3, <2>4
  <1>5. Nat \subseteq G
    <2> HIDE DEF G
    <2> QED
      BY <1>3, <1>4, InductionOnNat
  <1>6. p[Len(ms)] = <<b>> \o q[Len(ms)] /\ q[Len(ms)] \in Seq(Int) /\ b \in Int
    BY <1>0, <1>1, <1>2, <1>5
  <1>7. ASSUME NEW x \in Int, NEW t \in Seq(Int)
        PROVE  <<x>> \o t # <<>> /\ Head(<<x>> \o t) = x /\ Tail(<<x>> \o t) = t
    OBVIOUS
  <1> HIDE DEF b
  <1> QED
    BY <1>6, <1>7 DEF p, q, b

-----------------------------------------------------------------------------
(* What a step does to the messages, and to what peers have sent *)

\* The list is linked to its end, and the messages received have the ids of sockets and the
\* bodies of messages.
StoreOK ==
  /\ msgs \in Seq(Messages) /\ msgId \in Int /\ msgLinked = TRUE
  /\ \A k \in DOMAIN msgs :
       msgs[k].mode = "RECV" => msgs[k].sid \in 1..SOCKET_MAXNUM /\ msgs[k].body \in 1..MaxMsgs
  /\ \E S : got \in Seq(S)

\* What is queued for an entry is of its kind: datagram sockets are sent messages only, and
\* an entry that is not in the table yet is sent nothing.
NetOK ==
  /\ nmsg \in 0..MaxMsgs
  /\ net \in [Entries -> Seq(Reset..MaxMsgs)]
  /\ \A i \in DOMAIN sock : i = 1 \/ i \in Entries
  /\ \A i \in Entries \ DOMAIN sock : net[i] = <<>>
  /\ \A i \in Entries : i \in DOMAIN sock /\ sock[i].type \in {"UDP", "RAW", "LISTEN_UDP"} =>
       \A n \in DOMAIN net[i] : net[i][n] > 0

NoFlush == \A c \in Clients : req[c].cmd # "FLUSH"

\* The four things that happen to messages
Receives ==
  UNCHANGED got /\ \E sid \in 1..SOCKET_MAXNUM, body \in 1..MaxMsgs : Store(sid, "RECV", body)
Records == UNCHANGED got /\ \E sid \in Int : Store(sid, "SEND", OutBody)
Gives(want) ==
  DataFor(want) > 0 /\ MarkRead(DataFor(want)) /\ Deliver(want, DataFor(want))

MessageCases ==
  UNCHANGED <<dataVars, got>> \/ Receives \/ Records \/ \E want : Gives(want)

NetCases ==
  \/ UNCHANGED <<net, nmsg>>
  \/ DropClosed /\ UNCHANGED nmsg
  \/ \E i \in Alive : /\ sock[i].type \notin UnixTypes /\ net[i] # <<>>
                      /\ Consume(i) /\ UNCHANGED nmsg
  \/ \E i \in DOMAIN sock : PeerSends(i) \/ PeerCloses(i) \/ PeerResets(i) \/ PeerConnects(i)

DataStep == MessageCases /\ NetCases /\ NoFlush'

\* No request is written.
LEMMA NoFlushKept ==
  ASSUME LoopTypeOK, NoFlush, NEW c, UNCHANGED req \/ req' = [req EXCEPT ![c] = NoReq]
  PROVE  NoFlush'
PROOF
  <1>1. NoReq.cmd # "FLUSH"
    BY DEF NoReq
  <1>2. \A d \in Clients : req'[d] = req[d] \/ req'[d] = NoReq
    BY DEF LoopTypeOK
  <1> QED
    BY <1>1, <1>2 DEF NoFlush

\* The handlers of clients
LEMMA CommandMessages ==
  ASSUME SockInv, LoopTypeOK, NoFlush, NEW i, NEW c \in Clients,
         \/ AcceptClient(i, c) \/ ClientGone(i, c) \/ HandleConnect(i, c)
         \/ HandleWait(i, c) \/ HandleSend(i, c) \/ HandleRecv(i, c)
         \/ HandleClose(i, c) \/ HandleFlush(i, c)
  PROVE  DataStep
PROOF
  <1> USE DEF DataStep
  <1>1. CASE AcceptClient(i, c)
    BY <1>1, NoFlushKept DEF AcceptClient, MessageCases, NetCases
  <1>2. CASE ClientGone(i, c)
    BY <1>2, NoFlushKept DEF ClientGone, MessageCases, NetCases
  <1>3. CASE HandleConnect(i, c) \/ HandleWait(i, c) \/ HandleSend(i, c) \/ HandleClose(i, c)
    BY <1>3, NoFlushKept DEF HandleConnect, HandleWait, HandleSend, HandleClose, Handles,
       MessageCases, NetCases
  <1>4. CASE HandleRecv(i, c)
    <2>1. UNCHANGED <<dataVars, got>> \/ Gives(req[c].id)
      BY <1>4 DEF HandleRecv, Gives
    <2>2. UNCHANGED <<net, nmsg>> /\ req' = [req EXCEPT ![c] = NoReq]
      BY <1>4 DEF HandleRecv, Handles
    <2> QED
      BY <2>1, <2>2, NoFlushKept DEF MessageCases, NetCases
  <1>5. ~HandleFlush(i, c)
    BY DEF HandleFlush, Handles, NoFlush
  <1> QED
    BY <1>1, <1>2, <1>3, <1>4, <1>5

\* A ready network socket has been sent something, of its kind.
LEMMA ReadyNetwork ==
  ASSUME SockInv, NetOK, NEW i \in Alive, Ready(i), sock[i].type \notin UnixTypes
  PROVE  /\ i \in Entries /\ net[i] # <<>> /\ net[i] \in Seq(Reset..MaxMsgs)
         /\ Head(net[i]) \in Reset..MaxMsgs
         /\ sock[i].type \in {"UDP", "RAW", "LISTEN_UDP"} => Head(net[i]) > 0
PROOF
  <1>1. i \in DOMAIN sock /\ i # 1
    BY DEF Alive, SockInv, UnixTypes
  <1>2. i \in Entries /\ net[i] \in Seq(Reset..MaxMsgs)
    BY <1>1 DEF NetOK
  <1>3. net[i] # <<>>
    BY DEF Ready, UnixTypes
  <1>4. ASSUME NEW S, NEW s \in Seq(S), s # <<>>
        PROVE  Head(s) = s[1] /\ 1 \in DOMAIN s /\ Head(s) \in S
    BY <1>4
  <1>5. Head(net[i]) = net[i][1] /\ 1 \in DOMAIN net[i] /\ Head(net[i]) \in Reset..MaxMsgs
    BY <1>2, <1>3, <1>4
  <1> QED
    BY <1>1, <1>2, <1>3, <1>5 DEF NetOK

\* The ids of the table, and the next one, are those of sockets.
LEMMA IdRange ==
  ASSUME SockInv, IdsGrow
  PROVE  /\ \A i \in DOMAIN sock : sock[i].id \in 1..SOCKET_MAXNUM
         /\ sockId # SOCKET_MAXNUM => NextId \in 1..SOCKET_MAXNUM
PROOF
  <1>1. SOCKET_MAXNUM \in Nat
    BY SocketAssumption
  <1>2. Len(sock) \in Nat /\ DOMAIN sock = 1..Len(sock) /\ sockId <= SOCKET_MAXNUM /\ sockId \in Int
    BY TableFits DEF SockInv, SockTypeOK
  <1>3. \A i \in DOMAIN sock : sock[i].id \in Int
    BY FieldTypes DEF SockInv, SockTypeOK
  <1>4. \A i \in DOMAIN sock : i <= sock[i].id /\ sock[i].id <= sockId
    BY DEF IdsGrow
  <1>5. 1 \in DOMAIN sock
    BY DEF SockInv
  <1>6. sockId >= 1
    BY <1>2, <1>3, <1>4, <1>5
  <1> QED
    BY <1>1, <1>2, <1>3, <1>4, <1>6 DEF NextId

\* The handlers of network sockets
LEMMA NetworkMessages ==
  ASSUME SockInv, IdsGrow, LoopTypeOK, NetOK, NoFlush, NEW i \in Alive, Ready(i),
         \/ HandleListenTcp(i) \/ HandleListenUdp(i) \/ HandleTcpMessage(i)
         \/ HandleTcpError(i) \/ HandleTcpEof(i) \/ HandleDatagram(i)
  PROVE  DataStep
PROOF
  <1>1. sock[i].type \in {"LISTEN_TCP", "LISTEN_UDP", "DATA", "UDP", "RAW"}
    BY DEF HandleListenTcp, HandleListenUdp, HandleTcpMessage, HandleTcpError, HandleTcpEof,
       HandleDatagram
  <1>2. sock[i].type \notin UnixTypes
    BY <1>1 DEF UnixTypes
  <1>3. /\ net[i] # <<>> /\ Head(net[i]) \in Reset..MaxMsgs
        /\ sock[i].type \in {"UDP", "RAW", "LISTEN_UDP"} => Head(net[i]) > 0
    BY <1>2, ReadyNetwork
  <1>4. Head(net[i]) > 0 => Head(net[i]) \in 1..MaxMsgs
    BY <1>3, KoidAssumption DEF Reset
  <1>5. sock[i].id \in 1..SOCKET_MAXNUM
    BY IdRange DEF Alive
  <1>6. NoFlush'
    <2>1. UNCHANGED req
      BY DEF HandleListenTcp, HandleListenUdp, HandleTcpMessage, HandleTcpError, HandleTcpEof,
         HandleDatagram, envVars
    <2> QED
      BY <2>1 DEF NoFlush
  <1>7. NetCases
    <2>1. UNCHANGED nmsg
      BY DEF HandleListenTcp, HandleListenUdp, HandleTcpMessage, HandleTcpError, HandleTcpEof,
         HandleDatagram, envVars
    <2>2. UNCHANGED net \/ Consume(i)
      BY DEF HandleListenTcp, HandleListenUdp, HandleTcpMessage, HandleTcpError, HandleTcpEof,
         HandleDatagram, envVars
    <2> QED
      BY <1>2, <1>3, <2>1, <2>2 DEF NetCases
  <1>8. UNCHANGED got
    BY DEF HandleListenTcp, HandleListenUdp, HandleTcpMessage, HandleTcpError, HandleTcpEof,
       HandleDatagram, envVars
  <1>9. CASE UNCHANGED dataVars
    BY <1>6, <1>7, <1>8, <1>9 DEF DataStep, MessageCases
  <1>10. CASE kDataRegist(sock[i].id, "RECV", Head(net[i])) /\ Head(net[i]) > 0
    <2>1. CASE Store(sock[i].id, "RECV", Head(net[i]))
      BY <1>4, <1>5, <1>6, <1>7, <1>8, <1>10, <2>1 DEF DataStep, MessageCases, Receives
    <2> QED
      BY <1>9, <1>10, <2>1 DEF kDataRegist
  <1>11. CASE HandleListenUdp(i)
    <2>1. UNCHANGED dataVars \/ (sockId # SOCKET_MAXNUM /\ Store(NextId, "RECV", Head(net[i])))
      BY <1>11 DEF HandleListenUdp
    <2>2. CASE sockId # SOCKET_MAXNUM /\ Store(NextId, "RECV", Head(net[i]))
      <3>1. NextId \in 1..SOCKET_MAXNUM
        BY <2>2, IdRange
      <3>2. Head(net[i]) \in 1..MaxMsgs
        BY <1>3, <1>4, <1>11 DEF HandleListenUdp
      <3> QED
        BY <1>6, <1>7, <1>8, <2>2, <3>1, <3>2 DEF DataStep, MessageCases, Receives
    <2> QED
      BY <1>9, <2>1, <2>2
  <1>12. CASE HandleTcpMessage(i)
    BY <1>10, <1>12 DEF HandleTcpMessage, Eof
  <1>13. CASE HandleDatagram(i)
    BY <1>3, <1>10, <1>13 DEF HandleDatagram
  <1>14. CASE HandleListenTcp(i) \/ HandleTcpError(i) \/ HandleTcpEof(i)
    BY <1>9, <1>14 DEF HandleListenTcp, HandleTcpError, HandleTcpEof
  <1> QED
    BY <1>11, <1>12, <1>13, <1>14

\* Every step of koid and its environment
LEMMA KoidMessages ==
  ASSUME "FLUSH" \notin Commands,
         SockInv, IdsGrow, LoopTypeOK, NetOK, NoFlush, [KoidNext]_koidVars
  PROVE  DataStep
PROOF
  <1>0. ASSUME UNCHANGED <<dataVars, got>>, UNCHANGED <<net, nmsg>>, UNCHANGED req
        PROVE  DataStep
    BY <1>0 DEF DataStep, MessageCases, NetCases, NoFlush
  <1>1. CASE CloseTimerFires
    BY <1>1 DEF CloseTimerFires, DataStep, MessageCases, NetCases, NoFlush
  <1>2. CASE RecvTimerDelivers
    BY <1>2 DEF RecvTimerDelivers, RecvArrived, Gives, DataStep, MessageCases, NetCases, NoFlush
  <1>3. CASE CloseTimerBegins \/ RecvTimerBegins \/ RecvTimerDrops \/ RecvTimerKeeps
             \/ RecvTimerExpires \/ RecvTimerEnds \/ SelectIdle
    BY <1>0, <1>3 DEF CloseTimerBegins, RecvTimerBegins, RecvTimerDrops, RecvTimerKeeps,
       RecvTimerExpires, RecvTimerEnds, SelectIdle, envVars, RecvInvalid, RecvStillWaiting,
       RecvTimedOut
  <1>4. CASE kDispatcherProc
    <2>1. PICK j \in {kSocketGetSelectedHandle} \ {0} :
            \E i \in {kSocketGetSIBySocketHandle(sock[j].handle)} :
               \/ \E c \in Clients :
                    \/ AcceptClient(i, c) \/ ClientGone(i, c) \/ HandleConnect(i, c)
                    \/ HandleWait(i, c) \/ HandleSend(i, c) \/ HandleRecv(i, c)
                    \/ HandleClose(i, c) \/ HandleFlush(i, c)
               \/ HandleListenTcp(i) \/ HandleListenUdp(i) \/ HandleTcpMessage(i)
               \/ HandleTcpError(i) \/ HandleTcpEof(i) \/ HandleDatagram(i)
      BY <1>4 DEF kDispatcherProc
    <2> DEFINE i == kSocketGetSIBySocketHandle(sock[j].handle)
    <2>2. i \in Alive /\ sock[i].handle = sock[j].handle /\ j \in DOMAIN sock /\ Ready(j)
      BY SelectedEntry
    <2> HIDE DEF i
    <2>3. i = j
      <3>1. IsAlive(j) /\ sock[j].handle \in readfds
        BY <2>2 DEF Ready
      <3>2. j \in Alive /\ sock[j].handle # BadFd
        BY <2>2, <3>1, SocketAssumption DEF Alive, SockInv, SockTypeOK, BadFd
      <3> QED
        BY <2>2, <3>2 DEF SockInv, AliveHandlesDistinct
    <2>4. CASE \E c \in Clients :
                    \/ AcceptClient(i, c) \/ ClientGone(i, c) \/ HandleConnect(i, c)
                    \/ HandleWait(i, c) \/ HandleSend(i, c) \/ HandleRecv(i, c)
                    \/ HandleClose(i, c) \/ HandleFlush(i, c)
      BY <2>4, CommandMessages
    <2>5. CASE \/ HandleListenTcp(i) \/ HandleListenUdp(i) \/ HandleTcpMessage(i)
               \/ HandleTcpError(i) \/ HandleTcpEof(i) \/ HandleDatagram(i)
      BY <2>2, <2>3, <2>5, NetworkMessages
    <2> QED
      BY <2>1, <2>4, <2>5 DEF i
  <1>5. CASE Sends
    <2>1. sending.id \in Int
      BY <1>5 DEF Sends, LoopTypeOK, Sendings
    <2>2. UNCHANGED dataVars \/ Store(sending.id, "SEND", OutBody)
      BY <1>5 DEF Sends, kDataRegist
    <2> QED
      BY <1>5, <2>1, <2>2 DEF Sends, DataStep, MessageCases, NetCases, NoFlush, Records
  <1>6. CASE \E c \in Clients : ClientConnects(c) \/ ClientLeaves(c) \/ ClientReads(c)
    BY <1>0, <1>6 DEF ClientConnects, ClientLeaves, ClientReads, daemonVars
  <1>7. ASSUME NEW c \in Clients, ClientRequests(c)
        PROVE  DataStep
    <2>1. UNCHANGED <<dataVars, got, net, nmsg>>
      BY <1>7 DEF ClientRequests, daemonVars
    <2>2. PICK cmd \in Commands : \E r \in RequestsOf(cmd) : req' = [req EXCEPT ![c] = r]
      BY <1>7 DEF ClientRequests
    <2>3. PICK r \in RequestsOf(cmd) : req' = [req EXCEPT ![c] = r]
      BY <2>2
    <2>4. r.cmd # "FLUSH"
      BY RequestsOfType
    <2>5. NoFlush'
      BY <2>3, <2>4 DEF NoFlush, LoopTypeOK
    <2> QED
      BY <2>1, <2>5 DEF DataStep, MessageCases, NetCases
  <1>8. CASE \E i \in DOMAIN sock : PeerSends(i) \/ PeerCloses(i) \/ PeerResets(i) \/ PeerConnects(i)
    <2>1. UNCHANGED <<dataVars, got, req>>
      BY <1>8 DEF PeerSends, PeerCloses, PeerResets, PeerConnects, daemonVars
    <2> QED
      BY <1>8, <2>1 DEF DataStep, MessageCases, NetCases, NoFlush
  <1>9. CASE Second \/ UNCHANGED koidVars
    BY <1>0, <1>9 DEF Second, koidVars, envVars
  <1> QED
    BY <1>1, <1>2, <1>3, <1>4, <1>5, <1>6, <1>7, <1>8, <1>9
    DEF KoidNext, Daemon, Timers, Environment

\* A message is put at the end of the list.
PutsLast(m, sid, mode, body) ==
  /\ m \in Messages /\ msgs' = Append(msgs, m)
  /\ m.sid = sid /\ m.mode = mode /\ m.body = body /\ ~m.read
  /\ msgId' \in Int /\ msgLinked' = TRUE

\* That is what storing one comes to, for the list is linked to its end.
LEMMA NewMessage ==
  ASSUME StoreOK, NEW sid \in Int, NEW mode \in {"SEND", "RECV"}, NEW body \in Int,
         Store(sid, mode, body)
  PROVE  \E m : PutsLast(m, sid, mode, body)
PROOF
  <1>1. msgs \in Seq(Messages) /\ msgId \in Int /\ msgLinked = TRUE
    BY DEF StoreOK
  <1>2. PICK m : m = NewMsg(sid, mode, body)
    OBVIOUS
  <1>3. m \in Messages /\ m.sid = sid /\ m.mode = mode /\ m.body = body /\ ~m.read
    BY <1>1, <1>2 DEF NewMsg, Messages
  <1>4. msgs = <<>> => <<m>> = Append(msgs, m)
    OBVIOUS
  <1>5. msgs' = Append(msgs, m)
    BY <1>1, <1>2, <1>4 DEF Store
  <1>6. msgId' \in Int /\ msgLinked' = TRUE
    <2>1. msgId' \in Int
      BY <1>1 DEF Store
    <2>2. msgLinked' = (msgs = <<>> \/ msgLinked)
      BY DEF Store
    <2>3. msgLinked' = TRUE
      BY <1>1, <2>2, Zenon
    <2> QED
      BY <2>1, <2>3
  <1> QED
    BY <1>3, <1>5, <1>6 DEF PutsLast

\* The message a RECV request is given is the oldest of its socket, and only its mark
\* changes.
LEMMA GivenMessage ==
  ASSUME StoreOK, NEW want, Gives(want)
  PROVE  \E k \in 1..Len(msgs) :
           /\ k \in Wanted(want) /\ WaitsOn(msgs, k, msgs[k].sid)
           /\ \A j \in 1..k - 1 : ~WaitsOn(msgs, j, msgs[k].sid)
           /\ msgs' \in Seq(Messages) /\ Len(msgs') = Len(msgs)
           /\ \A j \in 1..Len(msgs) : j # k => msgs'[j] = msgs[j]
           /\ msgs'[k].read /\ msgs'[k].mode = msgs[k].mode /\ msgs'[k].sid = msgs[k].sid
           /\ msgs'[k].body = msgs[k].body
           /\ got' = Append(got, [want |-> want, from |-> msgs[k].sid, body |-> msgs[k].body])
           /\ UNCHANGED <<msgLinked, msgId>>
PROOF
  <1> DEFINE k == DataFor(want)
             w == Wanted(want)
  <1>1. msgs \in Seq(Messages) /\ Len(msgs) \in Nat /\ DOMAIN msgs = 1..Len(msgs)
    BY DEF StoreOK
  <1>2. w # {} /\ k = Min(w)
    BY DEF Gives, DataFor, NoData, Invalid
  <1>3. w \subseteq Unread /\ Unread \subseteq 1..Len(msgs)
    BY <1>1 DEF Wanted, Unread
  <1>4. w \subseteq Nat
    <2> HIDE DEF w
    <2> QED
      BY <1>1, <1>3
  <1>5. k \in w /\ \A j \in w : k <= j
    <2> HIDE DEF w
    <2> QED
      BY <1>2, <1>4, MinIsLeast
  <1>6. k \in 1..Len(msgs) /\ k \in Unread
    BY <1>3, <1>5
  <1>7. WaitsOn(msgs, k, msgs[k].sid)
    BY <1>6 DEF Unread, WaitsOn
  <1>8. ASSUME NEW j \in 1..k - 1, WaitsOn(msgs, j, msgs[k].sid)
        PROVE  FALSE
    <2>1. j \in DOMAIN msgs /\ ~(k <= j)
      BY <1>1, <1>6
    <2>2. j \in Unread /\ msgs[j].sid = msgs[k].sid
      BY <1>8, <2>1 DEF Unread, WaitsOn
    <2>3. j \in w
      BY <1>5, <2>2 DEF Wanted
    <2> QED
      BY <1>5, <2>1, <2>3
  <1>9. /\ msgs' = [msgs EXCEPT ![k].read = TRUE] /\ UNCHANGED <<msgLinked, msgId>>
        /\ got' = Append(got, [want |-> want, from |-> msgs[k].sid, body |-> msgs[k].body])
    BY DEF Gives, MarkRead, Deliver
  <1>10. PICK n \in 1..Len(msgs) : n = k
    BY <1>6
  <1> HIDE DEF k, w
  <1>11. msgs' = [msgs EXCEPT ![n].read = TRUE] /\ msgs[n] \in Messages
    BY <1>1, <1>9, <1>10
  <1>12. PICK m : m = [msgs[n] EXCEPT !.read = TRUE]
    OBVIOUS
  <1>13. m \in Messages /\ m.read /\ m.mode = msgs[n].mode /\ m.sid = msgs[n].sid
         /\ m.body = msgs[n].body
    BY <1>11, <1>12 DEF Messages
  <1>14. msgs' = [msgs EXCEPT ![n] = m]
    BY <1>11, <1>12
  <1>15. /\ msgs' \in Seq(Messages) /\ Len(msgs') = Len(msgs) /\ msgs'[n] = m
         /\ \A j \in 1..Len(msgs) : j # n => msgs'[j] = msgs[j]
    BY <1>1, <1>13, <1>14, ExceptSeq
  <1> QED
    BY <1>5, <1>7, <1>8, <1>9, <1>10, <1>13, <1>15 DEF w

\* Answers are put behind one another.
LEMMA GotGrows ==
  ASSUME NEW S, got \in Seq(S), NEW g, got' = Append(got, g)
  PROVE  /\ got' \in Seq(S \cup {g}) /\ Len(got) \in Nat /\ Len(got') = Len(got) + 1
         /\ DOMAIN got = 1..Len(got) /\ DOMAIN got' = 1..Len(got) + 1
         /\ got'[Len(got) + 1] = g
         /\ \A k \in 1..Len(got) : got'[k] = got[k]
PROOF
  <1>1. got \in Seq(S \cup {g}) /\ g \in S \cup {g}
    BY SeqMonotonic
  <1> QED
    BY <1>1, AppendProperties

\* The messages stay what StoreOK says of them, whatever the case.
LEMMA StoreStep ==
  ASSUME StoreOK, MessageCases
  PROVE  StoreOK'
PROOF
  <1>0. msgs \in Seq(Messages) /\ Len(msgs) \in Nat /\ DOMAIN msgs = 1..Len(msgs)
        /\ SOCKET_MAXNUM \in Nat /\ MaxMsgs \in Nat
    BY KoidAssumption, SocketAssumption DEF StoreOK
  <1>1. CASE UNCHANGED <<dataVars, got>>
    BY <1>1 DEF StoreOK, dataVars
  <1>2. ASSUME NEW m \in Messages, msgs' = Append(msgs, m), msgId' \in Int, msgLinked' = TRUE,
               UNCHANGED got,
               m.mode = "RECV" => m.sid \in 1..SOCKET_MAXNUM /\ m.body \in 1..MaxMsgs
        PROVE  StoreOK'
    <2>1. /\ msgs' \in Seq(Messages) /\ DOMAIN msgs' = 1..Len(msgs) + 1
          /\ msgs'[Len(msgs) + 1] = m /\ \A k \in 1..Len(msgs) : msgs'[k] = msgs[k]
      BY <1>0, <1>2
    <2> QED
      BY <1>0, <1>2, <2>1 DEF StoreOK
  <1>3. CASE Receives
    <2>1. PICK sid \in 1..SOCKET_MAXNUM, body \in 1..MaxMsgs : Store(sid, "RECV", body)
      BY <1>3 DEF Receives
    <2>2. sid \in Int /\ body \in Int
      BY <1>0
    <2>3. PICK m : PutsLast(m, sid, "RECV", body)
      BY <2>1, <2>2, NewMessage
    <2>4. /\ m \in Messages /\ msgs' = Append(msgs, m) /\ m.sid = sid /\ m.body = body
          /\ msgId' \in Int /\ msgLinked' = TRUE
      BY <2>3 DEF PutsLast
    <2> QED
      BY <1>2, <1>3, <2>4 DEF Receives
  <1>4. CASE Records
    <2>1. PICK sid \in Int : Store(sid, "SEND", OutBody)
      BY <1>4 DEF Records
    <2>2. PICK m : PutsLast(m, sid, "SEND", OutBody)
      <3>1. OutBody \in Int
        BY DEF OutBody
      <3> QED
        BY <2>1, <3>1, NewMessage
    <2>3. m \in Messages /\ msgs' = Append(msgs, m) /\ m.mode = "SEND"
          /\ msgId' \in Int /\ msgLinked' = TRUE
      BY <2>2 DEF PutsLast
    <2> QED
      BY <1>2, <1>4, <2>3 DEF Records
  <1>5. ASSUME NEW want, Gives(want)
        PROVE  StoreOK'
    <2>1. PICK k \in 1..Len(msgs) :
            /\ msgs' \in Seq(Messages) /\ Len(msgs') = Len(msgs)
            /\ \A j \in 1..Len(msgs) : j # k => msgs'[j] = msgs[j]
            /\ msgs'[k].mode = msgs[k].mode /\ msgs'[k].sid = msgs[k].sid
            /\ msgs'[k].body = msgs[k].body
            /\ got' = Append(got, [want |-> want, from |-> msgs[k].sid, body |-> msgs[k].body])
            /\ UNCHANGED <<msgLinked, msgId>>
      BY <1>5, GivenMessage
    <2>2. \E S : got' \in Seq(S)
      BY <2>1, GotGrows DEF StoreOK
    <2>3. DOMAIN msgs' = DOMAIN msgs
      BY <1>0, <2>1
    <2>4. \A j \in DOMAIN msgs : /\ msgs'[j].mode = msgs[j].mode /\ msgs'[j].sid = msgs[j].sid
                                 /\ msgs'[j].body = msgs[j].body
      BY <1>0, <2>1
    <2> QED
      BY <2>1, <2>2, <2>3, <2>4 DEF StoreOK
  <1> QED
    BY <1>1, <1>3, <1>4, <1>5 DEF MessageCases

-----------------------------------------------------------------------------
(* What peers have sent *)

\* No entry is lost, changes its kind, its id or its parent, and one comes in at the end,
\* while there is room.
LEMMA TableGrows ==
  ASSUME SockInv, TableStep
  PROVE  /\ \A i \in DOMAIN sock :
              /\ i \in DOMAIN sock' /\ sock'[i].type = sock[i].type
              /\ sock'[i].id = sock[i].id /\ sock'[i].parent = sock[i].parent
         /\ \A i \in DOMAIN sock' \ DOMAIN sock : i \in Entries
PROOF
  <1>1. PICK T : /\ Trimmed(T)
                 /\ \/ sock' = T
                    \/ Len(sock) < MaxEntries /\ \E si : NewEntry(si) /\ sock' = Append(T, si)
    BY TableStepTrims
  <1>2. /\ T \in Seq(SocketInfo) /\ DOMAIN T = DOMAIN sock
        /\ \A i \in DOMAIN sock :
             T[i].id = sock[i].id /\ T[i].type = sock[i].type /\ T[i].parent = sock[i].parent
    BY <1>1 DEF Trimmed
  <1>3. Len(sock) \in Nat /\ DOMAIN sock = 1..Len(sock) /\ Len(T) = Len(sock)
        /\ MaxEntries \in Nat
    BY <1>2, SocketAssumption DEF SockInv, SockTypeOK
  <1>4. CASE sock' = T
    BY <1>2, <1>4
  <1>5. ASSUME Len(sock) < MaxEntries, NEW si, NewEntry(si), sock' = Append(T, si)
        PROVE  /\ \A i \in DOMAIN T : i \in DOMAIN sock' /\ sock'[i] = T[i]
               /\ \A i \in DOMAIN sock' \ DOMAIN sock : i \in Entries
    <2>1. si \in SocketInfo
      BY <1>5 DEF NewEntry
    <2>2. DOMAIN sock' = 1..Len(sock) + 1 /\ \A i \in 1..Len(sock) : sock'[i] = T[i]
      BY <1>2, <1>3, <1>5, <2>1
    <2>3. \A i \in DOMAIN sock' \ DOMAIN sock : i = Len(sock) + 1
      BY <1>3, <2>2
    <2>4. Len(sock) + 1 \in Entries
      BY <1>3, <1>5 DEF Entries
    <2> QED
      BY <1>2, <1>3, <2>2, <2>3, <2>4
  <1> QED
    BY <1>1, <1>2, <1>4, <1>5

\* What is queued stays of its kind.
LEMMA NetStep ==
  ASSUME SockInv, TableStep, NetOK, NetCases
  PROVE  NetOK'
PROOF
  <1> DEFINE R == Reset..MaxMsgs
             Kind(i) == sock[i].type \in {"UDP", "RAW", "LISTEN_UDP"}
  <1>0. /\ nmsg \in 0..MaxMsgs /\ net \in [Entries -> Seq(R)] /\ MaxMsgs \in Nat
        /\ \A i \in DOMAIN sock : i = 1 \/ i \in Entries
        /\ \A i \in Entries \ DOMAIN sock : net[i] = <<>>
        /\ \A i \in Entries : i \in DOMAIN sock /\ Kind(i) => \A n \in DOMAIN net[i] : net[i][n] > 0
    BY KoidAssumption DEF NetOK
  <1>1. /\ \A i \in DOMAIN sock : i \in DOMAIN sock' /\ sock'[i].type = sock[i].type
        /\ \A i \in DOMAIN sock' \ DOMAIN sock : i \in Entries
    BY TableGrows
  <1>2. \A i \in DOMAIN sock' : i = 1 \/ i \in Entries
    BY <1>0, <1>1
  \* What is queued for each entry is as before, nothing, or of its kind.
  <1>3. ASSUME nmsg' \in 0..MaxMsgs, net' \in [Entries -> Seq(R)],
               \A i \in Entries :
                 \/ net'[i] = net[i] \/ net'[i] = <<>>
                 \/ i \in DOMAIN sock /\ (Kind(i) => \A n \in DOMAIN net'[i] : net'[i][n] > 0)
        PROVE  NetOK'
    <2>1. \A i \in Entries \ DOMAIN sock' : net'[i] = <<>>
      BY <1>0, <1>1, <1>3
    <2>2. ASSUME NEW i \in Entries, i \in DOMAIN sock', Kind(i)',  NEW n \in DOMAIN net'[i]
          PROVE  net'[i][n] > 0
      <3>1. net'[i] # <<>>
        BY <2>2
      <3>2. i \in DOMAIN sock
        BY <1>0, <1>3, <2>2, <3>1
      <3>3. Kind(i)
        BY <1>1, <2>2, <3>2
      <3> QED
        BY <1>0, <1>3, <2>2, <3>1, <3>2, <3>3
    <2> QED
      BY <1>2, <1>3, <2>1, <2>2 DEF NetOK
  <1>4. CASE UNCHANGED <<net, nmsg>>
    BY <1>0, <1>3, <1>4
  <1>5. CASE DropClosed /\ UNCHANGED nmsg
    <2>1. net' \in [Entries -> Seq(R)]
      BY <1>0, <1>5, EmptySeq DEF DropClosed
    <2>2. \A i \in Entries : net'[i] = net[i] \/ net'[i] = <<>>
      BY <1>5 DEF DropClosed
    <2> QED
      BY <1>0, <1>3, <1>5, <2>1, <2>2
  \* One queue changes.
  <1>6. ASSUME NEW i \in Entries, i \in DOMAIN sock, NEW q \in Seq(R),
               net' = [net EXCEPT ![i] = q], nmsg' \in 0..MaxMsgs,
               Kind(i) => \A n \in DOMAIN q : q[n] > 0
        PROVE  NetOK'
    <2>1. net' \in [Entries -> Seq(R)] /\ net'[i] = q /\ \A j \in Entries \ {i} : net'[j] = net[j]
      BY <1>0, <1>6
    <2>2. \A j \in Entries : \/ net'[j] = net[j]
                             \/ j \in DOMAIN sock /\ (Kind(j) => \A n \in DOMAIN net'[j] : net'[j][n] > 0)
      BY <1>6, <2>1
    <2> HIDE DEF Kind
    <2> QED
      BY <1>3, <1>6, <2>1, <2>2
  <1>7. ASSUME NEW i \in Alive, sock[i].type \notin UnixTypes, net[i] # <<>>, Consume(i),
               UNCHANGED nmsg
        PROVE  NetOK'
    <2>1. i \in DOMAIN sock /\ i \in Entries
      BY <1>0, <1>7 DEF Alive, SockInv, UnixTypes
    <2>2. net[i] \in Seq(R)
      BY <1>0, <2>1
    <2> DEFINE q == Tail(net[i])
    <2>3. /\ q \in Seq(R) /\ Len(q) = Len(net[i]) - 1 /\ Len(net[i]) \in Nat
          /\ \A n \in 1..Len(q) : q[n] = net[i][n + 1]
      <3> HIDE DEF R
      <3> QED
        BY <1>7, <2>2, HeadTailProperties
    <2>4. net' = [net EXCEPT ![i] = q]
      BY <1>7 DEF Consume
    <2> HIDE DEF q
    <2>5. \A n \in DOMAIN q : n + 1 \in DOMAIN net[i] /\ q[n] = net[i][n + 1]
      BY <2>2, <2>3
    <2>6. Kind(i) => \A n \in DOMAIN q : q[n] > 0
      BY <1>0, <2>1, <2>5
    <2> HIDE DEF Kind
    <2> QED
      BY <1>0, <1>6, <1>7, <2>1, <2>3, <2>4, <2>6
  <1>8. ASSUME NEW i \in DOMAIN sock, PeerSends(i) \/ PeerCloses(i) \/ PeerResets(i) \/ PeerConnects(i)
        PROVE  NetOK'
    <2>1. i \in Entries
      BY <1>0, <1>8 DEF PeerSends, PeerCloses, PeerResets, PeerConnects, SockInv
    <2>2. net[i] \in Seq(R)
      BY <1>0, <2>1
    <2>3. CASE PeerSends(i)
      <3>1. nmsg + 1 \in 1..MaxMsgs /\ nmsg' = nmsg + 1 /\ net' = [net EXCEPT ![i] = Append(net[i], nmsg + 1)]
        BY <1>0, <2>3 DEF PeerSends
      <3>2. nmsg + 1 \in R
        BY <1>0, <3>1 DEF Reset
      <3> DEFINE q == Append(net[i], nmsg + 1)
      <3>3. /\ q \in Seq(R) /\ DOMAIN q = 1..Len(net[i]) + 1 /\ q[Len(net[i]) + 1] = nmsg + 1
            /\ Len(net[i]) \in Nat /\ DOMAIN net[i] = 1..Len(net[i])
            /\ \A n \in 1..Len(net[i]) : q[n] = net[i][n]
        <4> HIDE DEF R
        <4> QED
          BY <2>2, <3>2, AppendProperties
      <3> HIDE DEF q
      <3>4. Kind(i) => \A n \in DOMAIN q : q[n] > 0
        BY <1>0, <2>1, <3>1, <3>3
      <3>5. nmsg' \in 0..MaxMsgs /\ net' = [net EXCEPT ![i] = q]
        BY <1>0, <3>1 DEF q
      <3> HIDE DEF Kind, R
      <3> QED
        BY <1>6, <2>1, <3>3, <3>4, <3>5
    <2>4. CASE PeerCloses(i)
      <3>1. Eof \in R
        BY <1>0 DEF Eof, Reset
      <3>2. Append(net[i], Eof) \in Seq(R)
        BY <2>2, <3>1, AppendProperties
      <3>3. net' = [net EXCEPT ![i] = Append(net[i], Eof)] /\ UNCHANGED nmsg /\ ~Kind(i)
        BY <2>4 DEF PeerCloses
      <3> QED
        BY <1>0, <1>6, <2>1, <3>2, <3>3
    <2>5. CASE PeerResets(i)
      <3>1. Reset \in R /\ Eof \in R
        BY <1>0 DEF Eof, Reset
      <3>2. <<Reset, Eof>> \in Seq(R)
        BY <3>1
      <3>3. net' = [net EXCEPT ![i] = <<Reset, Eof>>] /\ UNCHANGED nmsg /\ ~Kind(i)
        BY <2>5 DEF PeerResets
      <3> QED
        BY <1>0, <1>6, <2>1, <3>2, <3>3
    <2>6. CASE PeerConnects(i)
      <3>1. CASE sock[i].type = "LISTEN_TCP" /\ net' = [net EXCEPT ![i] = <<Conn>>] /\ UNCHANGED nmsg
        <4>1. Conn \in R
          BY <1>0 DEF Conn, Reset
        <4>2. <<Conn>> \in Seq(R) /\ ~Kind(i)
          BY <3>1, <4>1
        <4> QED
          BY <1>0, <1>6, <2>1, <3>1, <4>2
      <3>2. CASE nmsg < MaxMsgs /\ net' = [net EXCEPT ![i] = <<nmsg + 1>>] /\ nmsg' = nmsg + 1
        <4>1. nmsg + 1 \in R /\ nmsg + 1 > 0 /\ nmsg' \in 0..MaxMsgs
          BY <1>0, <3>2 DEF Reset
        <4> DEFINE q == <<nmsg + 1>>
        <4>2. q \in Seq(R) /\ \A n \in DOMAIN q : q[n] > 0
          BY <4>1
        <4> HIDE DEF q
        <4> QED
          BY <1>6, <2>1, <3>2, <4>1, <4>2 DEF q
      <3> QED
        BY <2>6, <3>1, <3>2 DEF PeerConnects
    <2> QED
      BY <1>8, <2>3, <2>4, <2>5, <2>6
  <1> QED
    BY <1>4, <1>5, <1>7, <1>8 DEF NetCases

-----------------------------------------------------------------------------
(* koid does to messages what the queues of KDelivery do *)

DataInv == StoreOK /\ NetOK /\ NoFlush

\* koid starts without messages.
LEMMA DataInvInit == KoidInit => DataInv
PROOF
  <1> SUFFICES ASSUME KoidInit PROVE DataInv
    OBVIOUS
  <1>1. StoreOK
    BY EmptySeq DEF KoidInit, DataInit, StoreOK
  <1>2. NetOK
    <2>1. DOMAIN sock = {1}
      BY DEF KoidInit, SockInit
    <2>2. net \in [Entries -> Seq(Reset..MaxMsgs)]
      BY EmptySeq DEF KoidInit
    <2>3. nmsg \in 0..MaxMsgs
      BY KoidAssumption DEF KoidInit
    <2> QED
      BY <2>1, <2>2, <2>3 DEF KoidInit, NetOK
  <1>3. NoFlush
    BY DEF KoidInit, NoFlush, NoReq
  <1> QED
    BY <1>1, <1>2, <1>3 DEF DataInv

\* Every step keeps them in order.
LEMMA DataInvStep ==
  ASSUME "FLUSH" \notin Commands
  PROVE  ChildInv /\ LoopTypeOK /\ DataInv /\ [KoidNext]_koidVars => DataInv' /\ MessageCases
PROOF
  <1> SUFFICES ASSUME ChildInv, LoopTypeOK, DataInv, [KoidNext]_koidVars
               PROVE  DataInv' /\ MessageCases
    OBVIOUS
  <1>1. SockInv /\ IdsGrow /\ StoreOK /\ NetOK /\ NoFlush
    BY DEF ChildInv, DataInv
  <1>2. MessageCases /\ NetCases /\ NoFlush'
    BY <1>1, KoidMessages DEF DataStep
  <1>3. TableStep
    BY <1>1, KoidSockStep, StepIsTableStep
  <1>4. StoreOK'
    BY <1>1, <1>2, StoreStep
  <1>5. NetOK'
    BY <1>1, <1>2, <1>3, NetStep
  <1> QED
    BY <1>2, <1>4, <1>5 DEF DataInv

\* So they stay in order as long as the id counter has not wrapped round.
LEMMA DataInvariance ==
  ASSUME "FLUSH" \notin Commands
  PROVE  KoidSpec /\ [](sockId > 0) => []DataInv
PROOF
  <1>1. ChildInv /\ LoopTypeOK /\ DataInv /\ [KoidNext]_koidVars => DataInv'
    BY DataInvStep
  <1> QED
    BY <1>1, DataInvInit, KoidSockets, KoidChildren, PTL DEF KoidSpec

\* What is answered, as the abstract specification sees it, grows with got.
LEMMA DeliveredGrows ==
  ASSUME NEW S, got \in Seq(S), NEW want, NEW s, NEW b,
         got' = Append(got, [want |-> want, from |-> s, body |-> b])
  PROVE  [k \in DOMAIN got' |-> [from |-> got'[k].from, body |-> got'[k].body]] =
           Append([k \in DOMAIN got |-> [from |-> got[k].from, body |-> got[k].body]],
                  [from |-> s, body |-> b])
PROOF
  <1> DEFINE g == [want |-> want, from |-> s, body |-> b]
             e == [from |-> s, body |-> b]
             d == [k \in DOMAIN got |-> [from |-> got[k].from, body |-> got[k].body]]
             new == [k \in DOMAIN got' |-> [from |-> got'[k].from, body |-> got'[k].body]]
             l == Len(got)
             D == {d[k] : k \in 1..l} \cup {e}
  <1>1. /\ l \in Nat /\ DOMAIN got = 1..l /\ DOMAIN got' = 1..l + 1 /\ got'[l + 1] = g
        /\ \A k \in 1..l : got'[k] = got[k]
    BY GotGrows
  <1>2. new = [k \in 1..l + 1 |-> IF k = l + 1 THEN e ELSE d[k]]
    <2>1. \A k \in 1..l + 1 : new[k] = IF k = l + 1 THEN e ELSE d[k]
      BY <1>1
    <2>2. new = [k \in 1..l + 1 |-> new[k]]
      BY <1>1
    <2> HIDE DEF new, e, d
    <2> QED
      BY <2>1, <2>2
  <1>3. DOMAIN d = 1..l /\ d = [k \in 1..l |-> d[k]]
    BY <1>1
  <1> HIDE DEF d, e, new
  <1>4. d \in Seq(D) /\ Len(d) = l /\ e \in D
    <2>1. e \in D /\ d \in [1..l -> D]
      BY <1>3
    <2> HIDE DEF D, l
    <2> QED
      BY <1>1, <1>3, <2>1
  <1>5. /\ Append(d, e) \in Seq(D) /\ Len(Append(d, e)) = l + 1
        /\ \A k \in 1..l : Append(d, e)[k] = d[k]
        /\ Append(d, e)[l + 1] = e
    <2> HIDE DEF D
    <2> QED
      BY <1>4, AppendProperties
  <1>6. new \in Seq(D) /\ Len(new) = l + 1
    <2>1. new \in [1..l + 1 -> D] /\ l + 1 \in Nat
      BY <1>1, <1>2, <1>3
    <2> HIDE DEF D, l
    <2> QED
      BY <2>1
  <1>7. \A k \in 1..l + 1 : new[k] = Append(d, e)[k]
    BY <1>1, <1>2, <1>5
  <1>8. new = Append(d, e)
    <2> HIDE DEF D, l
    <2> QED
      BY <1>5, <1>6, <1>7, SeqEqual
  <1> QED
    BY <1>8 DEF new, d, e

\* A message of socket s is put behind those that wait on it, a message sent changes no
\* queue, and a request takes the head of one queue.
LEMMA StepIsDelivery ==
  ASSUME 1..SOCKET_MAXNUM \subseteq SocketIds, 1..MaxMsgs \subseteq Bodies,
         StoreOK, MessageCases
  PROVE  [Delivery!DeliveryNext]_(Delivery!deliveryVars)
PROOF
  <1> DEFINE queue == [s \in SocketIds |-> UnreadOf(s)]
             delivered == [k \in DOMAIN got |-> [from |-> got[k].from, body |-> got[k].body]]
  <1>0. msgs \in Seq(Messages) /\ Len(msgs) \in Nat /\ DOMAIN msgs = 1..Len(msgs)
        /\ SOCKET_MAXNUM \in Nat /\ MaxMsgs \in Nat
    BY KoidAssumption, SocketAssumption DEF StoreOK
  <1>1. ASSUME UNCHANGED got, \A s \in SocketIds : UnreadOf(s)' = UnreadOf(s)
        PROVE  UNCHANGED Delivery!deliveryVars
    BY <1>1 DEF Delivery!deliveryVars
  <1>2. CASE UNCHANGED <<dataVars, got>>
    BY <1>1, <1>2 DEF dataVars, UnreadOf
  <1>3. ASSUME NEW m, NEW sid, NEW mode, NEW body, PutsLast(m, sid, mode, body), NEW s
        PROVE  UnreadOf(s)' = IF mode = "RECV" /\ sid = s THEN Append(UnreadOf(s), body)
                              ELSE UnreadOf(s)
    <2>1. m \in Messages /\ msgs' = Append(msgs, m) /\ m.sid = sid /\ m.mode = mode
          /\ m.body = body /\ ~m.read
      BY <1>3 DEF PutsLast
    <2> QED
      BY <1>0, <2>1, UnreadGrows DEF UnreadOf
  <1>4. CASE Records
    <2>1. PICK sid \in Int : Store(sid, "SEND", OutBody)
      BY <1>4 DEF Records
    <2>2. PICK m : PutsLast(m, sid, "SEND", OutBody)
      BY <2>1, NewMessage DEF OutBody
    <2>3. \A s \in SocketIds : UnreadOf(s)' = UnreadOf(s)
      BY <1>3, <2>2
    <2> QED
      BY <1>1, <1>4, <2>3 DEF Records
  <1>5. CASE Receives
    <2>1. PICK sid \in 1..SOCKET_MAXNUM, body \in 1..MaxMsgs : Store(sid, "RECV", body)
      BY <1>5 DEF Receives
    <2>2. sid \in Int /\ body \in Int
      BY <1>0
    <2>3. PICK m : PutsLast(m, sid, "RECV", body)
      BY <2>1, <2>2, NewMessage
    <2>4. \A s \in SocketIds : UnreadOf(s)' = IF sid = s THEN Append(UnreadOf(s), body)
                                              ELSE UnreadOf(s)
      BY <1>3, <2>3
    <2>5. queue' = [queue EXCEPT ![sid] = Append(@, body)]
      BY <2>4
    <2>6. UNCHANGED delivered
      BY <1>5 DEF Receives
    <2>7. sid \in SocketIds /\ body \in Bodies
      OBVIOUS
    <2>8. Delivery!Arrive(sid)
      BY <2>5, <2>6, <2>7 DEF Delivery!Arrive
    <2> QED
      BY <2>7, <2>8 DEF Delivery!DeliveryNext
  <1>6. ASSUME NEW want, Gives(want)
        PROVE  Delivery!DeliveryNext
    <2>1. PICK k \in 1..Len(msgs) :
            /\ WaitsOn(msgs, k, msgs[k].sid)
            /\ \A j \in 1..k - 1 : ~WaitsOn(msgs, j, msgs[k].sid)
            /\ msgs' \in Seq(Messages) /\ Len(msgs') = Len(msgs)
            /\ \A j \in 1..Len(msgs) : j # k => msgs'[j] = msgs[j]
            /\ msgs'[k].read
            /\ got' = Append(got, [want |-> want, from |-> msgs[k].sid, body |-> msgs[k].body])
      BY <1>6, GivenMessage
    <2>2. PICK sid, b : sid = msgs[k].sid /\ b = msgs[k].body
      OBVIOUS
    <2>3. ~WaitsOn(msgs', k, sid)
      BY <2>1 DEF WaitsOn
    <2>4. UnreadOf(sid) # <<>> /\ Head(UnreadOf(sid)) = b /\ Tail(UnreadOf(sid)) = UnreadOf(sid)'
      BY <1>0, <2>1, <2>2, <2>3, UnreadShrinks DEF UnreadOf
    <2>5. ASSUME NEW s, s # sid
          PROVE  UnreadOf(s)' = UnreadOf(s)
      <3>1. ~WaitsOn(msgs, k, s)
        BY <2>2, <2>5 DEF WaitsOn
      <3>2. ~WaitsOn(msgs', k, s)
        BY <2>1 DEF WaitsOn
      <3>3. \A j \in 1..Len(msgs) : /\ WaitsOn(msgs, j, s) <=> WaitsOn(msgs', j, s)
                                    /\ WaitsOn(msgs, j, s) => msgs[j].body = msgs'[j].body
        BY <2>1, <3>1, <3>2 DEF WaitsOn
      <3> QED
        BY <1>0, <2>1, <3>3, UnreadAgrees DEF UnreadOf
    <2>6. queue' = [queue EXCEPT ![sid] = Tail(@)]
      BY <2>4, <2>5
    <2>7. sid \in 1..SOCKET_MAXNUM
      BY <1>0, <2>1, <2>2 DEF WaitsOn, StoreOK
    <2>8. PICK S : got \in Seq(S)
      BY DEF StoreOK
    <2>9. delivered' = Append(delivered, [from |-> sid, body |-> b])
      <3>1. got' = Append(got, [want |-> want, from |-> sid, body |-> b])
        BY <2>1, <2>2
      <3> QED
        BY <2>8, <3>1, DeliveredGrows
    <2>10. sid \in SocketIds /\ queue[sid] # <<>> /\ Head(queue[sid]) = b
      BY <2>4, <2>7
    <2>11. Delivery!Answered(sid)
      BY <2>6, <2>9, <2>10 DEF Delivery!Answered
    <2> QED
      BY <2>10, <2>11 DEF Delivery!DeliveryNext
  <1> QED
    BY <1>2, <1>4, <1>5, <1>6 DEF MessageCases

\* At the start nothing waits and nothing was answered.
LEMMA InitIsDelivery == KoidInit => Delivery!DeliveryInit
PROOF
  <1> SUFFICES ASSUME KoidInit PROVE Delivery!DeliveryInit
    OBVIOUS
  <1>1. msgs = <<>> /\ got = <<>>
    BY DEF KoidInit, DataInit
  <1>2. \A s : UnreadOf(s) = <<>>
    BY <1>1, UnreadIs, EmptySeq DEF UnreadOf
  <1>3. [k \in DOMAIN got |-> [from |-> got[k].from, body |-> got[k].body]] = <<>>
    BY <1>1
  <1> QED
    BY <1>2, <1>3 DEF Delivery!DeliveryInit

\* Whatever clients, peers and timers do, short of a FLUSH, a message that was registered
\* leaves the store as the answer to one request, and the messages of a socket in the order
\* they came in.  The abstract specification must know the ids koid hands out and the bodies
\* peers send.
THEOREM ImplementsDeliveryHolds ==
  ASSUME "FLUSH" \notin Commands,
         1..SOCKET_MAXNUM \subseteq SocketIds, 1..MaxMsgs \subseteq Bodies
  PROVE  KoidSpec /\ [](sockId > 0) => ImplementsDelivery
PROOF
  <1>1. ChildInv /\ LoopTypeOK /\ DataInv /\ [KoidNext]_koidVars =>
          [Delivery!DeliveryNext]_(Delivery!deliveryVars)
    BY DataInvStep, StepIsDelivery DEF DataInv
  <1> QED
    BY <1>1, InitIsDelivery, DataInvariance, KoidSockets, KoidChildren, PTL
    DEF KoidSpec, ImplementsDelivery, Delivery!DeliverySpec

\* A request that names a socket is given a message of that socket or, when it names a
\* listening one, of a live connection of it, even after entries have been closed.
THEOREM DeliveredFromWantedHolds ==
  ASSUME "FLUSH" \notin Commands
  PROVE  KoidSpec /\ [](sockId > 0) => []DeliveredFromWanted
PROOF
  <1>1. KoidInit => DeliveredFromWanted
    BY DEF KoidInit, DeliveredFromWanted
  <1>2. ASSUME ChildInv, LoopTypeOK, DataInv, [KoidNext]_koidVars, DeliveredFromWanted
        PROVE  DeliveredFromWanted'
    <2>0. SockInv /\ IdsGrow /\ StoreOK /\ MessageCases
      BY <1>2, DataInvStep DEF ChildInv, DataInv
    <2>1. \A i \in DOMAIN sock : /\ i \in DOMAIN sock'
                                 /\ sock'[i].id = sock[i].id /\ sock'[i].parent = sock[i].parent
      BY <1>2, <2>0, KoidSockStep, StepIsTableStep, TableGrows
    <2>2. CASE UNCHANGED got
      BY <1>2, <2>1, <2>2 DEF DeliveredFromWanted
    <2>3. ASSUME NEW want, Gives(want)
          PROVE  DeliveredFromWanted'
      <3>1. PICK k \in 1..Len(msgs) :
              /\ k \in Wanted(want) /\ WaitsOn(msgs, k, msgs[k].sid)
              /\ got' = Append(got, [want |-> want, from |-> msgs[k].sid, body |-> msgs[k].body])
        BY <2>0, <2>3, GivenMessage
      <3>2. PICK g : g = [want |-> want, from |-> msgs[k].sid, body |-> msgs[k].body]
        OBVIOUS
      <3>3. g.want = want /\ g.from = msgs[k].sid
        BY <3>2
      <3>4. msgs[k].sid \in Int
        <4>1. msgs[k] \in Messages
          BY <2>0 DEF StoreOK
        <4> QED
          BY <4>1 DEF Messages
      <3>5. \/ want \in {0, msgs[k].sid}
            \/ \E i \in DOMAIN sock : sock[i].id = msgs[k].sid /\ sock[i].parent = want
        <4> DEFINE j == kSocketGetSIBySocketId(msgs[k].sid)
        <4>1. j = 0 \/ (j \in DOMAIN sock /\ sock[j].id = msgs[k].sid)
          BY <2>0, <3>4, NamedEntry
        <4>2. \/ want = 0 \/ msgs[k].sid = want
              \/ j # 0 /\ sock[j].parent = want
          BY <3>1 DEF Wanted
        <4> QED
          BY <4>1, <4>2
      <3>6. PICK S : got \in Seq(S)
        BY <2>0 DEF StoreOK
      <3>7. /\ Len(got) \in Nat /\ DOMAIN got = 1..Len(got) /\ DOMAIN got' = 1..Len(got) + 1
            /\ got'[Len(got) + 1] = g /\ \A n \in 1..Len(got) : got'[n] = got[n]
        BY <3>1, <3>2, <3>6, GotGrows
      <3>8. \A n \in DOMAIN got' : n = Len(got) + 1 \/ n \in DOMAIN got
        BY <3>7
      <3> QED
        BY <1>2, <2>1, <3>3, <3>5, <3>7, <3>8 DEF DeliveredFromWanted
    <2> QED
      BY <2>0, <2>2, <2>3 DEF MessageCases, Receives, Records
  <1> QED
    BY <1>1, <1>2, DataInvariance, KoidSockets, KoidChildren, PTL DEF KoidSpec

-----------------------------------------------------------------------------
(* The close timer table, as a component of its own *)

\* A set of slots is a finite set of naturals.
LEMMA SlotsFinite ==
  ASSUME NEW T \in SUBSET Slots
  PROVE  IsFiniteSet(T) /\ T \subseteq Nat
PROOF
  <1>1. IsFiniteSet(Slots)
    BY FS_Interval, CloseTimerAssumption DEF Slots
  <1>2. IsFiniteSet(T)
    BY <1>1, FS_Subset
  <1>3. T \subseteq Nat
    BY CloseTimerAssumption DEF Slots
  <1> QED
    BY <1>2, <1>3

\* The inductive invariant: the properties themselves, and that the loop's id is one a
\* caller entered (kCloseTimerSet refuses negative ids).
CTInv ==
  /\ CTTypeOK
  /\ CountsUsedSlots
  /\ OneSlotPerSocket
  /\ DueSlotsExpired
  /\ \A s \in Used(sct) : sct[s].sct_socketid >= 0

\* The table kCloseTimerInit leaves at the start satisfies the invariant.
LEMMA CTInvInit == CTInit => CTInv
PROOF
  <1> SUFFICES ASSUME CTInit PROVE CTInv
    OBVIOUS
  <1> USE CloseTimerAssumption
  <1>1. Used(sct) = {}
    BY DEF CTInit, Used, Vacant
  <1>2. CTTypeOK
    BY DEF CTInit, CTTypeOK, Vacant, Slots
  <1> QED
    BY <1>1, <1>2, FS_EmptySet DEF CTInit, CTInv, CountsUsedSlots, OneSlotPerSocket,
       DueSlotsExpired

\* Every operation of the close timer keeps the invariant.
LEMMA CTInvNext == CTInv /\ [CTNext]_ctVars => CTInv'
PROOF
  <1> SUFFICES ASSUME CTInv, [CTNext]_ctVars PROVE CTInv'
    OBVIOUS
  <1> USE CloseTimerAssumption
  <1>1. CASE kCloseTimerInit
    <2>1. Used(sct)' = {}
      BY <1>1 DEF kCloseTimerInit, Used, Vacant
    <2>2. CTTypeOK'
      BY <1>1 DEF kCloseTimerInit, CTTypeOK, CTInv, Vacant, Slots
    <2> QED
      BY <1>1, <2>1, <2>2, FS_EmptySet DEF kCloseTimerInit, CTInv, CountsUsedSlots,
         OneSlotPerSocket, DueSlotsExpired
  <1>2. ASSUME NEW id \in SocketIds, NEW sec \in 0..MaxSec, kCloseTimerSet(id, sec)
        PROVE  CTInv'
    <2>1. CASE SetAccepted(id)
      <3> DEFINE s == Min(SlotsOf(sct, T_SCT_INIT))
      <3>1. SlotsOf(sct, T_SCT_INIT) \in SUBSET Slots
        BY DEF SlotsOf
      <3>2. s \in SlotsOf(sct, T_SCT_INIT)
        BY <2>1, <3>1, SlotsFinite, MinIsLeast DEF SetAccepted
      <3> HIDE DEF s
      <3>3. s \in Slots /\ s \notin Used(sct)
        BY <3>2 DEF SlotsOf, Used
      <3>4. /\ sct' = [sct EXCEPT ![s] = [sct_socketid |-> id, left |-> sec]]
            /\ sctNum' = sctNum + 1
            /\ due' = due
            /\ due = {}
            /\ id >= 0 /\ id \in Int
            /\ sctNum # T_SCT_MAXNUM
            /\ ~Registered(id)
        BY <1>2, <2>1 DEF kCloseTimerSet, SetAccepted, s
      <3>5. Used(sct)' = Used(sct) \cup {s}
        BY <3>3, <3>4 DEF Used, T_SCT_INIT, CTInv, CTTypeOK
      <3>6. CTTypeOK'
        BY <3>3, <3>4 DEF CTInv, CTTypeOK, Slots
      <3>7. CountsUsedSlots'
        <4>1. IsFiniteSet(Used(sct))
          BY SlotsFinite DEF Used
        <4> QED
          BY <4>1, <3>3, <3>4, <3>5, FS_AddElement DEF CTInv, CountsUsedSlots
      <3>8. OneSlotPerSocket'
        BY <3>3, <3>4, <3>5 DEF CTInv, CTTypeOK, OneSlotPerSocket, Registered, SlotsOf, Used
      <3>9. DueSlotsExpired'
        BY <3>4 DEF DueSlotsExpired
      <3>10. \A u \in Used(sct)' : sct'[u].sct_socketid >= 0
        BY <3>3, <3>4, <3>5 DEF CTInv, CTTypeOK, Used
      <3> QED
        BY <3>6, <3>7, <3>8, <3>9, <3>10 DEF CTInv
    <2>2. CASE ~SetAccepted(id)
      BY <1>2, <2>2 DEF kCloseTimerSet, CTInv, CTTypeOK, CountsUsedSlots, OneSlotPerSocket,
         DueSlotsExpired, Expired, Used
    <2> QED
      BY <2>1, <2>2
  <1>3. CASE kCloseTimerProc
    BY <1>3 DEF kCloseTimerProc, CTInv, CTTypeOK, CountsUsedSlots, OneSlotPerSocket,
       DueSlotsExpired, Expired, Used
  <1>4. CASE kCloseTimerExpire
    <2> DEFINE m == Min(due)
    <2>1. m \in due
      BY <1>4, MinIsLeast, SlotsFinite DEF kCloseTimerExpire, CTInv, CTTypeOK
    <2> HIDE DEF m
    <2>2. m \in Slots /\ m \in Used(sct) /\ sct[m].sct_socketid >= 0
      BY <2>1 DEF CTInv, CTTypeOK, DueSlotsExpired, Expired, Used
    <2>3. Min(SlotsOf(sct, sct[m].sct_socketid)) = m
      <3>1. SlotsOf(sct, sct[m].sct_socketid) = {m}
        BY <2>2 DEF SlotsOf, CTInv, OneSlotPerSocket, Used
      <3>2. {m} \subseteq Nat /\ {m} # {}
        BY <2>2, SlotsFinite DEF Slots
      <3>3. Min({m}) = m
        BY <3>2, MinIsLeast
      <3> QED
        BY <3>1, <3>3
    <2>4. IsFiniteSet(Used(sct)) /\ Cardinality(Used(sct)) # 0
      BY <2>2, SlotsFinite, FS_EmptySet DEF Used
    <2>5. /\ sct' = [sct EXCEPT ![m].sct_socketid = T_SCT_INIT]
          /\ sctNum' = sctNum - 1
          /\ due' = due \ {m}
      <3>1. sctNum # 0 /\ Registered(DueId)
        BY <2>2, <2>4 DEF CTInv, CountsUsedSlots, Registered, SlotsOf, DueId, m
      <3>2. kCloseTimerRemove(DueId) /\ due' = due \ {m} /\ DueId = sct[m].sct_socketid
        BY <1>4 DEF kCloseTimerExpire, DueId, m
      <3> QED
        BY <3>1, <3>2, <2>2, <2>3 DEF kCloseTimerRemove
    <2>6. Used(sct)' = Used(sct) \ {m}
      BY <2>2, <2>5 DEF Used, T_SCT_INIT, CTInv, CTTypeOK
    <2>7. CountsUsedSlots'
      BY <2>2, <2>4, <2>5, <2>6, FS_RemoveElement DEF CTInv, CountsUsedSlots
    <2>8. CTTypeOK'
      <3>1. sctNum > 0
        BY <2>4 DEF CTInv, CTTypeOK, CountsUsedSlots
      <3> QED
        BY <2>2, <2>5, <3>1 DEF CTInv, CTTypeOK, T_SCT_INIT
    <2>9. OneSlotPerSocket'
      BY <2>2, <2>5, <2>6 DEF CTInv, CTTypeOK, OneSlotPerSocket, Used
    <2>10. DueSlotsExpired'
      BY <2>2, <2>5, <2>6 DEF CTInv, CTTypeOK, DueSlotsExpired, Expired, Used
    <2>11. \A u \in Used(sct)' : sct'[u].sct_socketid >= 0
      BY <2>2, <2>5, <2>6 DEF CTInv, CTTypeOK, Used
    <2> QED
      BY <2>7, <2>8, <2>9, <2>10, <2>11 DEF CTInv
  <1>5. CASE Tick
    <2>1. /\ \A s \in Slots : /\ sct'[s].sct_socketid = sct[s].sct_socketid
                              /\ sct'[s].left \in 0..MaxSec
                              /\ sct[s].left = 0 => sct'[s].left = 0
                              /\ sct'[s] \in [sct_socketid : SocketIds \cup {T_SCT_INIT}, left : 0..MaxSec]
          /\ sct' \in [Slots -> [sct_socketid : SocketIds \cup {T_SCT_INIT}, left : 0..MaxSec]]
          /\ sctNum' = sctNum /\ due' = due
      BY <1>5 DEF Tick, CTInv, CTTypeOK
    <2>2. Used(sct)' = Used(sct)
      BY <2>1 DEF Used
    <2> QED
      BY <2>1, <2>2 DEF CTInv, CTTypeOK, CountsUsedSlots, OneSlotPerSocket, DueSlotsExpired,
         Expired, Used
  <1>6. CASE UNCHANGED ctVars
    BY <1>6 DEF ctVars, CTInv, CTTypeOK, CountsUsedSlots, OneSlotPerSocket, DueSlotsExpired,
       Expired, Used
  <1> QED
    BY <1>1, <1>2, <1>3, <1>4, <1>5, <1>6 DEF CTNext

\* The close table keeps its types, one slot per socket and an exact counter, and the
\* slots a running kCloseTimerProc has still to visit stay in use, always.
THEOREM CTInvariance == CTSpec => []CTInv
PROOF
  BY CTInvInit, CTInvNext, PTL DEF CTSpec

\* The counter g_t_current_socket_close_table_num is the number of slots in use.
THEOREM CountsUsedSlotsHolds == CTSpec => []CountsUsedSlots
PROOF
  <1>1. CTInv => CountsUsedSlots
    BY DEF CTInv
  <1> QED
    BY <1>1, CTInvariance, PTL

\* A slot that a step vacates was expired, or the step is kCloseTimerInit: neither setting
\* a timer nor the clock takes a socket out, and kCloseTimerRemove clears the slot the
\* loop visits.
LEMMA LeavesExpired ==
  ASSUME CTInv, [CTNext]_ctVars, NEW s \in Used(sct) \ Used(sct)'
  PROVE  sct[s].left = 0 \/ Used(sct)' = {}
PROOF
  <1> USE CloseTimerAssumption
  <1>1. CASE kCloseTimerInit
    BY <1>1 DEF kCloseTimerInit, Used, Vacant
  <1>2. ASSUME NEW id \in SocketIds, NEW sec \in 0..MaxSec, kCloseTimerSet(id, sec)
        PROVE  s \in Used(sct)'
    <2>1. CASE SetAccepted(id)
      <3> DEFINE t == Min(SlotsOf(sct, T_SCT_INIT))
      <3>1. SlotsOf(sct, T_SCT_INIT) \in SUBSET Slots
        BY DEF SlotsOf
      <3>2. t \in SlotsOf(sct, T_SCT_INIT)
        BY <2>1, <3>1, SlotsFinite, MinIsLeast DEF SetAccepted
      <3>3. sct' = [sct EXCEPT ![t] = [sct_socketid |-> id, left |-> sec]] /\ id >= 0 /\ id \in Int
        BY <1>2, <2>1 DEF kCloseTimerSet, SetAccepted
      <3> HIDE DEF t
      <3> QED
        BY <3>2, <3>3 DEF SlotsOf, Used, CTInv, CTTypeOK, T_SCT_INIT
    <2>2. CASE ~SetAccepted(id)
      BY <1>2, <2>2 DEF kCloseTimerSet, Used
    <2> QED
      BY <2>1, <2>2
  <1>3. CASE kCloseTimerProc
    BY <1>3 DEF kCloseTimerProc, Used
  <1>4. CASE kCloseTimerExpire
    <2> DEFINE m == Min(due)
    <2>1. m \in due
      BY <1>4, MinIsLeast, SlotsFinite DEF kCloseTimerExpire, CTInv, CTTypeOK
    <2> HIDE DEF m
    <2>2. m \in Slots /\ m \in Used(sct) /\ sct[m].left = 0
      BY <2>1 DEF CTInv, CTTypeOK, DueSlotsExpired, Expired, Used
    <2>3. Min(SlotsOf(sct, sct[m].sct_socketid)) = m
      <3>1. SlotsOf(sct, sct[m].sct_socketid) = {m}
        BY <2>2 DEF SlotsOf, CTInv, OneSlotPerSocket, Used
      <3>2. {m} \subseteq Nat /\ {m} # {}
        BY <2>2, SlotsFinite DEF Slots
      <3>3. Min({m}) = m
        BY <3>2, MinIsLeast
      <3> QED
        BY <3>1, <3>3
    <2>4. sct' = sct \/ sct' = [sct EXCEPT ![m].sct_socketid = T_SCT_INIT]
      BY <1>4, <2>3 DEF kCloseTimerExpire, kCloseTimerRemove, DueId, m
    <2>5. s = m
      BY <2>2, <2>4 DEF Used, CTInv, CTTypeOK
    <2> QED
      BY <2>2, <2>5
  <1>5. CASE Tick
    <2>1. \A u \in Slots : sct'[u].sct_socketid = sct[u].sct_socketid
      BY <1>5 DEF Tick, CTInv, CTTypeOK
    <2> QED
      BY <2>1 DEF Used
  <1>6. CASE UNCHANGED ctVars
    BY <1>6 DEF ctVars, Used
  <1> QED
    BY <1>1, <1>2, <1>3, <1>4, <1>5, <1>6 DEF CTNext

\* A socket leaves the table only when its time is up, or with all the others when a
\* client goes away.
THEOREM OnlyExpiredLeaveHolds == CTSpec => OnlyExpiredLeave
PROOF
  <1>1. CTInv /\ [CTNext]_ctVars
          => [\A s \in Used(sct) \ Used(sct)' : sct[s].left = 0 \/ Used(sct)' = {}]_ctVars
    BY LeavesExpired
  <1> QED
    BY <1>1, CTInvariance, PTL DEF CTSpec, OnlyExpiredLeave
=============================================================================
