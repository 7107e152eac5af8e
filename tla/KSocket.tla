------------------------------- MODULE KSocket -------------------------------
(***************************************************************************)
(* The socket table of koid, lib/kSocket, with the handlers of             *)
(* lib/kDispatcher that add sockets to it.                                 *)
(*                                                                         *)
(* The table is an append-only list: a socket that is closed keeps its     *)
(* entry, marked SI_STATUS_CLOSE.  A socket id is a short that only grows; *)
(* a handle is a file descriptor, which the kernel hands out again as soon *)
(* as it is closed.  g_readfds, the set select() waits on, is kept beside  *)
(* the table by hand.                                                      *)
(*                                                                         *)
(* External: the kernel's set of open descriptors (lowest free number      *)
(* first) and the outcome of the system calls, chosen from KernelOutcomes; *)
(* whether kParserGet knows the payload type, a Boolean parameter.         *)
(***************************************************************************)
EXTENDS Integers, Sequences, FiniteSets, FiniteSetsExt

CONSTANTS SOCKET_MAXNUM,    \* 0x7fff in koi.h
          Fds,              \* the descriptors the kernel can hand out
          Commands,         \* the requests clients issue
          Protocols,        \* of CM_PROT_TCP, _UDP, _ICMP, _TLS, the ones clients use
          Ports,            \* source ports, as bound
          DPorts,           \* destination ports, 0 is "any"
          Addrs,            \* source addresses, 0 is the all-zero address
          DAddrs,           \* destination addresses
          KernelOutcomes,   \* the outcomes of opening a socket that may happen
          MaxEntries        \* bound: the longest table explored

ASSUME SocketAssumption ==
  /\ SOCKET_MAXNUM \in Nat \ {0}
  /\ Fds \subseteq Nat /\ Fds # {} /\ IsFiniteSet(Fds)
  /\ Commands \subseteq {"CONNECT", "WAIT", "SEND", "RECV", "CLOSE", "FLUSH"}
  /\ Protocols \subseteq {"TCP", "UDP", "ICMP", "TLS"}
  /\ Ports \subseteq Nat /\ DPorts \subseteq Nat
  /\ Addrs \subseteq Nat /\ DAddrs \subseteq Nat
  /\ KernelOutcomes \subseteq
       {"ok", "noSocket", "sockoptFails", "bindFails", "connectFails", "leaks", "unresolved"}
  /\ MaxEntries \in Nat

VARIABLES sock,       \* the list from g_socket_start_ptr
          sockId,     \* g_socket_socketid
          readfds,    \* g_readfds
          openFds,    \* external: the descriptors koid holds open
          ret         \* what the last command returned

sockVars == <<sock, sockId, readfds, openFds, ret>>

UnixTypes == {"UNIX", "UNIX_DATA"}
DataTypes == {"UDP", "LISTEN_UDP", "DATA", "RAW"}      \* the ones with a DatasocketInfo
Types == UnixTypes \cup DataTypes \cup {"LISTEN_TCP"}

BadFd == -1

SendOutcomes == {"sent", "fails", "unresolved"}

SocketInfo == [id : Int, type : Types, handle : Fds \cup {BadFd},
               status : {"ALIVE", "CLOSE"}, parent : Int,
               sport : Ports \cup {0}, saddr : Addrs \cup {0},
               dport : DPorts \cup {0}, daddr : DAddrs \cup {0},
               peer : (DPorts \cup {0}) \X (DAddrs \cup {0})]

\* A new entry; peer, external, is where the kernel has connected the socket to
Info(id, type, fd, parent, sport, saddr, dport, daddr) ==
  [id |-> id, type |-> type, handle |-> fd, status |-> "ALIVE", parent |-> parent,
   sport |-> sport, saddr |-> saddr, dport |-> dport, daddr |-> daddr,
   peer |-> <<dport, daddr>>]

Results == [fn : {"INIT", "CONNECT", "WAIT", "SEND"}, ok : BOOLEAN, type : Types, id : Int,
            fd : Fds \cup {BadFd}]

\* The result of a command: type is what was asked for, fd where a send() went
Ok(fn, type, id) == [fn |-> fn, ok |-> TRUE, type |-> type, id |-> id, fd |-> BadFd]
Ng(fn) == [fn |-> fn, ok |-> FALSE, type |-> "UNIX", id |-> 0, fd |-> BadFd]

IsAlive(i) == sock[i].status = "ALIVE"
Alive == {i \in DOMAIN sock : IsAlive(i)}

\* g_socket_socketid ++ on a short
NextId == IF sockId = SOCKET_MAXNUM THEN -(SOCKET_MAXNUM + 1) ELSE sockId + 1

\* Where a loop "loop < SOCKET_MAXNUM" over the list stops: at the first entry in S,
\* at the entry after the last one visited if the list is longer, or nowhere (0).
WalkTo(S) ==
  LET seen == {i \in S : i <= SOCKET_MAXNUM}
  IN  IF seen # {} THEN Min(seen)
      ELSE IF Len(sock) > SOCKET_MAXNUM THEN SOCKET_MAXNUM + 1 ELSE 0

kSocketGetSIBySocketId(id) ==
  IF id < 0 THEN 0 ELSE WalkTo({i \in DOMAIN sock : sock[i].id = id})

kSocketGetSIBySocketHandle(fd) ==
  IF fd < 0 THEN 0 ELSE WalkTo({i \in Alive : sock[i].handle = fd})

\* select() fails with EBADF as long as g_readfds names a closed descriptor, and the
\* main loop starts over: no handler runs.
Selectable == readfds \subseteq openFds

\* A command comes from a client whose socket is in the table.
HasClient == \E i \in Alive : sock[i].type = "UNIX_DATA" /\ sock[i].handle \in readfds

-----------------------------------------------------------------------------
(* Opening sockets *)

FreeFds == Fds \ openFds
NewFd == Min(FreeFds)

\* kSocketMakeSocketStatusClose: the first entry with the handle is marked closed
kSocketMakeSocketStatusClose(fd) ==
  LET i == WalkTo({j \in DOMAIN sock : sock[j].handle = fd})
  IN  IF i = 0 THEN sock ELSE [sock EXCEPT ![i].status = "CLOSE"]

\* RETURN_NG before anything was registered, descriptors closed again
OpenFails(fn) ==
  /\ ret' = Ng(fn)
  /\ UNCHANGED <<sock, sockId, readfds, openFds>>

OpenSucceeds(fn, si) ==
  /\ Len(sock) < MaxEntries
  /\ sock' = Append(kSocketMakeSocketStatusClose(si.handle), si)
  /\ sockId' = si.id
  /\ readfds' = readfds \cup {si.handle}
  /\ openFds' = openFds \cup {si.handle}
  /\ ret' = Ok(fn, si.type, si.id)

\* kParserGet fails: the descriptor leaves g_readfds and is closed.  kSocketOpen and
\* kSocketOpenRaw give the id back, kSocketOpenWaitSocket does not.
OpenUndone(fn, id) ==
  /\ sock' = kSocketMakeSocketStatusClose(NewFd)
  /\ sockId' = id
  /\ readfds' = readfds \ {NewFd}
  /\ ret' = Ng(fn)
  /\ UNCHANGED openFds

\* setsockopt fails: the loop closes the descriptor and goes on to the next address, of
\* which there is none, with sockfd still set; the closed descriptor enters g_readfds
\* and getsockname returns RETURN_NG from there.
OpenClosedHandle(fn) ==
  /\ sock' = kSocketMakeSocketStatusClose(NewFd)
  /\ sockId' = NextId
  /\ readfds' = readfds \cup {NewFd}
  /\ ret' = Ng(fn)
  /\ UNCHANGED openFds

\* The outcome of the system calls: socket() fails when no descriptor is left.
Outcome(o) == o \in KernelOutcomes \ {"unresolved"} /\ (FreeFds = {} => o = "noSocket")

\* kSocketOpen.  A failed bind() frees the address lists and goes on with an open,
\* unbound descriptor (the build that survives the second freeaddrinfo).
kSocketOpen(type, sport, saddr, dport, daddr, o, parser) ==
  LET fn == "CONNECT"
      unbound == o = "bindFails"
      si == [Info(NextId, type, NewFd, 0, IF unbound THEN 0 ELSE sport,
                  IF unbound THEN 0 ELSE saddr, dport, daddr)
               EXCEPT !.peer = IF unbound THEN <<0, 0>> ELSE @]
  IN  \/ /\ sockId = SOCKET_MAXNUM \/ o \in {"noSocket", "connectFails"}
         /\ OpenFails(fn)
      \/ /\ sockId # SOCKET_MAXNUM /\ o \in {"ok", "sockoptFails", "bindFails"}
         /\ ~parser
         /\ OpenUndone(fn, sockId)
      \/ /\ sockId # SOCKET_MAXNUM /\ o = "sockoptFails"
         /\ parser
         /\ OpenClosedHandle(fn)
      \/ /\ sockId # SOCKET_MAXNUM /\ o \in {"ok", "bindFails"}
         /\ parser
         /\ OpenSucceeds(fn, si)

\* kSocketOpenRaw, which does not look at SOCKET_MAXNUM
kSocketOpenRaw(fn, saddr, daddr, o, parser) ==
  LET si == Info(NextId, "RAW", NewFd, 0, 0, saddr, 0, daddr)
  IN  \/ o # "ok" /\ OpenFails(fn)
      \/ o = "ok" /\ ~parser /\ OpenUndone(fn, sockId)
      \/ o = "ok" /\ parser /\ OpenSucceeds(fn, si)

\* IsExistSameSocket, for the type whose record it reads correctly
IsExistSameSocket(type, sport) ==
  \E i \in Alive : type = "LISTEN_TCP" /\ sock[i].type = type /\ sock[i].sport = sport

\* kSocketOpenWaitSocket.  A port already listened on is RETURN_OK with the id unset,
\* which the caller had initialised to 0.
kSocketOpenWaitSocket(type, sport, saddr, o, parser) ==
  LET fn == "WAIT"
      same == IsExistSameSocket(type, sport)
      si == Info(NextId, type, NewFd, 0, sport, saddr, 0, 0)
  IN  \/ /\ same
         /\ ret' = Ok(fn, type, 0)
         /\ UNCHANGED <<sock, sockId, readfds, openFds>>
      \/ /\ ~same
         /\ sockId = SOCKET_MAXNUM \/ o \in {"noSocket", "bindFails", "connectFails"}
         /\ OpenFails(fn)
      \/ /\ ~same /\ sockId # SOCKET_MAXNUM /\ o = "leaks"
         /\ openFds' = openFds \cup {NewFd}
         /\ ret' = Ng(fn)
         /\ UNCHANGED <<sock, sockId, readfds>>
      \/ /\ ~same /\ sockId # SOCKET_MAXNUM /\ o = "sockoptFails"
         /\ OpenClosedHandle(fn)
      \/ /\ ~same /\ sockId # SOCKET_MAXNUM /\ o = "ok"
         /\ IF type = "LISTEN_UDP" /\ ~parser
              THEN OpenUndone(fn, NextId)
              ELSE OpenSucceeds(fn, si)

-----------------------------------------------------------------------------
(* The commands that open sockets, and the handlers of the listening ones *)

\* Mutant: closed sockets match too
ReuseCandidatesAnyStatus(protocol, sport, dport) ==
  {i \in DOMAIN sock : /\ i < Len(sock)
                       /\ protocol # "TCP"
                       /\ sock[i].type = "UDP"
                       /\ sock[i].sport = sport
                       /\ dport = 0 \/ sock[i].dport = dport}

\* The ALIVE UDP entries kSocketCheckNewSocket matches; its loop stops before the last
\* entry of the list, and CM_PROT_TCP skips UDP entries.
ReuseCandidates(protocol, sport, dport) ==
  {i \in Alive : /\ i < Len(sock)
                 /\ protocol # "TCP"
                 /\ sock[i].type = "UDP"
                 /\ sock[i].sport = sport
                 /\ dport = 0 \/ sock[i].dport = dport}

\* Source addresses differ and none of them is the all-zero one
AddrDuplication(i, saddr) == saddr # 0 /\ sock[i].saddr # 0 /\ saddr # sock[i].saddr

\* The entry a CONNECT uses again, or 0: the last candidate decides
Reuse(protocol, sport, saddr, dport) ==
  LET c == ReuseCandidates(protocol, sport, dport)
  IN  IF c = {} THEN 0 ELSE IF AddrDuplication(Max(c), saddr) THEN 0 ELSE Max(c)

\* kSocketCheckNewSocket finds entry i: only the recorded destination changes
kSocketCheckNewSocket(i, type, dport, daddr) ==
  /\ sock' = [sock EXCEPT ![i].dport = dport, ![i].daddr = daddr]
  /\ ret' = Ok("CONNECT", type, sock[i].id)
  /\ UNCHANGED <<sockId, readfds, openFds>>

ConnectType(protocol) ==
  CASE protocol = "UDP" -> "UDP" [] protocol = "ICMP" -> "RAW" [] OTHER -> "DATA"

\* process_command_connect_req up to its kSocketSend
Connect(protocol, sport, saddr, dport, daddr, o, parser) ==
  LET i == Reuse(protocol, sport, saddr, dport)
      type == ConnectType(protocol)
  IN  /\ Selectable /\ HasClient /\ Outcome(o)
      /\ (dport = 0 /\ type # "RAW") => o # "ok"     \* connect() to port 0 fails
      /\ IF i # 0 THEN kSocketCheckNewSocket(i, type, dport, daddr)
         ELSE IF type = "RAW" THEN kSocketOpenRaw("CONNECT", saddr, daddr, o, parser)
         ELSE kSocketOpen(type, sport, saddr, dport, daddr, o, parser)

\* process_command_wait_req
Wait(protocol, sport, saddr, o, parser) ==
  /\ Selectable /\ HasClient /\ Outcome(o)
  /\ CASE protocol = "UDP"  -> kSocketOpenWaitSocket("LISTEN_UDP", sport, saddr, o, parser)
       [] protocol = "ICMP" -> kSocketOpenRaw("WAIT", saddr, 0, o, parser)
       [] OTHER             -> kSocketOpenWaitSocket("LISTEN_TCP", sport, saddr, o, parser)

\* Mutant: the accepted descriptor is not entered into g_readfds
RegisterUnwatched(si) ==
  /\ sockId # SOCKET_MAXNUM
  /\ Len(sock) < MaxEntries
  /\ sock' = Append(sock, si)
  /\ sockId' = si.id
  /\ openFds' = openFds \cup ({si.handle} \ {BadFd})
  /\ UNCHANGED readfds

\* Mutant: the entry of a closed socket is recycled
RegisterRecycled(si) ==
  LET closed == DOMAIN sock \ Alive
  IN  /\ Len(sock) < MaxEntries
      /\ sock' = IF closed = {} THEN Append(sock, si) ELSE [sock EXCEPT ![Min(closed)] = si]
      /\ sockId' = si.id
      /\ readfds' = readfds \cup ({si.handle} \ {BadFd})
      /\ openFds' = openFds \cup ({si.handle} \ {BadFd})

\* kSocketRegistDataSocketInfo and kSocketRegistUnixdSocketInfo refuse a full table;
\* their callers enter the descriptor into g_readfds all the same.
Register(si) ==
  /\ IF sockId = SOCKET_MAXNUM
       THEN UNCHANGED <<sock, sockId>>
       ELSE /\ Len(sock) < MaxEntries
            /\ sock' = Append(sock, si)
            /\ sockId' = si.id
  /\ readfds' = IF si.handle = BadFd THEN readfds ELSE readfds \cup {si.handle}
  /\ openFds' = openFds \cup ({si.handle} \ {BadFd})

ChildType(type) == IF type = "LISTEN_TCP" THEN "DATA" ELSE "UDP"

\* process_si_type_listen on entry i: a peer has connected, or sent a first datagram.
\* Without a parser, or when the TLS handshake fails, the descriptor is neither
\* registered nor closed.
Accept(i, dport, daddr, usable) ==
  /\ Selectable /\ FreeFds # {}
  /\ i \in Alive /\ sock[i].type \in {"LISTEN_TCP", "LISTEN_UDP"}
  /\ IF usable
       THEN Register(Info(NextId, ChildType(sock[i].type), NewFd, sock[i].id,
                          sock[i].sport, sock[i].saddr, dport, daddr))
       ELSE /\ openFds' = openFds \cup {NewFd}
            /\ UNCHANGED <<sock, sockId, readfds>>
  /\ UNCHANGED ret

\* process_si_type_unixd: the result of accept() is registered unseen
UnixAccept(accepted) ==
  /\ Selectable
  /\ accepted => FreeFds # {}
  /\ Register(Info(NextId, "UNIX_DATA", IF accepted THEN NewFd ELSE BadFd, 0, 0, 0, 0, 0))
  /\ UNCHANGED ret

\* process_si_type_udp on entry i, as far as the table goes: the sender of the datagram,
\* the peer of a connected socket, becomes the recorded destination.
UdpRecv(i) ==
  /\ Selectable
  /\ i \in Alive /\ sock[i].type = "UDP" /\ sock[i].peer # <<0, 0>>
  /\ sock' = [sock EXCEPT ![i].dport = sock[i].peer[1], ![i].daddr = sock[i].peer[2]]
  /\ UNCHANGED <<sockId, readfds, openFds, ret>>

-----------------------------------------------------------------------------
(* Closing sockets and sending on them *)

\* The entries a close loop may close: alive, not a UNIX socket, close() succeeds
Closable == {i \in Alive : sock[i].type \notin UnixTypes /\ sock[i].handle \in openFds}

\* datasocketinfo.di_parent_socketid as the loop of pattern 2 sees it at entry i: that
\* of the last entry with a DatasocketInfo it has visited, for a listening entry leaves
\* the variable as it was; garbage, the initial contents of the stack, before the first.
SeenParent(i, garbage) ==
  LET visited == {j \in 1..i : IsAlive(j) /\ sock[j].type \in DataTypes}
  IN  IF visited = {} THEN garbage ELSE sock[Max(visited)].parent

\* kSocketClose's three patterns: the entries it closes
CloseAll == {i \in Closable : i <= SOCKET_MAXNUM}

\* Mutant: a listening socket is closed alone
CloseListenerOnly(id, garbage) == {i \in Closable : i <= sockId /\ sock[i].id = id}

CloseListener(id, garbage) ==
  {i \in Closable : /\ i <= sockId
                    /\ \/ sock[i].id = id
                       \/ sock[i].type = "DATA"
                       \/ SeenParent(i, garbage) = id}

\* Mutant: the UNIX socket is not protected
CloseOneUnprotected(id) ==
  {i \in {WalkTo({j \in DOMAIN sock : sock[j].id = id})} :
     i # 0 /\ IsAlive(i) /\ sock[i].handle \in openFds}

CloseOne(id) ==
  {i \in {WalkTo({j \in DOMAIN sock : sock[j].id = id})} :
     i \in 1..SOCKET_MAXNUM /\ IsAlive(i) /\ sock[i].type # "UNIX" /\ sock[i].handle \in openFds}

CloseSet(id, garbage) ==
  LET i == kSocketGetSIBySocketId(id)
  IN  IF id = 0 THEN CloseAll
      ELSE IF i = 0 THEN {}
      ELSE IF sock[i].type = "LISTEN_TCP" THEN CloseListener(id, garbage)
      ELSE CloseOne(id)

\* Mutant: SELECT_OUT is forgotten
CloseEntriesWatched(S) ==
  /\ sock' = [i \in DOMAIN sock |->
                IF i \in S THEN [sock[i] EXCEPT !.status = "CLOSE"] ELSE sock[i]]
  /\ openFds' = openFds \ {sock[i].handle : i \in S}
  /\ UNCHANGED <<readfds, sockId>>

\* Mutant: the status is not updated
CloseEntriesAlive(S) ==
  LET gone == {sock[i].handle : i \in S}
  IN  /\ readfds' = readfds \ gone
      /\ openFds' = openFds \ gone
      /\ UNCHANGED <<sock, sockId>>

\* close(), SELECT_OUT and SI_STATUS_CLOSE for each entry of S
CloseEntries(S) ==
  LET gone == {sock[i].handle : i \in S}
  IN  /\ sock' = [i \in DOMAIN sock |->
                    IF i \in S THEN [sock[i] EXCEPT !.status = "CLOSE"] ELSE sock[i]]
      /\ readfds' = readfds \ gone
      /\ openFds' = openFds \ gone
      /\ UNCHANGED sockId

\* Its callers only log its result
kSocketClose(id, garbage) ==
  /\ CloseEntries(CloseSet(id, garbage))
  /\ UNCHANGED ret

\* process_si_type_unixd_data at the end of the stream of client i: kSocketClose of the
\* client's socket, then kSocketClose(0)
Disconnect(i) ==
  /\ Selectable
  /\ i \in Alive /\ sock[i].type = "UNIX_DATA" /\ sock[i].handle \in readfds
  /\ CloseEntries(CloseSet(sock[i].id, 0) \cup CloseAll)
  /\ UNCHANGED ret

\* kSocketSend: kSocketGetSIBySocketId refuses UNIX and TCP listening sockets,
\* kDataRegist UDP listening ones; the entry's status is not looked at.  s is what
\* becomes of the send: send() needs an open descriptor; kSocketSendDataUdp returns
\* RETURN_NG, which is true, when it cannot resolve the destination; icmp_send's
\* result is not looked at.
kSocketSend(id, s) ==
  LET i == kSocketGetSIBySocketId(id)
      refused == id < 1 \/ i = 0 \/ sock[i].type \notin {"DATA", "UDP", "RAW"}
  IN  /\ Selectable /\ HasClient
      /\ IF refused
           THEN ret' = Ng("SEND")
           ELSE /\ s = "sent" => sock[i].handle \in openFds
                /\ s = "unresolved" => s \in KernelOutcomes /\ sock[i].type = "UDP"
                /\ ret' = [fn |-> "SEND", type |-> sock[i].type, id |-> id,
                           ok |-> s # "fails" \/ sock[i].type = "RAW",
                           fd |-> IF s = "sent" THEN sock[i].handle ELSE BadFd]
      /\ UNCHANGED <<sock, sockId, readfds, openFds>>

-----------------------------------------------------------------------------
\* koid's start: kSocketOpenUnixdSocket has registered the command socket
SockInit ==
  LET fd == Min(Fds)
  IN  /\ sock = <<Info(1, "UNIX", fd, 0, 0, 0, 0, 0)>>
      /\ sockId = 1
      /\ readfds = {fd}
      /\ openFds = {fd}
      /\ ret = Ng("INIT")

\* Ids clients and timers pass to kSocketClose and kSocketSend: any in the table, the
\* 0 that means all, and one that does not exist
KnownIds == {0, sockId + 1} \cup {sock[i].id : i \in DOMAIN sock}

SockNext ==
  \/ /\ "CONNECT" \in Commands
     /\ \E p \in Protocols, sp \in Ports, sa \in Addrs, dp \in DPorts, da \in DAddrs,
           o \in KernelOutcomes, parser \in BOOLEAN : Connect(p, sp, sa, dp, da, o, parser)
  \/ /\ "WAIT" \in Commands
     /\ \E p \in Protocols, sp \in Ports, sa \in Addrs,
           o \in KernelOutcomes, parser \in BOOLEAN : Wait(p, sp, sa, o, parser)
  \/ \E i \in DOMAIN sock, dp \in DPorts, da \in DAddrs, usable \in BOOLEAN :
       Accept(i, dp, da, usable)
  \/ \E accepted \in BOOLEAN : UnixAccept(accepted)
  \/ \E i \in DOMAIN sock : UdpRecv(i)
  \/ \E id \in KnownIds : \E garbage \in {0, id} : kSocketClose(id, garbage)
  \/ \E i \in DOMAIN sock : Disconnect(i)
  \/ /\ "SEND" \in Commands
     /\ \E id \in KnownIds, s \in SendOutcomes : kSocketSend(id, s)

SockSpec == SockInit /\ [][SockNext]_sockVars

-----------------------------------------------------------------------------
\* The table, the id counter, a short, the descriptor sets and the answers of the
\* commands keep their types.
SockTypeOK ==
  /\ sock \in Seq(SocketInfo)
  /\ sockId \in -(SOCKET_MAXNUM + 1)..SOCKET_MAXNUM
  /\ readfds \subseteq Fds /\ openFds \subseteq Fds
  /\ ret \in Results

\* No two live sockets share a descriptor: dispatching on a handle, and closing one
\* socket, concern one entry of the table, although descriptors are used again.
AliveHandlesDistinct ==
  \A i, j \in Alive : sock[i].handle = sock[j].handle /\ sock[i].handle # BadFd => i = j

\* A live socket has an open descriptor that select() waits on, whatever was opened,
\* closed, refused or failed before: an entry that lost either would never be served.
AliveAreServed ==
  \A i \in Alive : sock[i].handle # BadFd => sock[i].handle \in readfds \cap openFds

\* Every path that closes a descriptor takes it out of g_readfds; one left behind would
\* make every later select() fail with EBADF and koid deaf for ever.
WatchedAreOpen == readfds \subseteq openFds

\* Closing a TCP listening socket leaves no accepted connection of it alive.
ChildrenDieWithParent ==
  \A i, j \in DOMAIN sock :
    /\ i \in Alive /\ sock[i].type = "DATA" /\ sock[i].parent = sock[j].id
    /\ sock[j].type = "LISTEN_TCP"
    => j \in Alive

\* The command socket clients connect to is never closed, whatever ids are closed.
CommandSocketAlive == \E i \in Alive : sock[i].type = "UNIX" /\ sock[i].handle \in readfds

\* A closed socket is never revived and no entry is lost or renamed.
ClosedForGood ==
  [][\A i \in DOMAIN sock :
       /\ i \in DOMAIN sock'
       /\ sock'[i].id = sock[i].id /\ sock'[i].handle = sock[i].handle
       /\ ~IsAlive(i) => sock'[i].status = "CLOSE"]_sockVars

\* The id a successful CONNECT answers is that of a live socket, although an old UDP socket
\* may be used again (by an ICMP CONNECT too) and an id may have been given back.
ConnectAnswersLive ==
  [][ret' # ret /\ ret'.fn = "CONNECT" /\ ret'.ok =>
       \E i \in DOMAIN sock' : sock'[i].id = ret'.id /\ sock'[i].status = "ALIVE"]_sockVars
=============================================================================
