--------------------------------- MODULE Vel ---------------------------------
(***************************************************************************)
(* vel: the manager velm, which runs the threads of a scenario             *)
(* (TgExecThread, TgStatement, TgSyncEvent, TgAgntCtrl), and one agent     *)
(* vela on every host, which owns the sockets (TgServer, TcAccept,         *)
(* TcSocket).  Manager and agent talk over one TCP connection per host.    *)
(*                                                                         *)
(* The manager has one thread of control: it takes one message or timer at *)
(* a time and goes on with the threads this completes, each until it waits *)
(* again (run).  An agent names its sockets by their file descriptors, the *)
(* lowest number that is free.  The traffic of a statement is one packet;  *)
(* module VelTraffic has the rest of it, module Velo that of commands.     *)
(***************************************************************************)
EXTENDS Integers, Sequences, FiniteSets, FiniteSetsExt, SequencesExt

CONSTANTS Threads,      \* the actions of the scenario
          Hosts,        \* the hosts, an agent on each
          Traffic,      \* the connection of each thread: hosts, addresses, protocol
          Script,       \* the statements of each thread
          Members,      \* the threads each event waits for
          Order         \* the threads in the order the scenario names them

Events == DOMAIN Members

Kinds == {"connect", "oneway", "close", "execute", "sync", "wait", "delay", "print"}

\* The scenario, as it was read and found to be right; it names an action once
ASSUME VelAssumption ==
  /\ \A t \in Threads :
       /\ Traffic[t].proto \in {"TCP", "UDP"}
       /\ {Traffic[t].chost, Traffic[t].shost} \subseteq Hosts
       /\ Len(Script[t]) \in Nat /\ DOMAIN Script[t] = 1 .. Len(Script[t])
       /\ \A i \in DOMAIN Script[t] :
            /\ Script[t][i].kind \in Kinds
            /\ Script[t][i].kind = "execute" => Script[t][i].host \in Hosts
  /\ \A e \in Events : Members[e] \subseteq Threads
  /\ Order \in Seq(Threads) /\ {Order[i] : i \in DOMAIN Order} = Threads
  /\ \A i, j \in DOMAIN Order : Order[i] = Order[j] => i = j

VARIABLES th,       \* each thread: stmtPos_ (0 after an error), step_, locked
          run,      \* the threads whose next() is to run before anything else
          started,  \* the agents that are ready
          rno,      \* rno_base
          reqs,     \* requests_ of each agent's TgAgntCtrl
          listens,  \* listens_
          accepts,  \* accepts_
          conns,    \* connects_
          events,   \* the TgSyncEvent objects
          delays,   \* threads whose delay timer runs
          down, up, \* the connections between manager and agents
          socks,    \* the sockets of each agent
          net,      \* what is on its way between, or buffered in, the sockets
          cmds      \* commands a host executes

mgrVars == <<th, run, started, rno, reqs, listens, accepts, conns, events, delays>>
agentVars == <<socks, net, cmds>>
velVars == <<mgrVars, down, up, agentVars>>

VelInit ==
  /\ th = [t \in Threads |-> [pos |-> 1, step |-> 0, locked |-> FALSE]]
  /\ run = Order /\ started = {} /\ rno = 1
  /\ reqs = [h \in Hosts |-> {}] /\ listens = [h \in Hosts |-> {}]
  /\ accepts = [h \in Hosts |-> {}] /\ conns = [h \in Hosts |-> {}]
  /\ events = [e \in Events |-> [waitfor |-> Members[e], cbs |-> <<>>, timer |-> FALSE,
                                 live |-> TRUE]]
  /\ delays = {}
  /\ down = [h \in Hosts |-> <<[kind |-> "start", id |-> 0]>>] /\ up = [h \in Hosts |-> <<>>]
  /\ socks = [h \in Hosts |-> {}] /\ net = {}
  /\ cmds = [h \in Hosts |-> {}]

-----------------------------------------------------------------------------
(* The manager: a step of the thread at the head of run                     *)

\* The operations of a statement's doStep(), and the host each one is for
Ops(s) ==
  CASE s.kind = "connect" -> <<"open", "listen", "connect", "accept">>
    [] s.kind = "oneway" -> <<"recv", "snd", "recveffect">>
    [] s.kind = "close" -> <<"close client", "close server">>
    [] OTHER -> <<s.kind>>

Cur == Head(run)
Stmt(t) == Script[t][th[t].pos]
Op(t) == Ops(Stmt(t))[th[t].step + 1]

\* The threads start once every agent has answered
Running(t) == started = Hosts /\ run # <<>> /\ t = Cur

OpIs(t, op) ==
  /\ Running(t)
  /\ th[t].pos \in DOMAIN Script[t]
  /\ th[t].step < Len(Ops(Stmt(t)))
  /\ Op(t) = op

Waits(t) == th' = [th EXCEPT ![t].locked = TRUE] /\ run' = Tail(run)
GoesOn(t) == th' = [th EXCEPT ![t].step = @ + 1] /\ UNCHANGED run
Aborts(t) == th' = [th EXCEPT ![t].pos = 0] /\ run' = Tail(run)

\* add() of the collections keeps the element with the same key, if there is one
AddReq(s, r) == IF \E o \in s : o.id = r.id /\ o.stat = r.stat THEN s ELSE s \cup {r}
AddListen(s, l) == IF \E o \in s : o.addr = l.addr THEN s ELSE s \cup {l}
AddAccept(s, a) == IF \E o \in s : o.caddr = a.caddr /\ o.saddr = a.saddr
                     THEN s ELSE s \cup {a}
AddConn(s, c) == IF \E o \in s : o.addr = c.addr /\ o.t = c.t /\ o.stat = c.stat
                   THEN s ELSE s \cup {c}

Req(stat, id, t, addr) == [stat |-> stat, id |-> id, t |-> t, addr |-> addr]
Conn(stat, id, addr, t) == [stat |-> stat, id |-> id, addr |-> addr, t |-> t]

\* An indication is sent and the request is noted
Ask(h, stat, id, t, addr, msg) ==
  /\ down' = [down EXCEPT ![h] = Append(@, msg)]
  /\ reqs' = [reqs EXCEPT ![h] = AddReq(@, Req(stat, id, t, addr))]
  /\ Waits(t)

Idle(h, t, addr, stat) == {c \in conns[h] : c.addr = addr /\ c.t = t /\ c.stat = stat}

opOpen(t) ==
  /\ OpIs(t, "open")
  /\ LET c == Traffic[t]
     IN Ask(c.chost, "open", rno, t, c.caddr,
            [kind |-> "open", id |-> rno, proto |-> c.proto, src |-> c.caddr, dst |-> c.saddr])
  /\ rno' = rno + 1
  /\ UNCHANGED <<started, listens, accepts, conns, events, delays, up, agentVars>>

\* A listener of another thread's, even one still on its way, will do
opListen(t) ==
  /\ OpIs(t, "listen")
  /\ LET c == Traffic[t]
     IN IF c.proto = "TCP" /\ \E l \in listens[c.shost] : l.addr = c.saddr
          THEN GoesOn(t) /\ UNCHANGED <<rno, reqs, listens, down>>
          ELSE /\ Ask(c.shost, "listen", rno, t, c.saddr,
                      [kind |-> "listen", id |-> rno, proto |-> c.proto, src |-> c.saddr])
               /\ listens' = [listens EXCEPT ![c.shost] =
                    AddListen(@, [stat |-> "req", req |-> rno, addr |-> c.saddr])]
               /\ rno' = rno + 1
  /\ UNCHANGED <<started, accepts, conns, events, delays, up, agentVars>>

\* The operations on a connection of the thread in state stat
OnConn(t, h, addr, stat, kind) ==
  IF Idle(h, t, addr, stat) = {}
    THEN Aborts(t) /\ UNCHANGED <<reqs, down>>
    ELSE LET id == (CHOOSE c \in Idle(h, t, addr, stat) : TRUE).id
         IN Ask(h, kind, id, t, addr, [kind |-> kind, id |-> id])

opConnect(t) ==
  /\ OpIs(t, "connect")
  /\ OnConn(t, Traffic[t].chost, Traffic[t].caddr, "opened", "connect")
  /\ UNCHANGED <<started, rno, listens, accepts, conns, events, delays, up, agentVars>>

\* opSend, opReceive and opRecvTerminate
opTraffic(t) ==
  /\ \/ /\ OpIs(t, "snd")
        /\ OnConn(t, Traffic[t].chost, Traffic[t].caddr, "connected", "snd")
     \/ /\ OpIs(t, "recv") \/ OpIs(t, "recveffect")
        /\ OnConn(t, Traffic[t].shost, Traffic[t].saddr, "connected", Op(t))
  /\ UNCHANGED <<started, rno, listens, accepts, conns, events, delays, up, agentVars>>

\* Mutant: the accepted report is not waited for
opAcceptAtOnce(t) ==
  /\ OpIs(t, "accept")
  /\ GoesOn(t)
  /\ UNCHANGED <<started, rno, reqs, listens, accepts, conns, events, delays, down, up,
                 agentVars>>

opAccept(t) ==
  /\ OpIs(t, "accept")
  /\ LET c == Traffic[t]
         come == {a \in accepts[c.shost] : a.caddr = c.caddr /\ a.saddr = c.saddr}
         ls == {l \in listens[c.shost] : l.addr = c.saddr}
     IN CASE c.proto = "UDP" -> GoesOn(t) /\ UNCHANGED <<reqs, accepts, conns>>
          [] c.proto = "TCP" /\ come # {} ->
               /\ accepts' = [accepts EXCEPT ![c.shost] = @ \ come]
               /\ conns' = [conns EXCEPT ![c.shost] =
                    AddConn(@, Conn("connected", (CHOOSE a \in come : TRUE).id, c.saddr, t))]
               /\ GoesOn(t) /\ UNCHANGED reqs
          [] c.proto = "TCP" /\ come = {} /\ ls = {} ->
               Aborts(t) /\ UNCHANGED <<reqs, accepts, conns>>
          [] OTHER ->
               /\ reqs' = [reqs EXCEPT ![c.shost] =
                    AddReq(@, Req("accept", (CHOOSE l \in ls : TRUE).req, t, c.caddr))]
               /\ Waits(t) /\ UNCHANGED <<accepts, conns>>
  /\ UNCHANGED <<started, rno, listens, events, delays, down, up, agentVars>>

\* opClose: what is not connected, or was reported closed, needs no closing
CloseAt(t, h, addr) ==
  LET cs == Idle(h, t, addr, "connected")
  IN IF cs = {} THEN GoesOn(t) /\ UNCHANGED <<reqs, conns, down>>
     ELSE LET c == CHOOSE c \in cs : TRUE
          IN /\ conns' = [conns EXCEPT ![h] = (@ \ {c}) \cup {[c EXCEPT !.stat = "closing"]}]
             /\ Ask(h, "close", c.id, t, addr, [kind |-> "close", id |-> c.id])

opClose(t) ==
  /\ \/ OpIs(t, "close client") /\ CloseAt(t, Traffic[t].chost, Traffic[t].caddr)
     \/ OpIs(t, "close server") /\ CloseAt(t, Traffic[t].shost, Traffic[t].saddr)
  /\ UNCHANGED <<started, rno, listens, accepts, events, delays, up, agentVars>>

opCommand(t) ==
  /\ OpIs(t, "execute")
  /\ Ask(Stmt(t).host, "exec", rno, t, 0, [kind |-> "exec", id |-> rno])
  /\ rno' = rno + 1
  /\ UNCHANGED <<started, listens, accepts, conns, events, delays, up, agentVars>>

\* Mutant: the first thread that comes starts the timer
syncEventEager(t) ==
  /\ OpIs(t, "sync") \/ OpIs(t, "wait")
  /\ events' = [events EXCEPT ![Stmt(t).event] =
       [@ EXCEPT !.waitfor = @ \ {t}, !.cbs = Append(@, t), !.timer = TRUE]]
  /\ Waits(t)
  /\ UNCHANGED <<started, rno, reqs, listens, accepts, conns, delays, down, up, agentVars>>

\* syncEvent and waitEvent, which reads a line from the terminal before it
\* lets the threads go: the last thread starts the timer
syncEvent(t) ==
  /\ OpIs(t, "sync") \/ OpIs(t, "wait")
  /\ LET e == events[Stmt(t).event]
     IN IF Stmt(t).event \notin Events \/ ~e.live \/ t \notin e.waitfor
          THEN Aborts(t) /\ UNCHANGED events
          ELSE /\ events' = [events EXCEPT ![Stmt(t).event] =
                    [e EXCEPT !.waitfor = @ \ {t}, !.cbs = Append(@, t),
                              !.timer = (e.waitfor = {t})]]
               /\ Waits(t)
  /\ UNCHANGED <<started, rno, reqs, listens, accepts, conns, delays, down, up, agentVars>>

stmtDelay(t) ==
  /\ OpIs(t, "delay")
  /\ delays' = delays \cup {t}
  /\ Waits(t)
  /\ UNCHANGED <<started, rno, reqs, listens, accepts, conns, events, down, up, agentVars>>

stmtPrint(t) ==
  /\ OpIs(t, "print")
  /\ GoesOn(t)
  /\ UNCHANGED <<started, rno, reqs, listens, accepts, conns, events, delays, down, up,
                 agentVars>>

\* next(): the statement is over; there is no other
nextStatement(t) ==
  /\ Running(t)
  /\ \/ /\ th[t].pos \in DOMAIN Script[t] /\ th[t].step = Len(Ops(Stmt(t)))
        /\ th' = [th EXCEPT ![t].pos = @ + 1, ![t].step = 0]
        /\ UNCHANGED run
     \/ /\ th[t].pos > Len(Script[t])
        /\ run' = Tail(run)
        /\ UNCHANGED th
  /\ UNCHANGED <<started, rno, reqs, listens, accepts, conns, events, delays, down, up,
                 agentVars>>

doStep(t) ==
  \/ opOpen(t) \/ opListen(t) \/ opConnect(t) \/ opTraffic(t) \/ opAccept(t)
  \/ opClose(t) \/ opCommand(t) \/ syncEvent(t) \/ stmtDelay(t) \/ stmtPrint(t)
  \/ nextStatement(t)

-----------------------------------------------------------------------------
(* The manager: a message of an agent, or a timer                           *)

\* dispatch() runs when no thread can go on
Dispatching == run = <<>>
Takes(h, kind) ==
  /\ up[h] # <<>> /\ Head(up[h]).kind = kind
  /\ up' = [up EXCEPT ![h] = Tail(@)]

\* complete(): the statement's next step; error(): the thread aborts
Ends(t, res) ==
  IF res = 0 THEN /\ th' = [th EXCEPT ![t].step = @ + 1, ![t].locked = FALSE]
                  /\ run' = <<t>>
             ELSE /\ th' = [th EXCEPT ![t].pos = 0, ![t].locked = FALSE]
                  /\ UNCHANGED run

\* The request of h that its first message answers; a message nobody asked for is dropped
Asked(h, stat) == {r \in reqs[h] : r.id = Head(up[h]).id /\ r.stat = stat}
Settle(h, stat, res) ==
  IF Asked(h, stat) = {} THEN UNCHANGED <<reqs, th, run>>
  ELSE LET r == CHOOSE r \in Asked(h, stat) : TRUE
       IN reqs' = [reqs EXCEPT ![h] = @ \ {r}] /\ Ends(r.t, res)
\* The entry of connects_ a successful answer adds
Connects(h, stat, as, id) ==
  LET m == Head(up[h])
  IN IF m.res # 0 \/ Asked(h, stat) = {} THEN UNCHANGED conns
     ELSE LET r == CHOOSE r \in Asked(h, stat) : TRUE
          IN conns' = [conns EXCEPT ![h] = AddConn(@, Conn(as, id, r.addr, r.t))]

recvStartConfirm(h) ==
  /\ started # Hosts
  /\ Takes(h, "start")
  /\ started' = started \cup {h}
  /\ UNCHANGED <<th, run, rno, reqs, listens, accepts, conns, events, delays, down, agentVars>>

recvOpenConfirm(h) ==
  /\ Dispatching /\ Takes(h, "open")
  /\ Connects(h, "open", "opened", Head(up[h]).sock)
  /\ Settle(h, "open", Head(up[h]).res)
  /\ UNCHANGED <<started, rno, listens, accepts, events, delays, down, agentVars>>

recvListenConfirm(h) ==
  /\ Dispatching /\ Takes(h, "listen")
  /\ LET m == Head(up[h])
         r == CHOOSE r \in Asked(h, "listen") : TRUE
         les == {l \in listens[h] : l.addr = r.addr}
         lost == Asked(h, "listen") = {} \/ ~\E l \in les : l.stat = "req"
     IN IF lost THEN UNCHANGED <<listens, conns, reqs, th, run>>
        ELSE /\ listens' = [listens EXCEPT ![h] = (@ \ les) \cup
                  (IF m.res = 0 /\ Traffic[r.t].proto = "TCP"
                     THEN {[stat |-> "listen", req |-> m.id, addr |-> r.addr]} ELSE {})]
             /\ IF Traffic[r.t].proto = "UDP" THEN Connects(h, "listen", "connected", m.sock)
                ELSE UNCHANGED conns
             /\ Settle(h, "listen", m.res)
  /\ UNCHANGED <<started, rno, accepts, events, delays, down, agentVars>>

\* A connection the thread is not waiting for yet is kept in accepts_
opAcceptedReport(h) ==
  /\ Dispatching /\ Takes(h, "accepted")
  /\ LET m == Head(up[h])
         les == {l \in listens[h] : l.req = m.id}
         le == CHOOSE l \in les : TRUE
         res == {r \in Asked(h, "accept") : r.addr = m.addr}
     IN CASE les = {} -> UNCHANGED <<conns, accepts, reqs, th, run>>
          [] les # {} /\ res # {} ->
               LET r == CHOOSE r \in res : TRUE
               IN /\ conns' = [conns EXCEPT ![h] =
                       AddConn(@, Conn("connected", m.sock, le.addr, r.t))]
                  /\ reqs' = [reqs EXCEPT ![h] = @ \ {r}]
                  /\ Ends(r.t, 0) /\ UNCHANGED accepts
          [] OTHER ->
               /\ accepts' = [accepts EXCEPT ![h] =
                    AddAccept(@, [id |-> m.sock, caddr |-> m.addr, saddr |-> le.addr])]
               /\ UNCHANGED <<conns, reqs, th, run>>
  /\ UNCHANGED <<started, rno, listens, events, delays, down, agentVars>>

opConnectConfirm(h) ==
  /\ Dispatching /\ Takes(h, "connect")
  /\ Connects(h, "connect", "connected", Head(up[h]).id)
  /\ Settle(h, "connect", Head(up[h]).res)
  /\ UNCHANGED <<started, rno, listens, accepts, events, delays, down, agentVars>>

\* recvSndConfirm, recvRecvConfirm and recvRecvEffectConfirm
recvConfirm(h) ==
  /\ Dispatching
  /\ \E kind \in {"snd", "recv", "recveffect"} :
       Takes(h, kind) /\ Settle(h, kind, Head(up[h]).res)
  /\ UNCHANGED <<started, rno, listens, accepts, conns, events, delays, down, agentVars>>

\* recvCmdExecConfirm; recvCmdCancelConfirm, which completes the statement whatever the
\* command's status
recvCmdConfirm(h) ==
  /\ Dispatching
  /\ \/ Takes(h, "exec") /\ Settle(h, "exec", Head(up[h]).res)
     \/ Takes(h, "cancel") /\ Settle(h, "exec", 0)
  /\ UNCHANGED <<started, rno, listens, accepts, conns, events, delays, down, agentVars>>

\* Closed and reported before: the answer may be an error then
recvCloseConfirm(h) ==
  /\ Dispatching /\ Takes(h, "close")
  /\ LET rs == Asked(h, "close")
         cs == UNION {Idle(h, r.t, r.addr, "closing") : r \in rs}
     IN /\ conns' = [conns EXCEPT ![h] = @ \ cs]
        /\ Settle(h, "close", IF cs = {} THEN 0 ELSE Head(up[h]).res)
  /\ UNCHANGED <<started, rno, listens, accepts, events, delays, down, agentVars>>

recvClosedReport(h) ==
  /\ Dispatching /\ Takes(h, "closed")
  /\ LET cs == {c \in conns[h] : c.id = Head(up[h]).id}
     IN IF cs = {} THEN UNCHANGED conns
        ELSE \E c \in cs : conns' = [conns EXCEPT ![h] = @ \ {c}]
  /\ UNCHANGED <<th, run, started, rno, reqs, listens, accepts, events, delays, down, agentVars>>

\* timerExpired of a TgSyncEvent: everyone who came goes on, in the order they came
eventExpired(e) ==
  /\ Dispatching
  /\ events[e].timer
  /\ th' = [t \in Threads |-> IF \E i \in DOMAIN events[e].cbs : events[e].cbs[i] = t
                                THEN [th[t] EXCEPT !.step = @ + 1, !.locked = FALSE]
                                ELSE th[t]]
  /\ run' = events[e].cbs
  /\ events' = [events EXCEPT ![e].live = FALSE, ![e].timer = FALSE, ![e].cbs = <<>>]
  /\ UNCHANGED <<started, rno, reqs, listens, accepts, conns, delays, down, up, agentVars>>

\* Mutant: the timer runs again and nobody is told
delayExpiredRearms(t) ==
  /\ Dispatching /\ t \in delays
  /\ UNCHANGED velVars

\* timerExpired of a TgExecDelayTimer
delayExpired(t) ==
  /\ Dispatching
  /\ t \in delays /\ delays' = delays \ {t}
  /\ Ends(t, 0)
  /\ UNCHANGED <<started, rno, reqs, listens, accepts, conns, events, down, up, agentVars>>

-----------------------------------------------------------------------------
(* The agents.  A request is served to its end before the next event.       *)

Serves(h, kind) ==
  /\ down[h] # <<>> /\ Head(down[h]).kind = kind
  /\ down' = [down EXCEPT ![h] = Tail(@)]
Reply(h, kind, id, sock, res, addr) ==
  up' = [up EXCEPT ![h] = Append(@, [kind |-> kind, id |-> id, sock |-> sock,
                                     res |-> res, addr |-> addr])]

\* A descriptor is the lowest one that is free
Fd(h) == Min((1 .. Cardinality(socks[h]) + 1) \ {s.id : s \in socks[h]})
Sock(h, kind, addr, dst, req) ==
  [id |-> Fd(h), kind |-> kind, addr |-> addr, dst |-> dst, req |-> req,
   want |-> FALSE, got |-> FALSE, effect |-> FALSE]
findAgent(h) == {s \in socks[h] : s.id = Head(down[h]).id}
Packet(what, src, dst, kind) == [what |-> what, src |-> src, dst |-> dst, kind |-> kind]
Change(h, s, t) == socks' = [socks EXCEPT ![h] = (@ \ {s}) \cup {t}]

startRequest(h) ==
  /\ Serves(h, "start")
  /\ Reply(h, "start", 0, 0, 0, 0)
  /\ UNCHANGED <<mgrVars, agentVars>>

\* openRequest and listenRequest: bind() refuses an address in use
Binds(h, kind, addr, dst) ==
  LET m == Head(down[h])
  IN IF \E s \in socks[h] : s.addr = addr /\ (s.kind = "dgram") = (kind = "dgram")
       THEN Reply(h, m.kind, m.id, 0, 1, 0) /\ UNCHANGED socks
       ELSE /\ Reply(h, m.kind, m.id, Fd(h), 0, 0)
            /\ socks' = [socks EXCEPT ![h] = @ \cup {Sock(h, kind, addr, dst, m.id)}]

openRequest(h) ==
  /\ Serves(h, "open")
  /\ LET m == Head(down[h])
     IN Binds(h, IF m.proto = "TCP" THEN "stream" ELSE "dgram", m.src, m.dst)
  /\ UNCHANGED <<mgrVars, net, cmds>>

listenRequest(h) ==
  /\ Serves(h, "listen")
  /\ LET m == Head(down[h])
     IN Binds(h, IF m.proto = "TCP" THEN "listen" ELSE "dgram", m.src, 0)
  /\ UNCHANGED <<mgrVars, net, cmds>>

\* The kernel of the other host completes a TCP connection if somebody listens; for a
\* socket that is not there errno is answered, whatever an earlier call left in it
connectRequest(h) ==
  /\ Serves(h, "connect")
  /\ LET id == Head(down[h]).id
         heard(s) == \E g \in Hosts : \E l \in socks[g] : l.kind = "listen" /\ l.addr = s.dst
     IN IF findAgent(h) = {} THEN /\ \E errno \in {0, 1} : Reply(h, "connect", id, 0, errno, 0)
                                  /\ UNCHANGED net
        ELSE \E s \in findAgent(h) :
               IF s.kind = "stream"
                 THEN /\ Reply(h, "connect", id, 0, IF heard(s) THEN 0 ELSE 1, 0)
                      /\ net' = IF heard(s) THEN net \cup {Packet("conn", s.addr, s.dst, s.kind)}
                                ELSE net
                 ELSE Reply(h, "connect", id, 0, 0, 0) /\ UNCHANGED net
  /\ UNCHANGED <<mgrVars, socks, cmds>>

\* TcAccept::accept and report
accept(h) ==
  /\ \E l \in socks[h], p \in net :
       /\ l.kind = "listen" /\ p.what = "conn" /\ p.dst = l.addr
       /\ net' = net \ {p}
       /\ socks' = [socks EXCEPT ![h] = @ \cup {Sock(h, "stream", l.addr, p.src, 0)}]
       /\ Reply(h, "accepted", l.req, Fd(h), 0, p.src)
  /\ UNCHANGED <<mgrVars, down, cmds>>

sndRequest(h) ==
  /\ Serves(h, "snd")
  /\ IF findAgent(h) = {} THEN Reply(h, "snd", Head(down[h]).id, 0, 1, 0) /\ UNCHANGED net
     ELSE \E s \in findAgent(h) :
            /\ net' = net \cup {Packet("data", s.addr, s.dst, s.kind)}
            /\ Reply(h, "snd", s.id, 0, 0, 0)
  /\ UNCHANGED <<mgrVars, socks, cmds>>

recvRequest(h) ==
  /\ Serves(h, "recv")
  /\ IF findAgent(h) = {} THEN Reply(h, "recv", Head(down[h]).id, 0, 1, 0) /\ UNCHANGED socks
     ELSE \E s \in findAgent(h) :
            /\ Change(h, s, [s EXCEPT !.want = TRUE, !.got = FALSE, !.effect = FALSE])
            /\ Reply(h, "recv", s.id, 0, 0, 0)
  /\ UNCHANGED <<mgrVars, net, cmds>>

\* effectAction: a TCP socket answers once everything is here, a UDP socket at once
recvEffectRequest(h) ==
  /\ Serves(h, "recveffect")
  /\ IF findAgent(h) = {}
       THEN Reply(h, "recveffect", Head(down[h]).id, 0, 1, 0) /\ UNCHANGED socks
       ELSE \E s \in findAgent(h) :
              IF s.kind = "dgram" \/ s.got
                THEN Reply(h, "recveffect", s.id, 0, 0, 0) /\ UNCHANGED socks
                ELSE Change(h, s, [s EXCEPT !.effect = TRUE]) /\ UNCHANGED up
  /\ UNCHANGED <<mgrVars, net, cmds>>

\* What has come for a socket; the end of the stream comes after the data
Arrived(s, what) ==
  {p \in net : p.what = what /\ p.dst = s.addr /\ p.kind = s.kind
                /\ (s.kind = "stream" => p.src = s.dst)}

\* Mutant: what RECVEFFECT waits for is not reported
receivePacketSilent(h) ==
  /\ \E s \in socks[h] :
       /\ s.want
       /\ \E p \in Arrived(s, "data") :
            /\ net' = net \ {p}
            /\ Change(h, s, [s EXCEPT !.got = TRUE, !.effect = FALSE])
  /\ UNCHANGED <<mgrVars, up, down, cmds>>

\* receivePacket and postReceive, once receiving was asked for
receivePacket(h) ==
  /\ \E s \in socks[h] :
       /\ s.want
       /\ \/ \E p \in Arrived(s, "data") :
               /\ net' = net \ {p}
               /\ Change(h, s, [s EXCEPT !.got = TRUE, !.effect = FALSE])
               /\ IF s.effect THEN Reply(h, "recveffect", s.id, 0, 0, 0) ELSE UNCHANGED up
          \/ /\ Arrived(s, "data") = {}
             /\ \E p \in Arrived(s, "eof") :
                  /\ net' = net \ {p}
                  /\ socks' = [socks EXCEPT ![h] = @ \ {s}]
                  /\ Reply(h, "closed", s.id, 0, 0, 0)
  /\ UNCHANGED <<mgrVars, down, cmds>>

closeRequest(h) ==
  /\ Serves(h, "close")
  /\ IF findAgent(h) = {}
       THEN Reply(h, "close", Head(down[h]).id, 0, 1, 0) /\ UNCHANGED <<socks, net>>
       ELSE \E s \in findAgent(h) :
              /\ socks' = [socks EXCEPT ![h] = @ \ {s}]
              /\ net' = IF s.kind = "stream" THEN net \cup {Packet("eof", s.addr, s.dst, s.kind)}
                        ELSE net
              /\ Reply(h, "close", s.id, 0, 0, 0)
  /\ UNCHANGED <<mgrVars, cmds>>

cmdexecRequest(h) ==
  /\ Serves(h, "exec")
  /\ cmds' = [cmds EXCEPT ![h] = @ \cup {Head(down[h]).id}]
  /\ UNCHANGED <<mgrVars, up, socks, net>>

\* velo's answer: the command succeeded, or ended with a status or a signal
CommandEnds(h) ==
  /\ \E id \in cmds[h] :
       /\ cmds' = [cmds EXCEPT ![h] = @ \ {id}]
       /\ \/ Reply(h, "exec", id, 0, 0, 0)
          \/ Reply(h, "cancel", id, 0, 1, 0)
  /\ UNCHANGED <<mgrVars, down, socks, net>>

\* The network loses a datagram
Loses ==
  /\ \E p \in net : p.kind = "dgram" /\ net' = net \ {p}
  /\ UNCHANGED <<mgrVars, down, up, socks, cmds>>

-----------------------------------------------------------------------------
isEnd(t) == th[t].pos = 0 \/ th[t].pos > Len(Script[t])
AllEnded == run = <<>> /\ \A t \in Threads : isEnd(t)

\* isAllComplete(): velm exits
Exits == AllEnded /\ UNCHANGED velVars

ManagerTakes(h) ==
  \/ recvStartConfirm(h) \/ recvOpenConfirm(h) \/ recvListenConfirm(h)
  \/ opAcceptedReport(h) \/ opConnectConfirm(h) \/ recvConfirm(h)
  \/ recvCmdConfirm(h) \/ recvCloseConfirm(h) \/ recvClosedReport(h)

AgentServes(h) ==
  \/ startRequest(h) \/ openRequest(h) \/ listenRequest(h) \/ connectRequest(h)
  \/ sndRequest(h) \/ recvRequest(h) \/ recvEffectRequest(h) \/ closeRequest(h)
  \/ cmdexecRequest(h)

VelNext ==
  \/ \E t \in Threads : doStep(t) \/ delayExpired(t)
  \/ \E e \in Events : eventExpired(e)
  \/ \E h \in Hosts : ManagerTakes(h) \/ AgentServes(h) \/ accept(h) \/ receivePacket(h)
                       \/ CommandEnds(h)
  \/ Loses
  \/ Exits

\* dispatch() of manager and agents serves every descriptor and timer that is
\* ready, and commands end
VelFairness ==
  /\ \A t \in Threads : WF_velVars(doStep(t)) /\ WF_velVars(delayExpired(t))
  /\ \A e \in Events : WF_velVars(eventExpired(e))
  /\ \A h \in Hosts :
       /\ WF_velVars(ManagerTakes(h)) /\ WF_velVars(AgentServes(h)) /\ WF_velVars(accept(h))
       /\ WF_velVars(receivePacket(h)) /\ WF_velVars(CommandEnds(h))

VelSpec == VelInit /\ [][VelNext]_velVars /\ VelFairness

-----------------------------------------------------------------------------
(* Properties                                                               *)

\* The kinds of the manager's tables and of the agents' sockets; a host has
\* no two sockets with the same number and requests_ no two with the same key.
VelTypeOK ==
  /\ \A t \in Threads : th[t].pos \in 0 .. Len(Script[t]) + 1 /\ th[t].locked \in BOOLEAN
  /\ run \in Seq(Threads) /\ started \subseteq Hosts /\ rno \in Nat
  /\ \A h \in Hosts :
       /\ \A r, q \in reqs[h] : r.id = q.id /\ r.stat = q.stat => r = q
       /\ \A c \in conns[h] : c.stat \in {"opened", "connected", "closing"}
       /\ \A s, u \in socks[h] : s.id = u.id => s = u
       /\ \A s \in socks[h] : s.kind \in {"stream", "listen", "dgram"}
  /\ delays \subseteq Threads

\* The entries of connects_ a thread works with while its connection is up
IsUp(t) == th[t].pos \in DOMAIN Script[t] /\ Stmt(t).kind = "oneway"
ConnId(h, t, addr) == {c.id : c \in {d \in conns[h] : d.t = t /\ d.addr = addr
                                                      /\ d.stat = "connected"}}

(***************************************************************************)
(* When the connect statement of a thread is over, the manager knows one   *)
(* socket at each host for it, and these two are live and are the two ends *)
(* of one connection: the open, listen, connect and accepted answers of    *)
(* two agents were put together right (TgStmtConnect::doStep,              *)
(* opAcceptedReport).                                                      *)
(***************************************************************************)
EndsMeet ==
  \A t \in Threads : IsUp(t) =>
    LET c == Traffic[t]
    IN \E i \in ConnId(c.chost, t, c.caddr), j \in ConnId(c.shost, t, c.saddr) :
         \E s \in socks[c.chost], u \in socks[c.shost] :
           /\ s.id = i /\ s.addr = c.caddr /\ s.dst = c.saddr
           /\ u.id = j /\ u.addr = c.saddr /\ u.kind = s.kind
           /\ c.proto = "TCP" => u.dst = c.caddr

\* What will end request r at h: the request itself, the work of the agent, the answer
Count(q, kind, id) == Cardinality({i \in DOMAIN q : q[i].kind = kind /\ q[i].id = id})
Owed(h, r) ==
  IF r.stat = "accept"
    THEN Cardinality({p \in net : p.what = "conn" /\ p.src = r.addr
                                  /\ \E l \in listens[h] : l.addr = p.dst /\ l.req = r.id})
         + Cardinality({i \in DOMAIN up[h] : up[h][i].kind = "accepted" /\ up[h][i].id = r.id
                                             /\ up[h][i].addr = r.addr})
    ELSE Count(down[h], r.stat, r.id) + Count(up[h], r.stat, r.id)
         + (IF r.stat = "exec" THEN Count(up[h], "cancel", r.id)
                                    + Cardinality({r.id} \cap cmds[h]) ELSE 0)
         + (IF r.stat = "recveffect" THEN Cardinality({s \in socks[h] : s.id = r.id /\ s.effect})
                                    ELSE 0)
Waiting(t) ==
  Cardinality(UNION {{<<h, r>> : r \in {q \in reqs[h] : q.t = t}} : h \in Hosts})
  + Cardinality({e \in Events : \E i \in DOMAIN events[e].cbs : events[e].cbs[i] = t})
  + (IF t \in delays THEN 1 ELSE 0)

(***************************************************************************)
(* A thread that waits waits for exactly one thing (a request, an event or *)
(* a timer), one that does not waits for nothing, and every pending        *)
(* request has exactly one message, connection or piece of work of an      *)
(* agent that will answer it: no answer is lost, dropped as unexpected or  *)
(* given twice.                                                            *)
(***************************************************************************)
NobodyForgotten ==
  /\ \A t \in Threads : Waiting(t) = (IF th[t].locked THEN 1 ELSE 0)
  /\ \A h \in Hosts : \A r \in reqs[h] : Owed(h, r) = 1

\* The statements of thread t that wait for event e: it is past one, or has come to one
Meets(t, e) == {i \in DOMAIN Script[t] :
                 Script[t][i].kind \in {"sync", "wait"} /\ Script[t][i].event = e}
IsPast(t, e) == \E i \in Meets(t, e) : th[t].pos > i \/ (th[t].pos = i /\ th[t].step > 0)
HasCome(t, e) == \E i \in Meets(t, e) : th[t].pos >= i

(***************************************************************************)
(* Nobody passes a sync or wait statement before every member of the event *)
(* has come to it, or has aborted: "It is set to Active when waiting from  *)
(* all defined sessions" (doc/MANUAL.vel).                                 *)
(***************************************************************************)
SyncTogether ==
  \A e \in Events : \A t \in Threads, u \in Members[e] :
    IsPast(t, e) => HasCome(u, e) \/ th[u].pos = 0

\* The manager waits for nothing and the agents hold no socket but the
\* listeners, which no statement closes
NothingLeft ==
  \A h \in Hosts : /\ reqs[h] = {} /\ accepts[h] = {}
                   /\ \A c \in conns[h] : c.stat = "opened"
                   /\ \A s \in socks[h] : s.kind = "listen"

(***************************************************************************)
(* The scenario comes to its end, whatever the order of answers, the       *)
(* losses of datagrams and the ends of the commands: no thread aborts      *)
(* (TgExecThread::onError), each is through its statements, all of which   *)
(* close what they connected, and nothing is left open or asked for.       *)
(***************************************************************************)
ScenarioEnds ==
  <>[](AllEnded /\ NothingLeft /\ \A t \in Threads : th[t].pos # 0)
=============================================================================
