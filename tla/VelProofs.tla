------------------------------ MODULE VelProofs ------------------------------
(***************************************************************************)
(* The scenario keeps its appointments: the safety properties of vel,      *)
(* proved for every scenario, every number of threads and hosts and        *)
(* whatever the agents answer.                                             *)
(***************************************************************************)
EXTENDS Vel, SequenceTheorems, TLAPS

-----------------------------------------------------------------------------
(* Where a thread can be                                                    *)

AskKinds == {"connect", "oneway", "close", "execute"}
MeetKinds == {"sync", "wait"}

\* The thread waits at a statement of one of these kinds
WaitsAt(t, kinds) ==
  th[t].locked /\ th[t].pos \in DOMAIN Script[t] /\ Stmt(t).kind \in kinds

\* The kinds of the state the threads are in
ThreadTypes ==
  /\ th \in [Threads -> [pos : Nat, step : Nat, locked : BOOLEAN]]
  /\ run \in Seq(Threads)
  /\ DOMAIN reqs = Hosts
  /\ \A h \in Hosts : \A r \in reqs[h] : r.t \in Threads
  /\ events \in [Events -> [waitfor : SUBSET Threads, cbs : Seq(Threads),
                            timer : BOOLEAN, live : BOOLEAN]]
  /\ delays \subseteq Threads

\* Who is to run waits for nothing, and runs once
RunsFree ==
  /\ \A i \in DOMAIN run : ~th[run[i]].locked
  /\ \A i, j \in DOMAIN run : run[i] = run[j] => i = j

\* A thread has one request at most, made by the statement it waits at
AskedByWaiters ==
  /\ \A h \in Hosts : \A r \in reqs[h] : WaitsAt(r.t, AskKinds)
  /\ \A h, g \in Hosts : \A r \in reqs[h], q \in reqs[g] : r.t = q.t => h = g /\ r = q

\* The threads an event will let go wait at a statement for this event
MetByWaiters ==
  \A e \in Events :
    /\ \A i \in DOMAIN events[e].cbs :
         WaitsAt(events[e].cbs[i], MeetKinds) /\ Stmt(events[e].cbs[i]).event = e
    /\ \A i, j \in DOMAIN events[e].cbs : events[e].cbs[i] = events[e].cbs[j] => i = j

DelayedWait == \A t \in delays : WaitsAt(t, {"delay"})

ThreadInv == ThreadTypes /\ RunsFree /\ AskedByWaiters /\ MetByWaiters /\ DelayedWait

\* An event lets nobody go while it waits for a member, and it does not wait
\* for one that has come
EventsWait ==
  \A e \in Events :
    /\ events[e].timer \/ ~events[e].live => events[e].waitfor = {}
    /\ \A u \in Members[e] : u \notin events[e].waitfor => HasCome(u, e) \/ th[u].pos = 0
    /\ \A t \in Threads : IsPast(t, e) => events[e].waitfor = {}

-----------------------------------------------------------------------------
(* What a step does to the threads                                          *)

\* The head of run is at a statement of one of these kinds
IsAt(t, kinds) ==
  /\ t \in Threads /\ run # <<>> /\ t = Head(run)
  /\ th[t].pos \in DOMAIN Script[t] /\ Stmt(t).kind \in kinds

Steps(t) == IsAt(t, AskKinds \cup {"print"}) /\ GoesOn(t) /\ UNCHANGED <<reqs, events, delays>>
Fails(t) ==
  t \in Threads /\ run # <<>> /\ t = Head(run) /\ Aborts(t) /\ UNCHANGED <<reqs, events, delays>>
Asks(t) ==
  /\ IsAt(t, AskKinds) /\ Waits(t)
  /\ \E h \in Hosts : \E r : r.t = t /\ reqs' = [reqs EXCEPT ![h] = AddReq(@, r)]
  /\ UNCHANGED <<events, delays>>
Comes(t) ==
  /\ IsAt(t, MeetKinds) /\ Waits(t)
  /\ LET e == Stmt(t).event
     IN /\ e \in Events /\ events[e].live /\ t \in events[e].waitfor
        /\ events' = [events EXCEPT ![e] =
             [events[e] EXCEPT !.waitfor = @ \ {t}, !.cbs = Append(@, t),
                               !.timer = (events[e].waitfor = {t})]]
  /\ UNCHANGED <<reqs, delays>>
Pauses(t) ==
  IsAt(t, {"delay"}) /\ Waits(t) /\ delays' = delays \cup {t} /\ UNCHANGED <<reqs, events>>
NextOne(t) ==
  /\ IsAt(t, Kinds) /\ th[t].step > 0
  /\ th' = [th EXCEPT ![t].pos = @ + 1, ![t].step = 0]
  /\ UNCHANGED <<run, reqs, events, delays>>
Finishes == run # <<>> /\ run' = Tail(run) /\ UNCHANGED <<th, reqs, events, delays>>
Answered ==
  /\ Dispatching
  /\ \E h \in Hosts : \E r \in reqs[h] :
       /\ reqs' = [reqs EXCEPT ![h] = @ \ {r}]
       /\ \E res : Ends(r.t, res)
  /\ UNCHANGED <<events, delays>>
Idles == UNCHANGED <<th, run, reqs, events, delays>>

Moves ==
  \/ \E t \in Threads : \/ Steps(t) \/ Fails(t) \/ Asks(t) \/ Comes(t) \/ Pauses(t)
                        \/ NextOne(t) \/ delayExpired(t)
  \/ Finishes \/ Answered \/ Idles
  \/ \E e \in Events : eventExpired(e)


-----------------------------------------------------------------------------
(* Every step is one of these                                               *)

\* The operations of a statement, and the kind of statement each one is of
LEMMA KindsOfOps ==
  ASSUME NEW s, s.kind \in Kinds, NEW n \in Nat, n < Len(Ops(s))
  PROVE  /\ Ops(s)[n + 1] \in {"open", "listen", "connect", "accept"} => s.kind = "connect"
         /\ Ops(s)[n + 1] \in {"recv", "snd", "recveffect"} => s.kind = "oneway"
         /\ Ops(s)[n + 1] \in {"close client", "close server"} => s.kind = "close"
         /\ Ops(s)[n + 1] \in {"execute", "sync", "wait", "delay", "print"}
              => s.kind = Ops(s)[n + 1]
<1>1. CASE s.kind = "connect"
  <2> DEFINE q == <<"open", "listen", "connect", "accept">>
  <2>1. Ops(s) = q  BY <1>1 DEF Ops
  <2>2. Len(q) = 4  OBVIOUS
  <2>3. q[1] = "open" /\ q[2] = "listen" /\ q[3] = "connect" /\ q[4] = "accept"  OBVIOUS
  <2> HIDE DEF q
  <2>4. n \in 0 .. 3  BY <2>1, <2>2
  <2>5. n + 1 = 1 \/ n + 1 = 2 \/ n + 1 = 3 \/ n + 1 = 4  BY <2>4
  <2>6. q[n + 1] \in {"open", "listen", "connect", "accept"}  BY <2>3, <2>5
  <2>7. QED  BY <1>1, <2>1, <2>6
<1>2. CASE s.kind = "oneway"
  <2> DEFINE q == <<"recv", "snd", "recveffect">>
  <2>1. Ops(s) = q  BY <1>2 DEF Ops
  <2>2. Len(q) = 3  OBVIOUS
  <2>3. q[1] = "recv" /\ q[2] = "snd" /\ q[3] = "recveffect"  OBVIOUS
  <2> HIDE DEF q
  <2>4. n \in 0 .. 2  BY <2>1, <2>2
  <2>5. n + 1 = 1 \/ n + 1 = 2 \/ n + 1 = 3  BY <2>4
  <2>6. q[n + 1] \in {"recv", "snd", "recveffect"}  BY <2>3, <2>5
  <2>7. QED  BY <1>2, <2>1, <2>6
<1>3. CASE s.kind = "close"
  <2> DEFINE q == <<"close client", "close server">>
  <2>1. Ops(s) = q  BY <1>3 DEF Ops
  <2>2. Len(q) = 2  OBVIOUS
  <2>3. q[1] = "close client" /\ q[2] = "close server"  OBVIOUS
  <2> HIDE DEF q
  <2>4. n \in 0 .. 1  BY <2>1, <2>2
  <2>5. n + 1 = 1 \/ n + 1 = 2  BY <2>4
  <2>6. q[n + 1] \in {"close client", "close server"}  BY <2>3, <2>5
  <2>7. QED  BY <1>3, <2>1, <2>6
<1>4. CASE s.kind \in Kinds \ {"connect", "oneway", "close"}
  <2>1. Ops(s) = <<s.kind>>  BY <1>4 DEF Ops, Kinds
  <2>2. n = 0  BY <2>1
  <2>3. Ops(s)[n + 1] = s.kind  BY <2>1, <2>2
  <2>4. QED  BY <1>4, <2>3 DEF Kinds
<1>5. QED  BY <1>1, <1>2, <1>3, <1>4 DEF Kinds

LEMMA OpsNotEmpty ==
  ASSUME NEW s, s.kind \in Kinds
  PROVE  Len(Ops(s)) \in Nat /\ Len(Ops(s)) > 0
BY DEF Ops, Kinds

\* What OpIs says of the thread and its statement
LEMMA AtOp ==
  ASSUME ThreadTypes, NEW t \in Threads, NEW op, OpIs(t, op)
  PROVE  /\ run # <<>> /\ t = Head(run) /\ th[t].pos \in DOMAIN Script[t]
         /\ Stmt(t).kind \in Kinds
         /\ op \in {"open", "listen", "connect", "accept"} => Stmt(t).kind = "connect"
         /\ op \in {"recv", "snd", "recveffect"} => Stmt(t).kind = "oneway"
         /\ op \in {"close client", "close server"} => Stmt(t).kind = "close"
         /\ op \in {"execute", "sync", "wait", "delay", "print"} => Stmt(t).kind = op
<1>1. run # <<>> /\ t = Head(run) /\ th[t].pos \in DOMAIN Script[t]
  BY DEF OpIs, Running, Cur
<1>2. Stmt(t).kind \in Kinds  BY <1>1, VelAssumption DEF Stmt
<1>3. th[t].step \in Nat /\ th[t].step < Len(Ops(Stmt(t))) /\ op = Ops(Stmt(t))[th[t].step + 1]
  BY DEF OpIs, Op, ThreadTypes
<1>4. QED  BY <1>1, <1>2, <1>3, KindsOfOps

\* A step of a thread at the head of run is a move
LEMMA DoStepMoves ==
  ASSUME ThreadTypes, NEW t \in Threads, doStep(t)
  PROVE  Moves
<1> USE DEF Moves
<1>1. ASSUME opOpen(t)  PROVE Asks(t)
  <2>1. IsAt(t, AskKinds)  BY <1>1, AtOp DEF opOpen, IsAt, AskKinds
  <2>2. Traffic[t].chost \in Hosts  BY VelAssumption
  <2>3. QED  BY <1>1, <2>1, <2>2 DEF opOpen, Asks, Ask, Req
<1>2. ASSUME opListen(t)  PROVE Asks(t) \/ Steps(t)
  <2>1. IsAt(t, AskKinds)  BY <1>2, AtOp DEF opListen, IsAt, AskKinds
  <2>2. Traffic[t].shost \in Hosts  BY VelAssumption
  <2>3. CASE GoesOn(t) /\ UNCHANGED reqs  BY <1>2, <2>1, <2>3 DEF opListen, Steps, IsAt
  <2>4. CASE ~(GoesOn(t) /\ UNCHANGED reqs)
    BY <1>2, <2>1, <2>2, <2>4 DEF opListen, Asks, Ask, Req
  <2>5. QED  BY <2>3, <2>4
<1>3. ASSUME NEW h \in Hosts, NEW addr, NEW stat, NEW kind, OnConn(t, h, addr, stat, kind),
             IsAt(t, AskKinds), UNCHANGED <<events, delays>>
      PROVE  Asks(t) \/ Fails(t)
  <2>1. CASE Aborts(t) /\ UNCHANGED <<reqs, down>>
    BY <1>3, <2>1 DEF Fails, IsAt
  <2>2. CASE ~(Aborts(t) /\ UNCHANGED <<reqs, down>>)
    BY <1>3, <2>2 DEF OnConn, Ask, Req, Asks
  <2>3. QED  BY <2>1, <2>2
<1>4. ASSUME opConnect(t)  PROVE Asks(t) \/ Fails(t)
  <2>1. IsAt(t, AskKinds)  BY <1>4, AtOp DEF opConnect, IsAt, AskKinds
  <2>2. Traffic[t].chost \in Hosts  BY VelAssumption
  <2>3. QED  BY <1>4, <2>1, <2>2, <1>3 DEF opConnect
<1>5. ASSUME opTraffic(t)  PROVE Asks(t) \/ Fails(t)
  <2>1. IsAt(t, AskKinds)  BY <1>5, AtOp DEF opTraffic, IsAt, AskKinds
  <2>2. Traffic[t].chost \in Hosts /\ Traffic[t].shost \in Hosts  BY VelAssumption
  <2>3. QED  BY <1>5, <2>1, <2>2, <1>3 DEF opTraffic
<1>6. ASSUME opAccept(t)  PROVE Asks(t) \/ Fails(t) \/ Steps(t)
  <2>1. IsAt(t, AskKinds)  BY <1>6, AtOp DEF opAccept, IsAt, AskKinds
  <2>2. Traffic[t].shost \in Hosts /\ Traffic[t].proto \in {"TCP", "UDP"}  BY VelAssumption
  <2>3. UNCHANGED <<events, delays>>  BY <1>6 DEF opAccept
  <2>4. \/ GoesOn(t) /\ UNCHANGED reqs
        \/ Aborts(t) /\ UNCHANGED reqs
        \/ Waits(t) /\ \E r : r.t = t /\ reqs' = [reqs EXCEPT ![Traffic[t].shost] = AddReq(@, r)]
    BY <1>6, <2>2 DEF opAccept, Req
  <2>5. QED  BY <2>1, <2>2, <2>3, <2>4 DEF Asks, Fails, Steps, IsAt
<1>7. ASSUME NEW h \in Hosts, NEW addr, CloseAt(t, h, addr), IsAt(t, AskKinds),
             UNCHANGED <<events, delays>>
      PROVE  Asks(t) \/ Steps(t)
  <2>1. CASE GoesOn(t) /\ UNCHANGED reqs  BY <1>7, <2>1 DEF Steps, IsAt
  <2>2. CASE ~(GoesOn(t) /\ UNCHANGED reqs)
    BY <1>7, <2>2 DEF CloseAt, Ask, Req, Asks
  <2>3. QED  BY <2>1, <2>2
<1>8. ASSUME opClose(t)  PROVE Asks(t) \/ Steps(t)
  <2>1. IsAt(t, AskKinds)  BY <1>8, AtOp DEF opClose, IsAt, AskKinds
  <2>2. Traffic[t].chost \in Hosts /\ Traffic[t].shost \in Hosts  BY VelAssumption
  <2>3. QED  BY <1>8, <2>1, <2>2, <1>7 DEF opClose
<1>9. ASSUME opCommand(t)  PROVE Asks(t)
  <2>1. IsAt(t, AskKinds) /\ Stmt(t).kind = "execute"
    BY <1>9, AtOp DEF opCommand, IsAt, AskKinds
  <2>2. Stmt(t).host \in Hosts  BY <2>1, VelAssumption DEF IsAt, Stmt
  <2>3. QED  BY <1>9, <2>1, <2>2 DEF opCommand, Asks, Ask, Req
<1>10. ASSUME syncEvent(t)  PROVE Comes(t) \/ Fails(t)
  <2>1. IsAt(t, MeetKinds)  BY <1>10, AtOp DEF syncEvent, IsAt, MeetKinds
  <2>2. CASE Stmt(t).event \notin Events \/ ~events[Stmt(t).event].live
               \/ t \notin events[Stmt(t).event].waitfor
    BY <1>10, <2>1, <2>2 DEF syncEvent, Fails, IsAt
  <2>3. CASE ~(Stmt(t).event \notin Events \/ ~events[Stmt(t).event].live
               \/ t \notin events[Stmt(t).event].waitfor)
    BY <1>10, <2>1, <2>3 DEF syncEvent, Comes
  <2>4. QED  BY <2>2, <2>3
<1>11. ASSUME stmtDelay(t)  PROVE Pauses(t)
  BY <1>11, AtOp DEF stmtDelay, IsAt, Pauses
<1>12. ASSUME stmtPrint(t)  PROVE Steps(t)
  BY <1>12, AtOp DEF stmtPrint, IsAt, Steps
<1>13. ASSUME nextStatement(t)  PROVE NextOne(t) \/ Finishes
  <2>1. CASE /\ th[t].pos \in DOMAIN Script[t] /\ th[t].step = Len(Ops(Stmt(t)))
             /\ th' = [th EXCEPT ![t].pos = @ + 1, ![t].step = 0]
             /\ UNCHANGED run
    <3>1. Stmt(t).kind \in Kinds  BY <2>1, VelAssumption DEF Stmt
    <3>2. th[t].step > 0  BY <2>1, <3>1, OpsNotEmpty
    <3>3. QED  BY <1>13, <2>1, <3>1, <3>2 DEF nextStatement, NextOne, IsAt, Running, Cur
  <2>2. CASE run' = Tail(run) /\ UNCHANGED th
    BY <1>13, <2>2 DEF nextStatement, Finishes, Running, Cur
  <2>3. QED  BY <1>13, <2>1, <2>2 DEF nextStatement
<1>14. QED
  BY <1>1, <1>2, <1>4, <1>5, <1>6, <1>8, <1>9, <1>10, <1>11, <1>12, <1>13 DEF doStep

\* An answer ends a request that was made, or changes nothing
LEMMA SettleMoves ==
  ASSUME NEW h \in Hosts, NEW stat, NEW res, Dispatching, Settle(h, stat, res),
         UNCHANGED <<events, delays>>
  PROVE  Answered \/ Idles
<1>1. CASE Asked(h, stat) = {}  BY <1>1 DEF Settle, Idles
<1>2. CASE Asked(h, stat) # {}
  <2> DEFINE r == CHOOSE r \in Asked(h, stat) : TRUE
  <2>1. r \in reqs[h]  BY <1>2 DEF Asked
  <2>2. reqs' = [reqs EXCEPT ![h] = @ \ {r}] /\ Ends(r.t, res)  BY <1>2 DEF Settle
  <2> HIDE DEF r
  <2>3. QED  BY <2>1, <2>2 DEF Answered
<1>3. QED  BY <1>1, <1>2

\* A message of an agent is a move of at most the thread whose request it answers
LEMMA ManagerMoves ==
  ASSUME NEW h \in Hosts, ManagerTakes(h)
  PROVE  Answered \/ Idles
<1>1. ASSUME recvStartConfirm(h)  PROVE Idles  BY <1>1 DEF recvStartConfirm, Idles
<1>2. ASSUME recvOpenConfirm(h)  PROVE Answered \/ Idles
  BY <1>2, SettleMoves DEF recvOpenConfirm
<1>3. ASSUME recvListenConfirm(h)  PROVE Answered \/ Idles
  <2>1. UNCHANGED <<reqs, th, run>> \/ Settle(h, "listen", Head(up[h]).res)
    BY <1>3 DEF recvListenConfirm
  <2>2. Dispatching /\ UNCHANGED <<events, delays>>  BY <1>3 DEF recvListenConfirm
  <2>3. QED  BY <2>1, <2>2, SettleMoves DEF Idles
<1>4. ASSUME opAcceptedReport(h)  PROVE Answered \/ Idles
  <2>1. Dispatching /\ UNCHANGED <<events, delays>>  BY <1>4 DEF opAcceptedReport
  <2> DEFINE res == {r \in Asked(h, "accept") : r.addr = Head(up[h]).addr}
             r == CHOOSE r \in res : TRUE
  <2>2. \/ UNCHANGED <<reqs, th, run>>
        \/ /\ res # {}
           /\ reqs' = [reqs EXCEPT ![h] = @ \ {r}] /\ Ends(r.t, 0)
    BY <1>4 DEF opAcceptedReport
  <2>3. res # {} => r \in reqs[h]  BY DEF Asked
  <2> HIDE DEF r, res
  <2>4. QED  BY <2>1, <2>2, <2>3 DEF Idles, Answered
<1>5. ASSUME opConnectConfirm(h)  PROVE Answered \/ Idles
  BY <1>5, SettleMoves DEF opConnectConfirm
<1>6. ASSUME recvConfirm(h)  PROVE Answered \/ Idles
  <2>1. PICK kind \in {"snd", "recv", "recveffect"} : Settle(h, kind, Head(up[h]).res)
    BY <1>6 DEF recvConfirm
  <2>2. QED  BY <1>6, <2>1, SettleMoves DEF recvConfirm
<1>7. ASSUME recvCmdConfirm(h)  PROVE Answered \/ Idles
  BY <1>7, SettleMoves DEF recvCmdConfirm
<1>8. ASSUME recvCloseConfirm(h)  PROVE Answered \/ Idles
  <2> DEFINE res == IF UNION {Idle(h, r.t, r.addr, "closing") : r \in Asked(h, "close")} = {}
                      THEN 0 ELSE Head(up[h]).res
  <2>1. Settle(h, "close", res)  BY <1>8 DEF recvCloseConfirm
  <2> HIDE DEF res
  <2>2. QED  BY <1>8, <2>1, SettleMoves DEF recvCloseConfirm
<1>9. ASSUME recvClosedReport(h)  PROVE Idles  BY <1>9 DEF recvClosedReport, Idles
<1>10. QED
  BY <1>1, <1>2, <1>3, <1>4, <1>5, <1>6, <1>7, <1>8, <1>9 DEF ManagerTakes

\* The agents and the network do not move the threads
LEMMA AgentIdles ==
  ASSUME NEW h \in Hosts, AgentServes(h) \/ accept(h) \/ receivePacket(h) \/ CommandEnds(h)
  PROVE  UNCHANGED mgrVars
<1>1. CASE AgentServes(h)
  BY <1>1 DEF AgentServes, startRequest, openRequest, listenRequest, connectRequest, sndRequest,
              recvRequest, recvEffectRequest, closeRequest, cmdexecRequest
<1>2. CASE accept(h) \/ receivePacket(h) \/ CommandEnds(h)
  BY <1>2 DEF accept, receivePacket, CommandEnds
<1>3. QED  BY <1>1, <1>2

LEMMA NextMoves ==
  ASSUME ThreadTypes, [VelNext]_velVars
  PROVE  Moves
<1>1. CASE \E t \in Threads : doStep(t) \/ delayExpired(t)  BY <1>1, DoStepMoves DEF Moves
<1>2. CASE \E e \in Events : eventExpired(e)  BY <1>2 DEF Moves
<1>3. CASE \E h \in Hosts : ManagerTakes(h)  BY <1>3, ManagerMoves DEF Moves
<1>4. CASE \E h \in Hosts : AgentServes(h) \/ accept(h) \/ receivePacket(h) \/ CommandEnds(h)
  BY <1>4, AgentIdles DEF Moves, Idles, mgrVars
<1>5. CASE Loses  BY <1>5 DEF Loses, Moves, Idles, mgrVars
<1>6. CASE Exits \/ UNCHANGED velVars  BY <1>6 DEF Exits, Moves, Idles, velVars, mgrVars
<1>7. QED  BY <1>1, <1>2, <1>3, <1>4, <1>5, <1>6 DEF VelNext

-----------------------------------------------------------------------------
(* The inductive invariant of the threads                                   *)

LEMMA ThreadInitially ==
  ASSUME VelInit
  PROVE  ThreadInv
<1>1. ThreadTypes
  <2>1. th \in [Threads -> [pos : Nat, step : Nat, locked : BOOLEAN]]  BY DEF VelInit
  <2>2. run \in Seq(Threads)  BY VelAssumption DEF VelInit
  <2>3. events \in [Events -> [waitfor : SUBSET Threads, cbs : Seq(Threads),
                               timer : BOOLEAN, live : BOOLEAN]]
    BY VelAssumption DEF VelInit
  <2>4. QED  BY <2>1, <2>2, <2>3 DEF VelInit, ThreadTypes
<1>2. RunsFree  BY <1>1, VelAssumption DEF VelInit, RunsFree, ThreadTypes
<1>3. AskedByWaiters /\ MetByWaiters /\ DelayedWait
  BY DEF VelInit, AskedByWaiters, MetByWaiters, DelayedWait
<1>4. QED  BY <1>1, <1>2, <1>3 DEF ThreadInv

\* The head of run, and what is left of it
LEMMA TailOfRun ==
  ASSUME ThreadTypes, RunsFree, run # <<>>
  PROVE  /\ Head(run) \in Threads /\ ~th[Head(run)].locked
         /\ Tail(run) \in Seq(Threads)
         /\ \A i \in DOMAIN Tail(run) : i + 1 \in DOMAIN run /\ Tail(run)[i] = run[i + 1]
         /\ \A i \in DOMAIN Tail(run) : Tail(run)[i] # Head(run) /\ ~th[Tail(run)[i]].locked
         /\ \A i, j \in DOMAIN Tail(run) : Tail(run)[i] = Tail(run)[j] => i = j
<1>1. run \in Seq(Threads) /\ Len(run) \in Nat /\ Len(run) > 0 /\ DOMAIN run = 1 .. Len(run)
  BY DEF ThreadTypes
<1>2. Head(run) = run[1] /\ 1 \in DOMAIN run  BY <1>1
<1>3. /\ Tail(run) \in Seq(Threads)
      /\ DOMAIN Tail(run) = 1 .. Len(run) - 1
      /\ \A i \in DOMAIN Tail(run) : Tail(run)[i] = run[i + 1]
  BY <1>1
<1>4. \A i \in DOMAIN Tail(run) : i \in Nat /\ i + 1 \in DOMAIN run /\ i + 1 # 1
  BY <1>1, <1>3
<1>5. QED  BY <1>1, <1>2, <1>3, <1>4 DEF RunsFree, ThreadTypes

\* Thread t comes to a new position, the others stay as they are
Puts(t, p, s, l) ==
  /\ th' \in [Threads -> [pos : Nat, step : Nat, locked : BOOLEAN]]
  /\ th'[t].pos = p /\ th'[t].step = s /\ th'[t].locked = l
  /\ \A u \in Threads : u # t => th'[u] = th[u]

\* The changes of a thread's record
Posn(p, s, l) == [pos |-> p, step |-> s, locked |-> l]
SetStep(r, x) == [r EXCEPT !.step = x]
SetPos(r, x) == [r EXCEPT !.pos = x]
SetLocked(r, x) == [r EXCEPT !.locked = x]

LEMMA SetFields ==
  ASSUME NEW r, NEW p, NEW s, NEW l, NEW x, r = Posn(p, s, l)
  PROVE  /\ SetStep(r, x) = Posn(p, x, l)
         /\ SetPos(r, x) = Posn(x, s, l)
<1>1. SetStep(r, x) = Posn(p, x, l)  BY DEF Posn, SetStep
<1>2. SetPos(r, x) = Posn(x, s, l)  BY DEF Posn, SetPos
<1>3. QED  BY <1>1, <1>2

LEMMA SetFlag ==
  ASSUME NEW r, NEW p, NEW s, NEW l, r = Posn(p, s, l)
  PROVE  SetLocked(r, TRUE) = Posn(p, s, TRUE) /\ SetLocked(r, FALSE) = Posn(p, s, FALSE)
<1>1. ASSUME NEW x  PROVE SetLocked(r, x) = Posn(p, s, x)  BY DEF Posn, SetLocked
<1>2. QED  BY <1>1, Zenon

LEMMA PutRecord ==
  ASSUME ThreadTypes, NEW t \in Threads, NEW p \in Nat, NEW s \in Nat, NEW l \in BOOLEAN,
         th' = [th EXCEPT ![t] = Posn(p, s, l)]
  PROVE  Puts(t, p, s, l)
BY DEF Puts, ThreadTypes, Posn

LEMMA PutByStep ==
  ASSUME ThreadTypes, NEW t \in Threads
  PROVE  /\ th[t].pos \in Nat /\ th[t].step \in Nat /\ th[t].locked \in BOOLEAN
         /\ GoesOn(t) => Puts(t, th[t].pos, th[t].step + 1, th[t].locked)
         /\ Aborts(t) => Puts(t, 0, th[t].step, th[t].locked)
         /\ Waits(t) => Puts(t, th[t].pos, th[t].step, TRUE)
         /\ th' = [th EXCEPT ![t].pos = @ + 1, ![t].step = 0]
              => Puts(t, th[t].pos + 1, 0, th[t].locked)
         /\ Ends(t, 0) => Puts(t, th[t].pos, th[t].step + 1, FALSE)
         /\ \A res : Ends(t, res) =>
              (res = 0 /\ Ends(t, 0)) \/ (Puts(t, 0, th[t].step, FALSE) /\ run' = run)
<1>0. t \in DOMAIN th  BY DEF ThreadTypes
<1>1. th[t].pos \in Nat /\ th[t].step \in Nat /\ th[t].locked \in BOOLEAN  BY DEF ThreadTypes
<1> DEFINE p == th[t].pos
           s == th[t].step
           l == th[t].locked
<1>a. th[t] = Posn(p, s, l)  BY DEF ThreadTypes, Posn
<1>b. p \in Nat /\ s \in Nat /\ l \in BOOLEAN /\ p + 1 \in Nat /\ s + 1 \in Nat  BY <1>1
<1> HIDE DEF p, s, l
<1>2. ASSUME GoesOn(t)  PROVE Puts(t, p, s + 1, l)
  <2>1. th' = [th EXCEPT ![t] = SetStep(th[t], s + 1)]
    BY <1>0, <1>2 DEF GoesOn, SetStep, s
  <2>2. SetStep(th[t], s + 1) = Posn(p, s + 1, l)  BY <1>a, SetFields
  <2>3. th' = [th EXCEPT ![t] = Posn(p, s + 1, l)]  BY <2>1, <2>2
  <2>4. Puts(t, p, s + 1, l)  BY <1>b, <2>3, PutRecord
  <2>5. QED  BY <1>2, <2>4
<1>3. ASSUME Aborts(t)  PROVE Puts(t, 0, s, l)
  <2>1. th' = [th EXCEPT ![t] = SetPos(th[t], 0)]
    BY <1>0, <1>3 DEF Aborts, SetPos
  <2>2. SetPos(th[t], 0) = Posn(0, s, l)  BY <1>a, SetFields
  <2>3. th' = [th EXCEPT ![t] = Posn(0, s, l)]  BY <2>1, <2>2
  <2>4. Puts(t, 0, s, l)  BY <1>b, <2>3, PutRecord
  <2>5. QED  BY <1>3, <2>4
<1>4. ASSUME Waits(t)  PROVE Puts(t, p, s, TRUE)
  <2>1. th' = [th EXCEPT ![t] = SetLocked(th[t], TRUE)]
    BY <1>0, <1>4 DEF Waits, SetLocked
  <2>2. SetLocked(th[t], TRUE) = Posn(p, s, TRUE)  BY <1>a, SetFlag, Zenon
  <2>3. th' = [th EXCEPT ![t] = Posn(p, s, TRUE)]  BY <2>1, <2>2
  <2>4. Puts(t, p, s, TRUE)  BY <1>b, <2>3, PutRecord
  <2>5. QED  BY <1>4, <2>4
<1>5. ASSUME th' = [th EXCEPT ![t].pos = @ + 1, ![t].step = 0]  PROVE Puts(t, p + 1, 0, l)
  <2>1. th' = [th EXCEPT ![t] = SetStep(SetPos(th[t], p + 1), 0)]
    BY <1>0, <1>5 DEF SetPos, SetStep, p
  <2>2. SetPos(th[t], p + 1) = Posn(p + 1, s, l)  BY <1>a, SetFields
  <2>3. SetStep(SetPos(th[t], p + 1), 0) = Posn(p + 1, 0, l)  BY <2>2, SetFields
  <2>4. th' = [th EXCEPT ![t] = Posn(p + 1, 0, l)]  BY <2>1, <2>3
  <2>5. Puts(t, p + 1, 0, l)  BY <1>b, <2>4, PutRecord
  <2>6. QED  BY <1>5, <2>5
<1>6. ASSUME Ends(t, 0)  PROVE Puts(t, p, s + 1, FALSE)
  <2>1. th' = [th EXCEPT ![t] = SetLocked(SetStep(th[t], s + 1), FALSE)]
    BY <1>0, <1>6 DEF Ends, SetStep, SetLocked, s
  <2>2. SetStep(th[t], s + 1) = Posn(p, s + 1, l)  BY <1>a, SetFields
  <2>3. SetLocked(SetStep(th[t], s + 1), FALSE) = Posn(p, s + 1, FALSE)  BY <2>2, SetFlag, Zenon
  <2>4. th' = [th EXCEPT ![t] = Posn(p, s + 1, FALSE)]  BY <2>1, <2>3
  <2>5. Puts(t, p, s + 1, FALSE)  BY <1>b, <2>4, PutRecord
  <2>6. QED  BY <1>6, <2>5
<1>7. ASSUME NEW res, Ends(t, res), res # 0  PROVE Puts(t, 0, s, FALSE) /\ run' = run
  <2>1. th' = [th EXCEPT ![t] = SetLocked(SetPos(th[t], 0), FALSE)]
    BY <1>0, <1>7 DEF Ends, SetPos, SetLocked
  <2>2. SetPos(th[t], 0) = Posn(0, s, l)  BY <1>a, SetFields
  <2>3. SetLocked(SetPos(th[t], 0), FALSE) = Posn(0, s, FALSE)  BY <2>2, SetFlag, Zenon
  <2>4. th' = [th EXCEPT ![t] = Posn(0, s, FALSE)]  BY <2>1, <2>3
  <2>5. Puts(t, 0, s, FALSE)  BY <1>b, <2>4, PutRecord
  <2>6. QED  BY <1>7, <2>5 DEF Ends
<1>8. QED  BY <1>1, <1>2, <1>3, <1>4, <1>5, <1>6, <1>7 DEF p, s, l

\* A thread that is not moved waits where it did
LEMMA Unmoved ==
  ASSUME NEW u, th'[u] = th[u]
  PROVE  /\ Stmt(u)' = Stmt(u)
         /\ WaitsAt(u, AskKinds) => WaitsAt(u, AskKinds)'
         /\ WaitsAt(u, MeetKinds) => WaitsAt(u, MeetKinds)'
         /\ WaitsAt(u, {"delay"}) => WaitsAt(u, {"delay"})'
BY DEF Stmt, WaitsAt

\* Who waits is locked
LEMMA WaitersLocked ==
  ASSUME ThreadInv
  PROVE  /\ \A h \in Hosts : \A r \in reqs[h] : r.t \in Threads /\ th[r.t].locked
         /\ \A e \in Events : \A i \in DOMAIN events[e].cbs :
              events[e].cbs[i] \in Threads /\ th[events[e].cbs[i]].locked
         /\ \A t \in delays : t \in Threads /\ th[t].locked
<1>1. \A h \in Hosts : \A r \in reqs[h] : r.t \in Threads /\ th[r.t].locked
  BY DEF ThreadInv, ThreadTypes, AskedByWaiters, WaitsAt
<1>2. ASSUME NEW e \in Events, NEW i \in DOMAIN events[e].cbs
      PROVE  events[e].cbs[i] \in Threads /\ th[events[e].cbs[i]].locked
  <2>1. events[e].cbs \in Seq(Threads)  BY DEF ThreadInv, ThreadTypes
  <2>2. QED  BY <2>1 DEF ThreadInv, MetByWaiters, WaitsAt
<1>3. \A t \in delays : t \in Threads /\ th[t].locked
  BY DEF ThreadInv, ThreadTypes, DelayedWait, WaitsAt
<1>4. QED  BY <1>1, <1>2, <1>3

\* The threads that wait are not moved: neither is what they wait for
LEMMA WaitersStay ==
  ASSUME ThreadInv, UNCHANGED <<reqs, events, delays>>,
         \A u \in Threads : th[u].locked => th'[u] = th[u]
  PROVE  AskedByWaiters' /\ MetByWaiters' /\ DelayedWait'
<1>1. AskedByWaiters'
  <2>1. ASSUME NEW h \in Hosts, NEW r \in reqs[h]  PROVE WaitsAt(r.t, AskKinds)'
    <3>1. WaitsAt(r.t, AskKinds)  BY DEF ThreadInv, AskedByWaiters
    <3>2. th'[r.t] = th[r.t]  BY WaitersLocked
    <3>3. QED  BY <3>1, <3>2, Unmoved
  <2>2. QED  BY <2>1 DEF ThreadInv, AskedByWaiters
<1>2. MetByWaiters'
  <2>1. ASSUME NEW e \in Events, NEW i \in DOMAIN events[e].cbs
        PROVE  WaitsAt(events[e].cbs[i], MeetKinds)' /\ Stmt(events[e].cbs[i])'.event = e
    <3> DEFINE u == events[e].cbs[i]
    <3>1. WaitsAt(u, MeetKinds) /\ Stmt(u).event = e  BY DEF ThreadInv, MetByWaiters
    <3>2. th'[u] = th[u]  BY WaitersLocked
    <3>3. u' = u  OBVIOUS
    <3> HIDE DEF u
    <3>4. Stmt(u)' = Stmt(u) /\ WaitsAt(u, MeetKinds)'  BY <3>1, <3>2, <3>3 DEF Stmt, WaitsAt
    <3>5. QED  BY <3>1, <3>3, <3>4 DEF u
  <2>2. QED  BY <2>1 DEF ThreadInv, MetByWaiters
<1>3. DelayedWait'
  <2>1. ASSUME NEW t \in delays  PROVE WaitsAt(t, {"delay"})'
    <3>1. WaitsAt(t, {"delay"})  BY DEF ThreadInv, DelayedWait
    <3>2. th'[t] = th[t]  BY WaitersLocked
    <3>3. QED  BY <3>1, <3>2, Unmoved
  <2>2. QED  BY <2>1 DEF DelayedWait
<1>4. QED  BY <1>1, <1>2, <1>3

\* A thread at the head of run goes on or is over, and waits for nothing
LEMMA RunnerKeeps ==
  ASSUME ThreadInv, NEW t \in Threads, run # <<>>, t = Head(run),
         NEW p \in Nat, NEW s \in Nat, Puts(t, p, s, th[t].locked),
         run' = run \/ run' = Tail(run), UNCHANGED <<reqs, events, delays>>
  PROVE  ThreadInv'
<1>1. ThreadTypes /\ RunsFree  BY DEF ThreadInv
<1>2. ~th[t].locked /\ Tail(run) \in Seq(Threads)  BY <1>1, TailOfRun
<1>3. ~th'[t].locked /\ \A u \in Threads : u # t => th'[u] = th[u]  BY <1>2 DEF Puts
<1>4. ThreadTypes'  BY <1>1, <1>2 DEF Puts, ThreadTypes
<1>5. \A u \in Threads : ~th[u].locked => ~th'[u].locked  BY <1>3
<1>6. RunsFree'
  <2>1. CASE run' = run
    <3>1. \A i \in DOMAIN run : run[i] \in Threads  BY <1>1 DEF ThreadTypes
    <3>2. QED  BY <1>1, <1>5, <2>1, <3>1 DEF RunsFree
  <2>2. CASE run' = Tail(run)
    <3>1. \A i \in DOMAIN Tail(run) : Tail(run)[i] \in Threads  BY <1>2
    <3>2. QED  BY <1>1, <1>5, <2>2, <3>1, TailOfRun DEF RunsFree
  <2>3. QED  BY <2>1, <2>2
<1>7. \A u \in Threads : th[u].locked => th'[u] = th[u]  BY <1>2, <1>3
<1>8. QED  BY <1>4, <1>6, <1>7, WaitersStay DEF ThreadInv

\* A thread at the head of run begins to wait; the others wait where they did
LEMMA RunnerLocks ==
  ASSUME ThreadInv, NEW t \in Threads, run # <<>>, t = Head(run), Waits(t)
  PROVE  /\ th' \in [Threads -> [pos : Nat, step : Nat, locked : BOOLEAN]]
         /\ run' \in Seq(Threads) /\ RunsFree'
         /\ th'[t].locked /\ th'[t].pos = th[t].pos /\ th'[t].step = th[t].step
         /\ Stmt(t)' = Stmt(t)
         /\ ~th[t].locked
         /\ \A u \in Threads : u # t => th'[u] = th[u]
         /\ \A h \in Hosts : \A r \in reqs[h] : r.t # t /\ WaitsAt(r.t, AskKinds)'
         /\ \A u \in delays : u # t /\ WaitsAt(u, {"delay"})'
<1>1. ThreadTypes /\ RunsFree  BY DEF ThreadInv
<1>2. ~th[t].locked /\ Tail(run) \in Seq(Threads)  BY <1>1, TailOfRun
<1>3. Puts(t, th[t].pos, th[t].step, TRUE)  BY <1>1, PutByStep
<1>4. /\ th'[t].locked /\ th'[t].pos = th[t].pos /\ th'[t].step = th[t].step
      /\ \A u \in Threads : u # t => th'[u] = th[u]
  BY <1>3 DEF Puts
<1>5. run' = Tail(run)  BY DEF Waits
<1>6. RunsFree'
  <2>1. \A i \in DOMAIN Tail(run) :
          Tail(run)[i] \in Threads /\ Tail(run)[i] # t /\ ~th[Tail(run)[i]].locked
    BY <1>1, <1>2, TailOfRun
  <2>2. \A i \in DOMAIN Tail(run) : ~th'[Tail(run)[i]].locked  BY <1>4, <2>1
  <2>3. QED  BY <1>1, <1>5, <2>2, TailOfRun DEF RunsFree
<1>7. Stmt(t)' = Stmt(t)  BY <1>4 DEF Stmt
<1>8. ASSUME NEW h \in Hosts, NEW r \in reqs[h]  PROVE r.t # t /\ WaitsAt(r.t, AskKinds)'
  <2>1. r.t # t /\ r.t \in Threads  BY <1>2, WaitersLocked
  <2>2. th'[r.t] = th[r.t] /\ WaitsAt(r.t, AskKinds)
    BY <1>4, <2>1 DEF ThreadInv, AskedByWaiters
  <2>3. QED  BY <2>1, <2>2, Unmoved
<1>9. ASSUME NEW u \in delays  PROVE u # t /\ WaitsAt(u, {"delay"})'
  <2>1. u # t /\ u \in Threads  BY <1>2, WaitersLocked
  <2>2. th'[u] = th[u] /\ WaitsAt(u, {"delay"})  BY <1>4, <2>1 DEF ThreadInv, DelayedWait
  <2>3. QED  BY <2>1, <2>2, Unmoved
<1>10. QED  BY <1>2, <1>3, <1>4, <1>5, <1>6, <1>7, <1>8, <1>9 DEF Puts

\* Where the record r of the thread u says that it waits at a statement for e
MetAt(r, u, e) ==
  /\ r.locked /\ r.pos \in DOMAIN Script[u]
  /\ Script[u][r.pos].kind \in MeetKinds /\ Script[u][r.pos].event = e

\* The threads of an event, once each, by where they are
LEMMA MetMeans ==
  /\ MetByWaiters <=>
       \A e \in Events :
         /\ \A i \in DOMAIN events[e].cbs : MetAt(th[events[e].cbs[i]], events[e].cbs[i], e)
         /\ \A i, j \in DOMAIN events[e].cbs : events[e].cbs[i] = events[e].cbs[j] => i = j
  /\ MetByWaiters' <=>
       \A e \in Events :
         /\ \A i \in DOMAIN events'[e].cbs : MetAt(th'[events'[e].cbs[i]], events'[e].cbs[i], e)
         /\ \A i, j \in DOMAIN events'[e].cbs : events'[e].cbs[i] = events'[e].cbs[j] => i = j
<1>1. MetByWaiters <=>
        \A e \in Events :
          /\ \A i \in DOMAIN events[e].cbs : MetAt(th[events[e].cbs[i]], events[e].cbs[i], e)
          /\ \A i, j \in DOMAIN events[e].cbs : events[e].cbs[i] = events[e].cbs[j] => i = j
  BY DEF MetByWaiters, WaitsAt, Stmt, MetAt
<1>2. MetByWaiters' <=>
        \A e \in Events :
          /\ \A i \in DOMAIN events'[e].cbs : MetAt(th'[events'[e].cbs[i]], events'[e].cbs[i], e)
          /\ \A i, j \in DOMAIN events'[e].cbs : events'[e].cbs[i] = events'[e].cbs[j] => i = j
  BY DEF MetByWaiters, WaitsAt, Stmt, MetAt
<1>3. QED  BY <1>1, <1>2

\* The threads an event has stay where they are when another one moves
LEMMA MetStay ==
  ASSUME ThreadInv, NEW t \in Threads, \A u \in Threads : u # t => th'[u] = th[u],
         NEW e \in Events, NEW i \in DOMAIN events[e].cbs, events[e].cbs[i] # t
  PROVE  MetAt(th'[events[e].cbs[i]], events[e].cbs[i], e)
<1> DEFINE u == events[e].cbs[i]
<1>1. u \in Threads  BY WaitersLocked
<1>2. MetAt(th[u], u, e)  BY MetMeans DEF ThreadInv
<1>3. th'[u] = th[u]  BY <1>1
<1> HIDE DEF u
<1>4. MetAt(th'[u], u, e)  BY <1>2, <1>3
<1>5. QED  BY <1>4 DEF u

\* ... all of them, when the events have whom they had
LEMMA MetUnmoved ==
  ASSUME ThreadInv, NEW t \in Threads, \A u \in Threads : u # t => th'[u] = th[u],
         events' = events, \A e \in Events : \A i \in DOMAIN events[e].cbs : events[e].cbs[i] # t
  PROVE  MetByWaiters'
<1>1. \A e \in Events : \A i \in DOMAIN events[e].cbs :
        MetAt(th'[events[e].cbs[i]], events[e].cbs[i], e)
  BY MetStay
<1>2. \A e \in Events :
        \A i, j \in DOMAIN events[e].cbs : events[e].cbs[i] = events[e].cbs[j] => i = j
  BY DEF ThreadInv, MetByWaiters
<1>3. \A e \in Events :
        /\ \A i \in DOMAIN events'[e].cbs : MetAt(th'[events'[e].cbs[i]], events'[e].cbs[i], e)
        /\ \A i, j \in DOMAIN events'[e].cbs : events'[e].cbs[i] = events'[e].cbs[j] => i = j
  BY <1>1, <1>2
<1>4. QED  BY <1>3, MetMeans

LEMMA AsksKeeps ==
  ASSUME ThreadInv, NEW t \in Threads, Asks(t)
  PROVE  ThreadInv'
<1>1. IsAt(t, AskKinds) /\ Waits(t) /\ events' = events /\ delays' = delays  BY DEF Asks
<1>2. run # <<>> /\ t = Head(run)  BY <1>1 DEF IsAt
<1>3. PICK h \in Hosts : \E r : r.t = t /\ reqs' = [reqs EXCEPT ![h] = AddReq(@, r)]  BY DEF Asks
<1>4. PICK r : r.t = t /\ reqs' = [reqs EXCEPT ![h] = AddReq(@, r)]  BY <1>3
<1>5. DOMAIN reqs = Hosts  BY DEF ThreadInv, ThreadTypes
<1>6. /\ DOMAIN reqs' = Hosts
      /\ \A g \in Hosts : \A q \in reqs'[g] : q \in reqs[g] \/ (g = h /\ q = r)
  BY <1>4, <1>5 DEF AddReq
<1>7. WaitsAt(t, AskKinds)'
  BY <1>1, <1>2, RunnerLocks DEF IsAt, WaitsAt
<1>8. ThreadTypes'  BY <1>1, <1>2, <1>4, <1>6, RunnerLocks DEF ThreadInv, ThreadTypes
<1>9. AskedByWaiters'
  <2>1. \A g \in Hosts : \A q \in reqs'[g] : WaitsAt(q.t, AskKinds)'
    BY <1>1, <1>2, <1>4, <1>6, <1>7, RunnerLocks
  <2>2. \A g \in Hosts : \A q \in reqs[g] : q.t # t  BY <1>1, <1>2, RunnerLocks
  <2>3. ASSUME NEW f \in Hosts, NEW g \in Hosts, NEW q \in reqs'[f], NEW o \in reqs'[g], q.t = o.t
        PROVE  f = g /\ q = o
    <3>1. CASE q \in reqs[f] /\ o \in reqs[g]  BY <2>3, <3>1 DEF ThreadInv, AskedByWaiters
    <3>2. CASE ~(q \in reqs[f] /\ o \in reqs[g])  BY <1>4, <1>6, <2>2, <2>3, <3>2
    <3>3. QED  BY <3>1, <3>2
  <2>4. QED  BY <2>1, <2>3 DEF AskedByWaiters
<1>10. MetByWaiters'
  <2>1. \A e \in Events : \A i \in DOMAIN events[e].cbs : events[e].cbs[i] # t
    BY <1>1, <1>2, RunnerLocks, WaitersLocked
  <2>2. \A u \in Threads : u # t => th'[u] = th[u]  BY <1>1, <1>2, RunnerLocks
  <2>3. QED  BY <1>1, <2>1, <2>2, MetUnmoved
<1>11. DelayedWait'  BY <1>1, <1>2, RunnerLocks DEF DelayedWait
<1>12. QED  BY <1>1, <1>2, <1>8, <1>9, <1>10, <1>11, RunnerLocks DEF ThreadInv

\* What an event has after a member has come
LEMMA ComesTo ==
  ASSUME ThreadInv, NEW t \in Threads, Comes(t)
  PROVE  LET e == Stmt(t).event
         IN /\ e \in Events /\ events[e].live /\ t \in events[e].waitfor
            /\ events' \in [Events -> [waitfor : SUBSET Threads, cbs : Seq(Threads),
                                       timer : BOOLEAN, live : BOOLEAN]]
            /\ events'[e].waitfor = events[e].waitfor \ {t}
            /\ events'[e].live
            /\ events'[e].timer = (events[e].waitfor = {t})
            /\ events'[e].cbs = Append(events[e].cbs, t)
            /\ \A g \in Events : g # e => events'[g] = events[g]
<1> DEFINE e == Stmt(t).event
           R == [waitfor : SUBSET Threads, cbs : Seq(Threads), timer : BOOLEAN, live : BOOLEAN]
           w == events[e].waitfor \ {t}
           c == Append(events[e].cbs, t)
           b == (events[e].waitfor = {t})
           n1 == [events[e] EXCEPT !.waitfor = w]
           n2 == [n1 EXCEPT !.cbs = c]
           n3 == [n2 EXCEPT !.timer = b]
<1>1. e \in Events /\ events[e].live /\ t \in events[e].waitfor  BY DEF Comes
<1>2. events \in [Events -> R] /\ events[e] \in R  BY <1>1 DEF ThreadInv, ThreadTypes
<1>3. w \in SUBSET Threads /\ c \in Seq(Threads) /\ b \in BOOLEAN  BY <1>2
<1>4. events' = [events EXCEPT ![e] = [events[e] EXCEPT !.waitfor = w, !.cbs = c, !.timer = b]]
  BY DEF Comes
<1> HIDE DEF w, c, b, e
<1>5. [events[e] EXCEPT !.waitfor = w, !.cbs = c, !.timer = b] = n3  OBVIOUS
<1>6. n1 \in R /\ n1.waitfor = w /\ n1.live = events[e].live  BY <1>2, <1>3
<1> HIDE DEF n1
<1>7. n2 \in R /\ n2.waitfor = w /\ n2.live = events[e].live /\ n2.cbs = c  BY <1>3, <1>6
<1> HIDE DEF n2
<1>8. n3 \in R /\ n3.waitfor = w /\ n3.live = events[e].live /\ n3.cbs = c /\ n3.timer = b
  BY <1>3, <1>7
<1>9. events' = [events EXCEPT ![e] = n3]  BY <1>4, <1>5
<1> HIDE DEF n3, R
<1>10. /\ events' \in [Events -> R] /\ events'[e] = n3
       /\ \A g \in Events : g # e => events'[g] = events[g]
  BY <1>1, <1>2, <1>8, <1>9
<1>11. QED  BY <1>1, <1>8, <1>10 DEF e, w, c, b, R

LEMMA ComesKeeps ==
  ASSUME ThreadInv, NEW t \in Threads, Comes(t)
  PROVE  ThreadInv'
<1> DEFINE e == Stmt(t).event
<1>1. IsAt(t, MeetKinds) /\ Waits(t) /\ reqs' = reqs /\ delays' = delays  BY DEF Comes
<1>2. run # <<>> /\ t = Head(run)  BY <1>1 DEF IsAt
<1>3. ThreadTypes'  BY <1>1, <1>2, RunnerLocks, ComesTo DEF ThreadInv, ThreadTypes
<1>4. AskedByWaiters'  BY <1>1, <1>2, RunnerLocks DEF ThreadInv, AskedByWaiters
<1>5. DelayedWait'  BY <1>1, <1>2, RunnerLocks DEF DelayedWait
<1>6. MetByWaiters'
  <2>1. ASSUME NEW f \in Events, NEW i \in DOMAIN events[f].cbs
        PROVE  events[f].cbs[i] # t /\ MetAt(th'[events[f].cbs[i]], events[f].cbs[i], f)
    <3>1. events[f].cbs[i] # t  BY <1>1, <1>2, RunnerLocks, WaitersLocked
    <3>2. \A u \in Threads : u # t => th'[u] = th[u]  BY <1>1, <1>2, RunnerLocks
    <3>3. QED  BY <3>1, <3>2, MetStay
  <2>2. MetAt(th'[t], t, e)
    BY <1>1, <1>2, RunnerLocks DEF IsAt, Stmt, MetAt
  <2>3. e \in Events /\ events'[e].cbs = Append(events[e].cbs, t)
        /\ \A g \in Events : g # e => events'[g] = events[g]
    BY ComesTo
  <2>4. events[e].cbs \in Seq(Threads)  BY <2>3 DEF ThreadInv, ThreadTypes
  <2>5. /\ DOMAIN events'[e].cbs = 1 .. Len(events[e].cbs) + 1 /\ Len(events[e].cbs) \in Nat
        /\ DOMAIN events[e].cbs = 1 .. Len(events[e].cbs)
        /\ \A i \in DOMAIN events[e].cbs : events'[e].cbs[i] = events[e].cbs[i]
        /\ events'[e].cbs[Len(events[e].cbs) + 1] = t
    BY <2>3, <2>4
  <2> HIDE DEF e
  <2>6. ASSUME NEW f \in Events, NEW i \in DOMAIN events'[f].cbs
        PROVE  MetAt(th'[events'[f].cbs[i]], events'[f].cbs[i], f)
    <3>1. CASE f # e  BY <2>1, <2>3, <2>6, <3>1
    <3>2. CASE f = e /\ i \in DOMAIN events[e].cbs  BY <2>1, <2>5, <2>6, <3>2
    <3>3. CASE f = e /\ i = Len(events[e].cbs) + 1  BY <2>2, <2>5, <2>6, <3>3
    <3>4. ASSUME f = e  PROVE i \in DOMAIN events[e].cbs \/ i = Len(events[e].cbs) + 1
      BY <2>5, <2>6, <3>4
    <3>5. QED  BY <3>1, <3>2, <3>3, <3>4
  <2>7. ASSUME NEW f \in Events, NEW i \in DOMAIN events'[f].cbs, NEW j \in DOMAIN events'[f].cbs,
               events'[f].cbs[i] = events'[f].cbs[j]
        PROVE  i = j
    <3>1. CASE f # e  BY <2>3, <2>7, <3>1 DEF ThreadInv, MetByWaiters
    <3>2. CASE f = e
      <4>1. \A k \in DOMAIN events[e].cbs : events[e].cbs[k] # t  BY <2>1, <2>3
      <4>2. \A k, m \in DOMAIN events[e].cbs : events[e].cbs[k] = events[e].cbs[m] => k = m
        BY <2>3 DEF ThreadInv, MetByWaiters
      <4>3. i \in DOMAIN events[e].cbs \/ i = Len(events[e].cbs) + 1  BY <2>5, <2>7, <3>2
      <4>4. j \in DOMAIN events[e].cbs \/ j = Len(events[e].cbs) + 1  BY <2>5, <2>7, <3>2
      <4>5. CASE i \in DOMAIN events[e].cbs /\ j \in DOMAIN events[e].cbs
        BY <2>5, <2>7, <3>2, <4>2, <4>5
      <4>6. CASE ~(i \in DOMAIN events[e].cbs /\ j \in DOMAIN events[e].cbs)
        BY <2>5, <2>7, <3>2, <4>1, <4>3, <4>4, <4>6
      <4>7. QED  BY <4>5, <4>6
    <3>3. QED  BY <3>1, <3>2
  <2>8. QED  BY <2>6, <2>7, MetMeans
<1>7. QED  BY <1>1, <1>2, <1>3, <1>4, <1>5, <1>6, RunnerLocks DEF ThreadInv

LEMMA PausesKeeps ==
  ASSUME ThreadInv, NEW t \in Threads, Pauses(t)
  PROVE  ThreadInv'
<1>1. /\ IsAt(t, {"delay"}) /\ Waits(t) /\ reqs' = reqs /\ events' = events
      /\ delays' = delays \cup {t}
  BY DEF Pauses
<1>2. run # <<>> /\ t = Head(run)  BY <1>1 DEF IsAt
<1>3. ThreadTypes'  BY <1>1, <1>2, RunnerLocks DEF ThreadInv, ThreadTypes
<1>4. AskedByWaiters'  BY <1>1, <1>2, RunnerLocks DEF ThreadInv, AskedByWaiters
<1>5. WaitsAt(t, {"delay"})'  BY <1>1, <1>2, RunnerLocks DEF IsAt, WaitsAt
<1>6. DelayedWait'
  <2>1. \A u \in delays : WaitsAt(u, {"delay"})'  BY <1>1, <1>2, RunnerLocks
  <2>2. QED  BY <1>1, <1>5, <2>1 DEF DelayedWait
<1>7. MetByWaiters'
  <2>1. \A e \in Events : \A i \in DOMAIN events[e].cbs : events[e].cbs[i] # t
    BY <1>1, <1>2, RunnerLocks, WaitersLocked
  <2>2. \A u \in Threads : u # t => th'[u] = th[u]  BY <1>1, <1>2, RunnerLocks
  <2>3. QED  BY <1>1, <2>1, <2>2, MetUnmoved
<1>8. QED  BY <1>1, <1>2, <1>3, <1>4, <1>6, <1>7, RunnerLocks DEF ThreadInv

\* A thread is let go, and waits for nothing any more
LEMMA LetGo ==
  ASSUME ThreadInv, NEW t \in Threads, Dispatching, NEW res, Ends(t, res)
  PROVE  /\ th' \in [Threads -> [pos : Nat, step : Nat, locked : BOOLEAN]]
         /\ run' \in Seq(Threads) /\ RunsFree'
         /\ \A u \in Threads : u # t => th'[u] = th[u]
<1>1. ThreadTypes  BY DEF ThreadInv
<1>2. CASE Ends(t, 0)
  <2>1. Puts(t, th[t].pos, th[t].step + 1, FALSE)  BY <1>1, <1>2, PutByStep
  <2>2. run' = <<t>>  BY <1>2 DEF Ends
  <2>3. run' \in Seq(Threads) /\ DOMAIN run' = {1} /\ run'[1] = t  BY <2>2
  <2>4. QED  BY <2>1, <2>3 DEF Puts, RunsFree
<1>3. CASE Puts(t, 0, th[t].step, FALSE) /\ run' = run
  <2>1. run' = <<>>  BY <1>3 DEF Dispatching
  <2>2. QED  BY <1>3, <2>1 DEF Puts, RunsFree
<1>4. QED  BY <1>1, <1>2, <1>3, PutByStep

LEMMA AnsweredKeeps ==
  ASSUME ThreadInv, Answered
  PROVE  ThreadInv'
<1>1. PICK h \in Hosts : \E r \in reqs[h] :
        reqs' = [reqs EXCEPT ![h] = @ \ {r}] /\ \E res : Ends(r.t, res)
  BY DEF Answered
<1>2. PICK r \in reqs[h] : reqs' = [reqs EXCEPT ![h] = @ \ {r}] /\ \E res : Ends(r.t, res)
  BY <1>1
<1>3. PICK res : Ends(r.t, res)  BY <1>2
<1> DEFINE t == r.t
<1>4. t \in Threads /\ WaitsAt(t, AskKinds)
  BY <1>2 DEF ThreadInv, ThreadTypes, AskedByWaiters
<1>5. Dispatching /\ events' = events /\ delays' = delays  BY DEF Answered
<1>6. DOMAIN reqs = Hosts  BY DEF ThreadInv, ThreadTypes
<1>7. /\ DOMAIN reqs' = Hosts
      /\ \A g \in Hosts : \A q \in reqs'[g] : q \in reqs[g] /\ (g = h => q # r)
  BY <1>2, <1>6
<1>8. \A g \in Hosts : \A q \in reqs'[g] : q.t # t
  BY <1>2, <1>7 DEF ThreadInv, AskedByWaiters
<1> HIDE DEF t
<1>9. Ends(t, res)  BY <1>3 DEF t
<1>10. ThreadTypes'  BY <1>4, <1>5, <1>7, <1>9, LetGo DEF ThreadInv, ThreadTypes
<1>11. AskedByWaiters'
  <2>1. ASSUME NEW g \in Hosts, NEW q \in reqs'[g]  PROVE WaitsAt(q.t, AskKinds)'
    <3>1. q \in reqs[g] /\ q.t # t  BY <1>7, <1>8
    <3>2. q.t \in Threads /\ WaitsAt(q.t, AskKinds)
      BY <3>1 DEF ThreadInv, ThreadTypes, AskedByWaiters
    <3>3. th'[q.t] = th[q.t]  BY <1>4, <1>5, <1>9, <3>1, <3>2, LetGo
    <3>4. QED  BY <3>2, <3>3, Unmoved
  <2>2. \A f, g \in Hosts : \A q \in reqs'[f], o \in reqs'[g] : q.t = o.t => f = g /\ q = o
    BY <1>7 DEF ThreadInv, AskedByWaiters
  <2>3. QED  BY <2>1, <2>2 DEF AskedByWaiters
<1>12. MetByWaiters'
  <2>1. ASSUME NEW e \in Events, NEW i \in DOMAIN events[e].cbs  PROVE events[e].cbs[i] # t
    <3>1. WaitsAt(events[e].cbs[i], MeetKinds)  BY DEF ThreadInv, MetByWaiters
    <3>2. QED  BY <1>4, <3>1 DEF WaitsAt, MeetKinds, AskKinds
  <2>2. \A u \in Threads : u # t => th'[u] = th[u]  BY <1>4, <1>5, <1>9, LetGo
  <2>3. QED  BY <1>4, <1>5, <2>1, <2>2, MetUnmoved
<1>13. DelayedWait'
  <2>1. ASSUME NEW u \in delays  PROVE WaitsAt(u, {"delay"})'
    <3>1. u \in Threads /\ WaitsAt(u, {"delay"})  BY DEF ThreadInv, ThreadTypes, DelayedWait
    <3>2. u # t  BY <1>4, <3>1 DEF WaitsAt, AskKinds
    <3>3. th'[u] = th[u]  BY <1>4, <1>5, <1>9, <3>1, <3>2, LetGo
    <3>4. QED  BY <3>1, <3>3, Unmoved
  <2>2. QED  BY <1>5, <2>1 DEF DelayedWait
<1>14. QED  BY <1>4, <1>5, <1>9, <1>10, <1>11, <1>12, <1>13, LetGo DEF ThreadInv

LEMMA DelayedKeeps ==
  ASSUME ThreadInv, NEW t \in Threads, delayExpired(t)
  PROVE  ThreadInv'
<1>1. /\ Dispatching /\ t \in delays /\ delays' = delays \ {t} /\ Ends(t, 0)
      /\ reqs' = reqs /\ events' = events
  BY DEF delayExpired
<1>2. WaitsAt(t, {"delay"})  BY <1>1 DEF ThreadInv, DelayedWait
<1>3. ThreadTypes'  BY <1>1, LetGo DEF ThreadInv, ThreadTypes
<1>4. AskedByWaiters'
  <2>1. ASSUME NEW h \in Hosts, NEW r \in reqs[h]  PROVE WaitsAt(r.t, AskKinds)'
    <3>1. r.t \in Threads /\ WaitsAt(r.t, AskKinds)
      BY DEF ThreadInv, ThreadTypes, AskedByWaiters
    <3>2. r.t # t  BY <1>2, <3>1 DEF WaitsAt, AskKinds
    <3>3. th'[r.t] = th[r.t]  BY <1>1, <3>1, <3>2, LetGo
    <3>4. QED  BY <3>1, <3>3, Unmoved
  <2>2. QED  BY <1>1, <2>1 DEF ThreadInv, AskedByWaiters
<1>5. MetByWaiters'
  <2>1. ASSUME NEW e \in Events, NEW i \in DOMAIN events[e].cbs  PROVE events[e].cbs[i] # t
    <3>1. WaitsAt(events[e].cbs[i], MeetKinds)  BY DEF ThreadInv, MetByWaiters
    <3>2. QED  BY <1>2, <3>1 DEF WaitsAt, MeetKinds
  <2>2. \A u \in Threads : u # t => th'[u] = th[u]  BY <1>1, LetGo
  <2>3. QED  BY <1>1, <2>1, <2>2, MetUnmoved
<1>6. DelayedWait'
  <2>1. ASSUME NEW u \in delays, u # t  PROVE WaitsAt(u, {"delay"})'
    <3>1. u \in Threads /\ WaitsAt(u, {"delay"})
      BY <2>1 DEF ThreadInv, ThreadTypes, DelayedWait
    <3>2. th'[u] = th[u]  BY <1>1, <2>1, <3>1, LetGo
    <3>3. QED  BY <3>1, <3>2, Unmoved
  <2>2. QED  BY <1>1, <2>1 DEF DelayedWait
<1>7. QED  BY <1>1, <1>3, <1>4, <1>5, <1>6, LetGo DEF ThreadInv

\* What an event that expires does to the threads and to itself
LEMMA ExpiresTo ==
  ASSUME ThreadInv, NEW e \in Events, eventExpired(e)
  PROVE  /\ th' \in [Threads -> [pos : Nat, step : Nat, locked : BOOLEAN]]
         /\ \A i \in DOMAIN events[e].cbs :
              LET u == events[e].cbs[i]
              IN ~th'[u].locked /\ th'[u].pos = th[u].pos /\ th'[u].step = th[u].step + 1
         /\ \A u \in Threads :
              (\A i \in DOMAIN events[e].cbs : events[e].cbs[i] # u) => th'[u] = th[u]
         /\ events' \in [Events -> [waitfor : SUBSET Threads, cbs : Seq(Threads),
                                    timer : BOOLEAN, live : BOOLEAN]]
         /\ events'[e].waitfor = events[e].waitfor /\ events'[e].cbs = <<>>
         /\ \A g \in Events : g # e => events'[g] = events[g]
<1> DEFINE R == [waitfor : SUBSET Threads, cbs : Seq(Threads), timer : BOOLEAN, live : BOOLEAN]
           n1 == [events[e] EXCEPT !.live = FALSE]
           n2 == [n1 EXCEPT !.timer = FALSE]
           none == <<>>
           n3 == [n2 EXCEPT !.cbs = none]
<1>1. events \in [Events -> R] /\ events[e] \in R  BY DEF ThreadInv, ThreadTypes
<1>2. events' = [events EXCEPT ![e] = [events[e] EXCEPT !.live = FALSE, !.timer = FALSE,
                                                        !.cbs = <<>>]]
  BY <1>1 DEF eventExpired
<1>3. [events[e] EXCEPT !.live = FALSE, !.timer = FALSE, !.cbs = <<>>] = n3  OBVIOUS
<1>4. n1 \in R /\ n1.waitfor = events[e].waitfor  BY <1>1
<1> HIDE DEF n1
<1>5. n2 \in R /\ n2.waitfor = events[e].waitfor  BY <1>4
<1>a. none \in Seq(Threads)  OBVIOUS
<1> HIDE DEF n2, none
<1>6. n3 \in R /\ n3.waitfor = events[e].waitfor /\ n3.cbs = none  BY <1>5, <1>a
<1>7. events' = [events EXCEPT ![e] = n3]  BY <1>2, <1>3 DEF none
<1> HIDE DEF n3, R
<1>8. /\ events' \in [Events -> R] /\ events'[e] = n3
      /\ \A g \in Events : g # e => events'[g] = events[g]
  BY <1>1, <1>6, <1>7
<1> DEFINE met(u) == \E i \in DOMAIN events[e].cbs : events[e].cbs[i] = u
           moved(u) == [th[u] EXCEPT !.step = @ + 1, !.locked = FALSE]
<1>9. th' = [u \in Threads |-> IF met(u) THEN moved(u) ELSE th[u]]  BY DEF eventExpired
<1>10. ASSUME NEW u \in Threads
       PROVE  moved(u) = Posn(th[u].pos, th[u].step + 1, FALSE)
  <2> DEFINE p == th[u].pos
             s == th[u].step
             l == th[u].locked
             y == s + 1
             r == SetStep(th[u], y)
  <2>1. th[u] = Posn(p, s, l) /\ l \in BOOLEAN  BY DEF Posn, ThreadInv, ThreadTypes
  <2>2. moved(u) = SetLocked(r, FALSE)  BY DEF SetLocked, SetStep
  <2> HIDE DEF p, s, l, y, moved
  <2>3. r = Posn(p, y, l)  BY <2>1, SetFields
  <2> HIDE DEF r
  <2>4. SetLocked(r, FALSE) = Posn(p, y, FALSE)  BY <2>3, SetFlag, Zenon
  <2>5. QED  BY <2>2, <2>4 DEF p, s, y
<1> HIDE DEF met, moved
<1>11. ASSUME NEW u \in Threads
       PROVE  /\ th'[u] \in [pos : Nat, step : Nat, locked : BOOLEAN]
              /\ met(u) => ~th'[u].locked /\ th'[u].pos = th[u].pos /\ th'[u].step = th[u].step + 1
              /\ ~met(u) => th'[u] = th[u]
  <2>1. th[u] \in [pos : Nat, step : Nat, locked : BOOLEAN]  BY DEF ThreadInv, ThreadTypes
  <2>2. CASE met(u)
    <3>1. th'[u] = Posn(th[u].pos, th[u].step + 1, FALSE)  BY <1>9, <1>10, <2>2
    <3>2. QED  BY <2>1, <2>2, <3>1 DEF Posn
  <2>3. CASE ~met(u)  BY <1>9, <2>1, <2>3
  <2>4. QED  BY <2>2, <2>3
<1>12. th' \in [Threads -> [pos : Nat, step : Nat, locked : BOOLEAN]]  BY <1>9, <1>11
<1>13. ASSUME NEW i \in DOMAIN events[e].cbs
       PROVE  met(events[e].cbs[i]) /\ events[e].cbs[i] \in Threads
  BY WaitersLocked DEF met
<1>14. \A u \in Threads : (\A i \in DOMAIN events[e].cbs : events[e].cbs[i] # u) => ~met(u)
  BY DEF met
<1>15. QED  BY <1>6, <1>8, <1>11, <1>12, <1>13, <1>14 DEF R, none

LEMMA ExpiredKeeps ==
  ASSUME ThreadInv, NEW e \in Events, eventExpired(e)
  PROVE  ThreadInv'
<1>1. run' = events[e].cbs /\ reqs' = reqs /\ delays' = delays  BY DEF eventExpired
<1>2. events[e].cbs \in Seq(Threads)  BY DEF ThreadInv, ThreadTypes
<1>3. ThreadTypes'  BY <1>1, <1>2, ExpiresTo DEF ThreadInv, ThreadTypes
<1>4. RunsFree'  BY <1>1, ExpiresTo DEF ThreadInv, MetByWaiters, RunsFree
<1>5. \A i \in DOMAIN events[e].cbs : WaitsAt(events[e].cbs[i], MeetKinds)
  BY DEF ThreadInv, MetByWaiters
<1>6. AskedByWaiters'
  <2>1. ASSUME NEW h \in Hosts, NEW r \in reqs[h]  PROVE WaitsAt(r.t, AskKinds)'
    <3>1. r.t \in Threads /\ WaitsAt(r.t, AskKinds)
      BY DEF ThreadInv, ThreadTypes, AskedByWaiters
    <3>2. \A i \in DOMAIN events[e].cbs : events[e].cbs[i] # r.t
      BY <1>5, <3>1 DEF WaitsAt, AskKinds, MeetKinds
    <3>3. th'[r.t] = th[r.t]  BY <3>1, <3>2, ExpiresTo
    <3>4. QED  BY <3>1, <3>3, Unmoved
  <2>2. QED  BY <1>1, <2>1 DEF ThreadInv, AskedByWaiters
<1>7. DelayedWait'
  <2>1. ASSUME NEW u \in delays  PROVE WaitsAt(u, {"delay"})'
    <3>1. u \in Threads /\ WaitsAt(u, {"delay"})  BY DEF ThreadInv, ThreadTypes, DelayedWait
    <3>2. \A i \in DOMAIN events[e].cbs : events[e].cbs[i] # u
      BY <1>5, <3>1 DEF WaitsAt, MeetKinds
    <3>3. th'[u] = th[u]  BY <3>1, <3>2, ExpiresTo
    <3>4. QED  BY <3>1, <3>3, Unmoved
  <2>2. QED  BY <1>1, <2>1 DEF DelayedWait
<1>8. MetByWaiters'
  <2>1. ASSUME NEW f \in Events, NEW i \in DOMAIN events'[f].cbs
        PROVE  MetAt(th'[events'[f].cbs[i]], events'[f].cbs[i], f)
    <3>1. f # e /\ events'[f] = events[f] /\ i \in DOMAIN events[f].cbs
      <4>1. events'[e].cbs = <<>>  BY ExpiresTo
      <4>2. f # e  BY <2>1, <4>1
      <4>3. QED  BY <2>1, <4>2, ExpiresTo
    <3> DEFINE u == events[f].cbs[i]
    <3>2. u \in Threads /\ MetAt(th[u], u, f)
      BY <3>1, WaitersLocked, MetMeans DEF ThreadInv
    <3>3. \A k \in DOMAIN events[e].cbs : events[e].cbs[k] # u
      <4>1. \A k \in DOMAIN events[e].cbs : MetAt(th[events[e].cbs[k]], events[e].cbs[k], e)
        BY MetMeans DEF ThreadInv
      <4> HIDE DEF u
      <4>2. QED  BY <3>1, <3>2, <4>1 DEF MetAt
    <3>4. th'[u] = th[u]  BY <3>2, <3>3, ExpiresTo
    <3>5. u = events'[f].cbs[i]  BY <3>1
    <3> HIDE DEF u
    <3>6. QED  BY <3>2, <3>4, <3>5
  <2>2. \A f \in Events : \A i, j \in DOMAIN events'[f].cbs :
          events'[f].cbs[i] = events'[f].cbs[j] => i = j
    <3>1. events'[e].cbs = <<>> /\ \A g \in Events : g # e => events'[g] = events[g]
      BY ExpiresTo
    <3>2. QED  BY <3>1 DEF ThreadInv, MetByWaiters
  <2>3. QED  BY <2>1, <2>2, MetMeans
<1>9. QED  BY <1>3, <1>4, <1>6, <1>7, <1>8 DEF ThreadInv

\* Every move keeps the invariant of the threads
LEMMA MovesKeep ==
  ASSUME ThreadInv, Moves
  PROVE  ThreadInv'
<1>0. ThreadTypes /\ RunsFree  BY DEF ThreadInv
<1>1. ASSUME NEW t \in Threads, Steps(t)  PROVE ThreadInv'
  <2>1. run # <<>> /\ t = Head(run) /\ GoesOn(t) /\ UNCHANGED <<reqs, events, delays>> /\ run' = run
    BY <1>1 DEF Steps, IsAt, GoesOn
  <2>2. Puts(t, th[t].pos, th[t].step + 1, th[t].locked) /\ th[t].pos \in Nat
        /\ th[t].step \in Nat
    BY <1>0, <2>1, PutByStep
  <2>3. th[t].step + 1 \in Nat  BY <2>2
  <2>4. QED  BY <2>1, <2>2, <2>3, RunnerKeeps
<1>2. ASSUME NEW t \in Threads, Fails(t)  PROVE ThreadInv'
  <2>1. run # <<>> /\ t = Head(run) /\ Aborts(t) /\ UNCHANGED <<reqs, events, delays>>
        /\ run' = Tail(run)
    BY <1>2 DEF Fails, Aborts
  <2>2. Puts(t, 0, th[t].step, th[t].locked) /\ 0 \in Nat /\ th[t].step \in Nat
    BY <1>0, <2>1, PutByStep
  <2>3. QED  BY <2>1, <2>2, RunnerKeeps
<1>3. ASSUME NEW t \in Threads, NextOne(t)  PROVE ThreadInv'
  <2>1. run # <<>> /\ t = Head(run) /\ UNCHANGED <<reqs, events, delays>> /\ run' = run
        /\ th' = [th EXCEPT ![t].pos = @ + 1, ![t].step = 0]
    BY <1>3 DEF NextOne, IsAt
  <2>2. Puts(t, th[t].pos + 1, 0, th[t].locked) /\ th[t].pos \in Nat
    BY <1>0, <2>1, PutByStep
  <2>3. th[t].pos + 1 \in Nat /\ 0 \in Nat  BY <2>2
  <2>4. QED  BY <2>1, <2>2, <2>3, RunnerKeeps
<1>4. ASSUME Finishes  PROVE ThreadInv'
  <2>1. run # <<>> /\ run' = Tail(run) /\ th' = th /\ UNCHANGED <<reqs, events, delays>>
    BY <1>4 DEF Finishes
  <2>2. Tail(run) \in Seq(Threads)  BY <1>0, <2>1, TailOfRun
  <2>3. ThreadTypes'  BY <1>0, <2>1, <2>2 DEF ThreadTypes
  <2>4. RunsFree'  BY <1>0, <2>1, TailOfRun DEF RunsFree
  <2>5. QED  BY <2>1, <2>3, <2>4, WaitersStay DEF ThreadInv
<1>5. ASSUME Idles  PROVE ThreadInv'
  <2>1. UNCHANGED <<th, run, reqs, events, delays>>  BY <1>5 DEF Idles
  <2>2. ThreadTypes'  BY <1>0, <2>1 DEF ThreadTypes
  <2>3. RunsFree'  BY <1>0, <2>1 DEF RunsFree
  <2>4. QED  BY <2>1, <2>2, <2>3, WaitersStay DEF ThreadInv
<1>6. QED
  BY <1>1, <1>2, <1>3, <1>4, <1>5, AsksKeeps, ComesKeeps, PausesKeeps, DelayedKeeps, AnsweredKeeps,
     ExpiredKeeps DEF Moves

-----------------------------------------------------------------------------
(* Nobody passes an event alone                                             *)

\* A move of u passes no event it had not passed, and does not take it back
\* from one it has come to
Holds(u, e) ==
  /\ IsPast(u, e)' => IsPast(u, e)
  /\ HasCome(u, e) \/ th[u].pos = 0 => HasCome(u, e)' \/ th'[u].pos = 0

\* The moves that do so: none, an abort, the next statement, a step at a
\* statement that waits for no event
LEMMA Held ==
  ASSUME NEW u \in Threads, NEW e \in Events, th[u].pos \in Nat, th[u].step \in Nat,
         \/ th'[u].pos = th[u].pos /\ th'[u].step = th[u].step
         \/ th'[u].pos = 0
         \/ th'[u].pos = th[u].pos + 1 /\ th'[u].step = 0 /\ th[u].step > 0
            /\ th[u].pos \in DOMAIN Script[u]
         \/ th'[u].pos = th[u].pos /\ th'[u].step = th[u].step + 1
            /\ ~(th[u].pos \in DOMAIN Script[u] /\ Stmt(u).kind \in MeetKinds
                 /\ Stmt(u).event = e)
  PROVE  Holds(u, e)
<1>1. \A i \in Meets(u, e) :
        /\ i \in Nat /\ i > 0 /\ i \in DOMAIN Script[u]
        /\ Script[u][i].kind \in MeetKinds /\ Script[u][i].event = e
  BY VelAssumption DEF Meets, MeetKinds
<1>2. CASE th'[u].pos = th[u].pos /\ th'[u].step = th[u].step
  BY <1>2 DEF Holds, IsPast, HasCome
<1>3. CASE th'[u].pos = 0
  BY <1>1, <1>3 DEF Holds, IsPast
<1>4. CASE th'[u].pos = th[u].pos + 1 /\ th'[u].step = 0 /\ th[u].step > 0
            /\ th[u].pos \in DOMAIN Script[u]
  <2>1. \A i \in Meets(u, e) : th'[u].pos > i \/ (th'[u].pos = i /\ th'[u].step > 0)
                             => th[u].pos > i \/ (th[u].pos = i /\ th[u].step > 0)
    BY <1>1, <1>4
  <2>2. \A i \in Meets(u, e) : th[u].pos >= i => th'[u].pos >= i  BY <1>1, <1>4
  <2>3. th[u].pos # 0  BY <1>4, VelAssumption
  <2>4. QED  BY <2>1, <2>2, <2>3 DEF Holds, IsPast, HasCome
<1>5. CASE th'[u].pos = th[u].pos /\ th'[u].step = th[u].step + 1
            /\ ~(th[u].pos \in DOMAIN Script[u] /\ Stmt(u).kind \in MeetKinds
                 /\ Stmt(u).event = e)
  <2>1. th[u].pos \notin Meets(u, e)  BY <1>1, <1>5 DEF Stmt
  <2>2. QED  BY <1>1, <1>5, <2>1 DEF Holds, IsPast, HasCome
<1>6. QED  BY <1>2, <1>3, <1>4, <1>5

\* The expiry of an event passes no other one
LEMMA ExpiryHolds ==
  ASSUME ThreadInv, NEW u \in Threads, NEW e \in Events, NEW f \in Events, f # e, eventExpired(f)
  PROVE  Holds(u, e)
<1>0. th[u].pos \in Nat /\ th[u].step \in Nat  BY DEF ThreadInv, ThreadTypes
  <1>2. CASE \E i \in DOMAIN events[f].cbs : events[f].cbs[i] = u
    <2>1. PICK i \in DOMAIN events[f].cbs : events[f].cbs[i] = u  BY <1>2
    <2>2. Stmt(u).event = f  BY <2>1 DEF ThreadInv, MetByWaiters
    <2>3. th'[u].pos = th[u].pos /\ th'[u].step = th[u].step + 1  BY <2>1, ExpiresTo
    <2>4. QED  BY <1>0, <2>2, <2>3, Held
  <1>3. CASE \A i \in DOMAIN events[f].cbs : events[f].cbs[i] # u
    <2>1. th'[u] = th[u]  BY <1>3, ExpiresTo
    <2>2. QED  BY <1>0, <2>1, Held
  <1>4. QED  BY <1>2, <1>3

\* No other move passes an event
LEMMA MovesHold ==
  ASSUME ThreadInv, NEW u \in Threads, NEW e \in Events,
         \/ \E t \in Threads : \/ Steps(t) \/ Fails(t) \/ Asks(t) \/ Comes(t) \/ Pauses(t)
                               \/ NextOne(t) \/ delayExpired(t)
         \/ Finishes \/ Answered \/ Idles
  PROVE  Holds(u, e)
<1>0. ThreadTypes /\ th[u].pos \in Nat /\ th[u].step \in Nat  BY DEF ThreadInv, ThreadTypes
<1>1. ASSUME NEW t \in Threads,
             Steps(t) \/ Fails(t) \/ Asks(t) \/ Comes(t) \/ Pauses(t) \/ NextOne(t)
      PROVE  Holds(u, e)
  <2>1. CASE Steps(t)
    <3>1. Puts(t, th[t].pos, th[t].step + 1, th[t].locked)  BY <1>0, <2>1, PutByStep DEF Steps
    <3>2. Stmt(t).kind \notin MeetKinds  BY <2>1 DEF Steps, IsAt, AskKinds, MeetKinds
    <3>3. QED  BY <1>0, <3>1, <3>2, Held DEF Puts
  <2>2. CASE Fails(t)
    <3>1. Puts(t, 0, th[t].step, th[t].locked)  BY <1>0, <2>2, PutByStep DEF Fails
    <3>2. QED  BY <1>0, <3>1, Held DEF Puts
  <2>3. CASE Asks(t) \/ Comes(t) \/ Pauses(t)
    <3>1. Puts(t, th[t].pos, th[t].step, TRUE)
      BY <1>0, <2>3, PutByStep DEF Asks, Comes, Pauses
    <3>2. QED  BY <1>0, <3>1, Held DEF Puts
  <2>4. CASE NextOne(t)
    <3>1. Puts(t, th[t].pos + 1, 0, th[t].locked)  BY <1>0, <2>4, PutByStep DEF NextOne
    <3>2. th[t].step > 0 /\ th[t].pos \in DOMAIN Script[t]  BY <2>4 DEF NextOne, IsAt
    <3>3. QED  BY <1>0, <3>1, <3>2, Held DEF Puts
  <2>5. QED  BY <1>1, <2>1, <2>2, <2>3, <2>4
<1>2. ASSUME NEW t \in Threads, NEW res, Ends(t, res), Stmt(t).kind \notin MeetKinds
      PROVE  Holds(u, e)
  <2>1. CASE Ends(t, 0)
    <3>1. Puts(t, th[t].pos, th[t].step + 1, FALSE)  BY <1>0, <2>1, PutByStep
    <3>2. QED  BY <1>0, <1>2, <3>1, Held DEF Puts
  <2>2. CASE Puts(t, 0, th[t].step, FALSE)  BY <1>0, <2>2, Held DEF Puts
  <2>3. QED  BY <1>0, <1>2, <2>1, <2>2, PutByStep
<1>3. ASSUME NEW t \in Threads, delayExpired(t)  PROVE Holds(u, e)
  <2>1. Ends(t, 0) /\ t \in delays  BY <1>3 DEF delayExpired
  <2>2. Stmt(t).kind \notin MeetKinds
    BY <2>1 DEF ThreadInv, DelayedWait, WaitsAt, MeetKinds
  <2>3. QED  BY <1>2, <2>1, <2>2
<1>4. ASSUME Answered  PROVE Holds(u, e)
  <2>1. PICK h \in Hosts : \E r \in reqs[h] : \E res : Ends(r.t, res)  BY <1>4 DEF Answered
  <2>2. PICK r \in reqs[h] : \E res : Ends(r.t, res)  BY <2>1
  <2>3. r.t \in Threads /\ Stmt(r.t).kind \notin MeetKinds
    BY <2>2 DEF ThreadInv, ThreadTypes, AskedByWaiters, WaitsAt, AskKinds, MeetKinds
  <2>4. QED  BY <1>2, <2>2, <2>3
<1>5. ASSUME Finishes \/ Idles  PROVE Holds(u, e)
  BY <1>0, <1>5, Held DEF Finishes, Idles
<1>6. QED  BY <1>1, <1>3, <1>4, <1>5

LEMMA EventsInitially ==
  ASSUME VelInit
  PROVE  EventsWait
<1>1. ASSUME NEW e \in Events, NEW t \in Threads  PROVE ~IsPast(t, e)
  <2>1. \A i \in Meets(t, e) : i \in Nat /\ i > 0  BY VelAssumption DEF Meets
  <2>2. th[t].pos = 1 /\ th[t].step = 0  BY DEF VelInit
  <2>3. QED  BY <2>1, <2>2 DEF IsPast
<1>2. QED  BY <1>1 DEF VelInit, EventsWait

\* What EventsWait says of one event
Waited(e) ==
  /\ events[e].timer \/ ~events[e].live => events[e].waitfor = {}
  /\ \A u \in Members[e] : u \notin events[e].waitfor => HasCome(u, e) \/ th[u].pos = 0
  /\ \A t \in Threads : IsPast(t, e) => events[e].waitfor = {}

LEMMA OthersKeepWaiting ==
  ASSUME EventsWait, NEW e \in Events, events'[e] = events[e], \A u \in Threads : Holds(u, e)
  PROVE  Waited(e)'
<1>1. Members[e] \subseteq Threads  BY VelAssumption
<1>2. Waited(e)  BY DEF EventsWait, Waited
<1>3. events'[e].timer \/ ~events'[e].live => events'[e].waitfor = {}  BY <1>2 DEF Waited
<1>4. ASSUME NEW u \in Members[e], u \notin events'[e].waitfor
      PROVE  HasCome(u, e)' \/ th'[u].pos = 0
  BY <1>1, <1>2, <1>4 DEF Waited, Holds
<1>5. ASSUME NEW t \in Threads, IsPast(t, e)'  PROVE events'[e].waitfor = {}
  BY <1>2, <1>5 DEF Waited, Holds
<1>6. QED  BY <1>3, <1>4, <1>5 DEF Waited

LEMMA EventsKeep ==
  ASSUME ThreadInv, EventsWait, Moves
  PROVE  EventsWait'
<1> SUFFICES ASSUME NEW e \in Events  PROVE Waited(e)'
  BY DEF EventsWait, Waited
<1>0. Members[e] \subseteq Threads /\ Waited(e)  BY VelAssumption DEF EventsWait, Waited
<1>1. ASSUME NEW t \in Threads, Comes(t)  PROVE Waited(e)'
  <2> DEFINE f == Stmt(t).event
  <2>1. /\ f \in Events /\ t \in events[f].waitfor
        /\ events'[f].waitfor = events[f].waitfor \ {t} /\ events'[f].live
        /\ events'[f].timer = (events[f].waitfor = {t})
        /\ \A g \in Events : g # f => events'[g] = events[g]
    BY <1>1, ComesTo
  <2>2. \A u \in Threads : Holds(u, e)  BY <1>1, MovesHold
  <2>3. CASE f # e  BY <2>1, <2>2, <2>3, OthersKeepWaiting
  <2>4. CASE f = e
    <3>1. IsAt(t, MeetKinds) /\ Waits(t)  BY <1>1 DEF Comes
    <3>2. th'[t].pos = th[t].pos /\ th[t].pos \in Nat
      BY <3>1, RunnerLocks DEF IsAt, ThreadInv, ThreadTypes
    <3>3. th[t].pos \in Meets(t, e)  BY <2>4, <3>1 DEF IsAt, Meets, MeetKinds, Stmt
    <3>4. HasCome(t, e)'
      <4>1. th'[t].pos >= th[t].pos  BY <3>2
      <4>2. \E i \in Meets(t, e) : th'[t].pos >= i  BY <3>3, <4>1
      <4>3. QED  BY <4>2 DEF HasCome, Meets
    <3>5. events[e].waitfor # {}  BY <2>1, <2>4
    <3>6. events'[e].timer \/ ~events'[e].live => events'[e].waitfor = {}  BY <2>1, <2>4
    <3>7. ASSUME NEW u \in Members[e], u \notin events'[e].waitfor
          PROVE  HasCome(u, e)' \/ th'[u].pos = 0
      <4>1. CASE u = t  BY <3>4, <4>1
      <4>2. CASE u # t
        <5>1. u \notin events[e].waitfor  BY <2>1, <2>4, <3>7, <4>2
        <5>2. QED  BY <1>0, <2>2, <5>1 DEF Waited, Holds
      <4>3. QED  BY <4>1, <4>2
    <3>8. ASSUME NEW u \in Threads, IsPast(u, e)'  PROVE events'[e].waitfor = {}
      BY <1>0, <2>2, <3>5, <3>8 DEF Waited, Holds
    <3>9. QED  BY <3>6, <3>7, <3>8 DEF Waited
  <2>5. QED  BY <2>3, <2>4
<1>2. ASSUME NEW f \in Events, eventExpired(f)  PROVE Waited(e)'
  <2>1. /\ events[f].timer /\ events'[f].waitfor = events[f].waitfor
        /\ \A g \in Events : g # f => events'[g] = events[g]
    BY <1>2, ExpiresTo DEF eventExpired
  <2>2. CASE f # e
    <3>1. \A u \in Threads : Holds(u, e)  BY <1>2, <2>2, ExpiryHolds
    <3>2. QED  BY <2>1, <2>2, <3>1, OthersKeepWaiting
  <2>3. CASE f = e
    <3>1. events[e].waitfor = {} /\ events'[e].waitfor = {}  BY <1>0, <2>1, <2>3 DEF Waited
    <3>2. ASSUME NEW u \in Members[e]  PROVE HasCome(u, e)' \/ th'[u].pos = 0
      <4>1. u \in Threads  BY <1>0
      <4>2. HasCome(u, e) \/ th[u].pos = 0  BY <1>0, <3>1 DEF Waited
      <4>3. th'[u].pos = th[u].pos
        <5>1. CASE \E i \in DOMAIN events[f].cbs : events[f].cbs[i] = u  BY <1>2, <5>1, ExpiresTo
        <5>2. CASE \A i \in DOMAIN events[f].cbs : events[f].cbs[i] # u
          BY <1>2, <4>1, <5>2, ExpiresTo
        <5>3. QED  BY <5>1, <5>2
      <4>4. QED  BY <4>2, <4>3 DEF HasCome
    <3>3. QED  BY <3>1, <3>2 DEF Waited
  <2>4. QED  BY <2>2, <2>3
<1>3. ASSUME UNCHANGED events,
             \/ \E t \in Threads : \/ Steps(t) \/ Fails(t) \/ Asks(t) \/ Comes(t) \/ Pauses(t)
                                   \/ NextOne(t) \/ delayExpired(t)
             \/ Finishes \/ Answered \/ Idles
      PROVE  Waited(e)'
  BY <1>3, MovesHold, OthersKeepWaiting
<1>4. ASSUME NEW t \in Threads,
             Steps(t) \/ Fails(t) \/ Asks(t) \/ Pauses(t) \/ NextOne(t) \/ delayExpired(t)
      PROVE  Waited(e)'
  <2>1. UNCHANGED events
    BY <1>4 DEF Steps, Fails, Asks, Pauses, NextOne, delayExpired
  <2>2. QED  BY <1>3, <1>4, <2>1
<1>5. ASSUME Finishes \/ Answered \/ Idles  PROVE Waited(e)'
  <2>1. UNCHANGED events  BY <1>5 DEF Finishes, Answered, Idles
  <2>2. QED  BY <1>3, <1>5, <2>1
<1>6. QED  BY <1>1, <1>2, <1>4, <1>5 DEF Moves

-----------------------------------------------------------------------------
(* The theorems                                                             *)

(***************************************************************************)
(* A thread waits for one thing at a time: it has one request at one agent *)
(* at most, or a place in one event, or a delay, made by the statement it  *)
(* is at; a thread that is to run waits for nothing and runs once.  So an  *)
(* answer completes the statement that asked, whatever comes in between    *)
(* (TgStmtCb::complete, TgExecThread::next).                               *)
(***************************************************************************)
THEOREM ThreadsWaitOnce == VelSpec => []ThreadInv
<1>1. VelInit => ThreadInv  BY ThreadInitially
<1>2. ThreadInv /\ [VelNext]_velVars => ThreadInv'
  BY NextMoves, MovesKeep DEF ThreadInv
<1>3. QED  BY <1>1, <1>2, PTL DEF VelSpec

(***************************************************************************)
(* Nobody passes a sync or wait statement before every member of the event *)
(* has come to it or aborted, in every scenario and in every order of the  *)
(* answers and timers (TgSyncEvent::syncEvent, waitEvent, timerExpired).   *)
(***************************************************************************)
THEOREM SyncTogetherHolds == VelSpec => []SyncTogether
<1>1. VelInit => ThreadInv /\ EventsWait  BY ThreadInitially, EventsInitially
<1>2. ThreadInv /\ EventsWait /\ [VelNext]_velVars => (ThreadInv /\ EventsWait)'
  <2>1. ASSUME ThreadInv, EventsWait, [VelNext]_velVars  PROVE ThreadInv' /\ EventsWait'
    BY <2>1, NextMoves, MovesKeep, EventsKeep DEF ThreadInv
  <2>2. QED  BY <2>1
<1>3. ThreadInv /\ EventsWait => SyncTogether
  BY DEF EventsWait, SyncTogether
<1>4. QED  BY <1>1, <1>2, <1>3, PTL DEF VelSpec
=============================================================================
