----------------------------- MODULE VelTraffic -----------------------------
(***************************************************************************)
(* The traffic of one connection of vel: a thread of the manager (velm)    *)
(* goes through its oneway and turnaround statements (lib/Tg/TgStatement), *)
(* asking the agents (vela) at the two ends, whose sockets send, receive,  *)
(* count and report (lib/Tg/TcSocket, TcTCPSocket, TcUDPSocket).           *)
(*                                                                         *)
(* All packets of a statement are alike, so that the network is a number   *)
(* of packets for each direction.  TCP keeps them; UDP may lose them or    *)
(* deliver them when the statement they belong to is over.  Lengths are at *)
(* least 1, as doc/MANUAL.vel has it, and the two ends use the same one,   *)
(* so that numbers of packets stand for numbers of bytes.                  *)
(***************************************************************************)
EXTENDS Integers, Sequences, FiniteSets

CONSTANTS Statements,   \* the sequences of statements the thread may be given
          MaxLost,      \* bound on lost datagrams
          MaxRetries,   \* bound on sendto() failing with EINTR or ENOBUFS
          MaxFatal      \* bound on sendto() failing otherwise

ASSUME TrafficAssumption ==
  /\ \A s \in Statements :
       s \in Seq([kind : {"oneway", "turnaround"}, count : Nat])
  /\ MaxLost \in Nat /\ MaxRetries \in Nat /\ MaxFatal \in Nat

Sides == {"client", "server"}
Peer(side) == IF side = "client" THEN "server" ELSE "client"

VARIABLES proto,    \* "TCP" or "UDP"
          stmts,    \* the statements of the thread
          pos,      \* the statement it is at; 0 after an error
          step,     \* step_ of that statement
          waiting,  \* the statement is locked until a confirm comes
          ask,      \* requests on their way to the agents
          reply,    \* confirms on their way to the manager
          sk,       \* the TcSocket of each side
          net,      \* packets on their way to each side
          lost, retries, fatal      \* how often each of these happened

trafficVars == <<proto, stmts, pos, step, waiting, ask, reply, sk, net, lost,
                 retries, fatal>>

TcSocket == [req |-> "none", sendcnt |-> 0, recvcnt |-> 0, sentcnt |-> 0,
             recvdcnt |-> 0, regard |-> 0, effect |-> FALSE, timer |-> FALSE]

TrafficInit ==
  /\ proto \in {"TCP", "UDP"} /\ stmts \in Statements
  /\ pos = 1 /\ step = 0 /\ waiting = FALSE
  /\ ask = <<>> /\ reply = <<>>
  /\ sk = [s \in Sides |-> TcSocket] /\ net = [s \in Sides |-> 0]
  /\ lost = 0 /\ retries = 0 /\ fatal = 0

-----------------------------------------------------------------------------
(* A socket at work: its fields, the packets it sends, how sending failed  *)
(* and its reports                                                         *)

Work(k) == [k |-> k, out |-> 0, err |-> "none", rep |-> <<>>]

report(w, req, res) ==
  [w EXCEPT !.rep = Append(@, [req |-> req, res |-> res]),
            !.k.effect = IF req = "recveffect" THEN FALSE ELSE @]

\* postSend of TcTCPSocket and TcUDPSocket
postSend(w) ==
  CASE w.k.req = "snd" /\ w.k.sentcnt < w.k.sendcnt -> [w EXCEPT !.k.timer = TRUE]
    [] w.k.req = "snd" /\ w.k.sentcnt >= w.k.sendcnt -> report(w, "snd", "ok")
    [] w.k.req = "sndrecv" /\ proto = "UDP" -> [w EXCEPT !.k.timer = TRUE]
    [] OTHER -> w

\* A packet of the request is left to send
Sends(k) == k.sendcnt > k.sentcnt

\* sendPacket, with the outcome of sendtoPeer: "sent", "retry" (the error is
\* one to retry after) or "fatal"
sendPacket(w, outcome) ==
  LET i == [w EXCEPT !.k.timer = FALSE]
  IN IF i.k.sendcnt = 0 THEN postSend(i)
     ELSE IF ~Sends(i.k) THEN i
     ELSE CASE outcome = "sent" -> postSend([i EXCEPT !.k.sentcnt = @ + 1, !.out = @ + 1])
            [] outcome = "retry" -> postSend([i EXCEPT !.err = outcome])
            [] outcome = "fatal" -> report([i EXCEPT !.err = outcome], i.k.req, "error")

\* The packets a turnaround need not wait for any more: over UDP those that
\* timed out too
Answered(k) == IF proto = "UDP" THEN k.recvdcnt + k.regard ELSE k.recvdcnt

\* A mutant: the effect request that waits for the data is forgotten
postReceiveForgets(w, outcome) ==
  LET r == IF Answered(w.k) = w.k.recvcnt /\ w.k.req = "sndrecv"
             THEN report(w, "sndrecv", "ok") ELSE w
      sends == CASE w.k.req = "sndrecv" -> w.k.sentcnt <= Answered(w.k)
                 [] OTHER -> w.k.req \in {"snd", "recvsnd"}
  IN IF Sends(w.k) /\ sends THEN sendPacket(r, outcome) ELSE r

\* A mutant: more answers than packets are a reason to report, too
postReceiveEager(w, outcome) ==
  LET all == Answered(w.k) >= w.k.recvcnt
      r == CASE all /\ w.k.req = "sndrecv" -> report(w, "sndrecv", "ok")
             [] all /\ w.k.req = "recv" /\ proto = "TCP" /\ w.k.effect ->
                  report(w, "recveffect", "ok")
             [] OTHER -> w
  IN IF w.k.req \in {"snd", "sndrecv", "recvsnd"} /\ Sends(w.k)
       THEN sendPacket(r, outcome) ELSE r

\* postReceive of TcTCPSocket and TcUDPSocket
postReceive(w, outcome) ==
  LET all == Answered(w.k) = w.k.recvcnt
      r == CASE all /\ w.k.req = "sndrecv" -> report(w, "sndrecv", "ok")
             [] all /\ w.k.req = "recv" /\ proto = "TCP" /\ w.k.effect ->
                  report(w, "recveffect", "ok")
             [] OTHER -> w
      sends == CASE w.k.req = "sndrecv" -> w.k.sentcnt <= Answered(w.k)
                 [] OTHER -> w.k.req \in {"snd", "recvsnd"}
  IN IF Sends(w.k) /\ sends THEN sendPacket(r, outcome) ELSE r

\* What sendtoPeer may do, and what the bounds allow it
Outcomes ==
  {"sent"} \cup (IF proto = "UDP" /\ retries < MaxRetries THEN {"retry"} ELSE {})
           \cup (IF proto = "UDP" /\ fatal < MaxFatal THEN {"fatal"} ELSE {})

\* The socket did w: its packets and its reports are on their way
Does(side, w, taken) ==
  /\ sk' = [sk EXCEPT ![side] = w.k]
  /\ net' = [net EXCEPT ![side] = @ - taken, ![Peer(side)] = @ + w.out]
  /\ reply' = reply \o [i \in DOMAIN w.rep |->
                          [from |-> side, req |-> w.rep[i].req, res |-> w.rep[i].res]]
  /\ retries' = IF w.err = "retry" THEN retries + 1 ELSE retries
  /\ fatal' = IF w.err = "fatal" THEN fatal + 1 ELSE fatal

-----------------------------------------------------------------------------
(* The agents: a request of the manager (TgServer), a packet, a timer       *)

recvIndication(k, c) ==
  [k EXCEPT !.effect = FALSE, !.sentcnt = 0, !.recvdcnt = 0, !.recvcnt = c]

sndIndication(k, c) ==
  [k EXCEPT !.sentcnt = 0, !.recvdcnt = 0, !.regard = 0, !.sendcnt = c]

\* A mutant: TCP reports what came so far, too
effectActionEarly(k) == report(Work([k EXCEPT !.effect = TRUE]), "recveffect", "ok")

\* recvEffectIndication: TCP reports when all the data came, UDP what came so far
effectAction(k) ==
  LET w == Work([k EXCEPT !.effect = TRUE])
  IN IF proto = "UDP" \/ k.recvcnt = k.recvdcnt THEN report(w, "recveffect", "ok") ELSE w

Request(k, a, outcome) ==
  CASE a.req = "snd" ->
         sendPacket(Work(sndIndication([k EXCEPT !.req = "snd"], a.count)), outcome)
    [] a.req = "recv" ->
         report(Work(recvIndication([k EXCEPT !.req = "recv"], a.count)), "recv", "ok")
    [] a.req = "recveffect" -> effectAction(k)
    [] a.req = "sndrecv" ->
         sendPacket(Work(sndIndication(recvIndication([k EXCEPT !.req = "sndrecv"], a.count),
                                       a.count)), outcome)
    [] a.req = "recvsnd" ->
         report(Work(recvIndication([k EXCEPT !.req = "recvsnd", !.sendcnt = a.count],
                                    a.count)), "recvsnd", "ok")

AgentRequest ==
  /\ ask # <<>>
  /\ ask' = Tail(ask)
  /\ \E o \in Outcomes :
       Does(Head(ask).to, Request(sk[Head(ask).to], Head(ask), o), 0)
  /\ UNCHANGED <<proto, stmts, pos, step, waiting, lost>>

\* A mutant: the timer of the packet that is answered goes on
receivePacketTimer(side) ==
  /\ net[side] > 0
  /\ \E o \in Outcomes :
       IF sk[side].recvcnt = 0
         THEN Does(side, postReceive(Work(sk[side]), o), 0)
         ELSE Does(side, postReceive(Work([sk[side] EXCEPT !.recvdcnt = @ + 1]), o), 1)
  /\ UNCHANGED <<proto, stmts, pos, step, waiting, ask, lost>>

\* receivePacket: a socket that was never asked to receive leaves the data
receivePacket(side) ==
  /\ net[side] > 0
  /\ LET k == [sk[side] EXCEPT !.timer = FALSE]
     IN \E o \in Outcomes :
          IF k.recvcnt = 0
            THEN Does(side, postReceive(Work(k), o), 0)
            ELSE Does(side, postReceive(Work([k EXCEPT !.recvdcnt = @ + 1]), o), 1)
  /\ UNCHANGED <<proto, stmts, pos, step, waiting, ask, lost>>

timeup(side) ==
  /\ sk[side].timer
  /\ LET k == [sk[side] EXCEPT !.timer = FALSE, !.regard = @ + 1]
     IN \E o \in Outcomes : Does(side, postReceive(Work(k), o), 0)
  /\ UNCHANGED <<proto, stmts, pos, step, waiting, ask, lost>>

\* UDP loses a datagram
Lose(side) ==
  /\ proto = "UDP" /\ net[side] > 0 /\ lost < MaxLost
  /\ net' = [net EXCEPT ![side] = @ - 1]
  /\ lost' = lost + 1
  /\ UNCHANGED <<proto, stmts, pos, step, waiting, ask, reply, sk, retries, fatal>>

-----------------------------------------------------------------------------
(* The thread: TgStmtOneWay::doStep and TgStmtTurnaround::doStep, and the   *)
(* confirms that let it go on (TgAgntCtrl)                                  *)

Op(to, req, count) == [to |-> to, req |-> req, count |-> count]

Ops(s) ==
  IF s.kind = "oneway"
    THEN <<Op("server", "recv", s.count), Op("client", "snd", s.count),
           Op("server", "recveffect", 0)>>
    ELSE <<Op("server", "recvsnd", s.count), Op("client", "sndrecv", s.count),
           Op("server", "recveffect", 0)>>

Running == pos \in DOMAIN stmts
Awaited == Ops(stmts[pos])[step + 1]

doStep ==
  /\ Running /\ ~waiting /\ step < 3
  /\ ask' = Append(ask, Awaited)
  /\ waiting' = TRUE
  /\ UNCHANGED <<proto, stmts, pos, step, reply, sk, net, lost, retries, fatal>>

StatementEnds ==
  /\ Running /\ ~waiting /\ step = 3
  /\ pos' = pos + 1 /\ step' = 0
  /\ UNCHANGED <<proto, stmts, waiting, ask, reply, sk, net, lost, retries, fatal>>

Matches(r) == Running /\ waiting /\ r.from = Awaited.to /\ r.req = Awaited.req

recvConfirm ==
  /\ reply # <<>>
  /\ reply' = Tail(reply)
  /\ LET r == Head(reply)
     IN /\ waiting' = (waiting /\ ~Matches(r))
        /\ step' = IF Matches(r) /\ r.res = "ok" THEN step + 1 ELSE step
        /\ pos' = IF Matches(r) /\ r.res = "error" THEN 0 ELSE pos
  /\ UNCHANGED <<proto, stmts, ask, sk, net, lost, retries, fatal>>

-----------------------------------------------------------------------------
AgentNext == AgentRequest \/ \E s \in Sides : receivePacket(s) \/ timeup(s)

ThreadNext == doStep \/ StatementEnds \/ recvConfirm

TrafficNext == AgentNext \/ ThreadNext \/ \E s \in Sides : Lose(s)

\* Every agent serves its requests, its readable sockets and its timers in
\* each turn of CmDispatch::dispatch(), and so does the manager
TrafficSpec ==
  /\ TrafficInit /\ [][TrafficNext]_trafficVars
  /\ WF_trafficVars(ThreadNext) /\ WF_trafficVars(AgentRequest)
  /\ \A s \in Sides : WF_trafficVars(receivePacket(s)) /\ WF_trafficVars(timeup(s))

-----------------------------------------------------------------------------
Confirms == {reply[i] : i \in DOMAIN reply}

\* The kinds of the state; a socket never sends more packets than it was asked to
\* (TcSocket::sendPacket).
TrafficTypeOK ==
  /\ pos \in 0 .. Len(stmts) + 1 /\ step \in 0 .. 3 /\ waiting \in BOOLEAN
  /\ \A s \in Sides : /\ net[s] \in Nat
                      /\ sk[s].sentcnt \in 0 .. sk[s].sendcnt
                      /\ sk[s].timer \in BOOLEAN /\ sk[s].effect \in BOOLEAN
  /\ \A r \in Confirms : r.from \in Sides /\ r.res \in {"ok", "error"}

(* A request is confirmed once, and the confirm that comes is the one the   *)
(* statement waits for: whether RECVEFFECT comes before, between or after   *)
(* the data, and whether answers come before or after their timeout.  Else  *)
(* the manager would take the confirm of one statement for that of the next.*)
(* After a send that failed for good a late answer makes the socket go on   *)
(* and confirm once more; the thread has been aborted by then.              *)
ConfirmsAreAwaited ==
  fatal = 0 => \A i \in DOMAIN reply :
    Matches(reply[i]) /\ ask = <<>> /\ Len(reply) = 1

(* When a TCP statement is over the whole traffic took place: the server    *)
(* counted what the client sent, for a turnaround also the other way round, *)
(* and nothing is left in the connection that the next one would count.     *)
TcpTrafficComplete ==
  (proto = "TCP" /\ Running /\ step = 3) =>
    LET c == stmts[pos].count
    IN /\ net["client"] = 0 /\ net["server"] = 0
       /\ sk["client"].sentcnt = c /\ sk["server"].recvdcnt = c
       /\ stmts[pos].kind = "turnaround" =>
            sk["server"].sentcnt = c /\ sk["client"].recvdcnt = c

(* A confirmed SND or SNDRECV request sent all its packets, and the socket  *)
(* is at rest: no timer of it is left that would fire into the next         *)
(* statement or after the socket was closed and deleted.  Timeouts that     *)
(* TcUDPSocket regards as answers do not end a turnaround early.  It fails  *)
(* once sendto() asked to retry: the timeout of a packet that was not sent  *)
(* is counted as an answer too.                                             *)
DoneMeansSent ==
  (retries = 0 /\ fatal = 0 /\ Running
     /\ (step > 1 \/ \E r \in Confirms : r.from = "client")) =>
    sk["client"].sentcnt >= sk["client"].sendcnt /\ ~sk["client"].timer

(* Every statement ends, over TCP and over UDP with lost and late datagrams *)
(* (postReceive, timeup), unless a send failed for good.                    *)
TrafficEnds == <>(pos = Len(stmts) + 1 \/ pos = 0)

=============================================================================
