---------------------------- MODULE TrafficProofs ----------------------------
(* Proofs about VelTraffic: the kinds of its state, that a request of the    *)
(* manager is confirmed once and in time, what a finished TCP statement has  *)
(* transferred, and that a client which has confirmed is at rest.            *)
EXTENDS VelTraffic, SequenceTheorems, TLAPS

Requests == {"snd", "recv", "sndrecv", "recvsnd"}

Sockets == [req : Requests \cup {"none"}, sendcnt : Nat, recvcnt : Nat, sentcnt : Nat,
            recvdcnt : Nat, regard : Nat, effect : BOOLEAN, timer : BOOLEAN]

Reported == Requests \cup {"recveffect"}

Results == {"ok", "error"}

Reports == [req : Reported, res : Results]

Works == [k : Sockets, out : Nat, err : {"none", "retry", "fatal"}, rep : Seq(Reports)]

AllOutcomes == {"sent", "retry", "fatal"}

\* What a socket at work keeps of its request
SameRequest(k, j) ==
  /\ k.req = j.req /\ k.sendcnt = j.sendcnt /\ k.recvcnt = j.recvcnt
  /\ k.recvdcnt = j.recvdcnt /\ k.regard = j.regard

-----------------------------------------------------------------------------
(* What the functions of a socket do *)

\* A report is added; it leaves the socket alone but for the effect request it answers.
ReportAdded(w, req, res, v) ==
  /\ v \in Works /\ SameRequest(v.k, w.k) /\ v.k.sentcnt = w.k.sentcnt
  /\ v.k.timer = w.k.timer /\ v.out = w.out /\ v.err = w.err
  /\ v.k.effect = IF req = "recveffect" THEN FALSE ELSE w.k.effect
  /\ v.rep = Append(w.rep, [req |-> req, res |-> res])

LEMMA ReportDoes ==
  ASSUME NEW w \in Works, NEW req \in Reported, NEW res \in Results
  PROVE  ReportAdded(w, req, res, report(w, req, res))
PROOF
  <1> DEFINE v == report(w, req, res)
  <1> DEFINE r == [req |-> req, res |-> res]
  <1>1. Append(w.rep, r) \in Seq(Reports)
    <2>1. r \in Reports /\ w.rep \in Seq(Reports)
      BY DEF Reports, Works
    <2> QED
      BY <2>1, AppendProperties
  <1>2. ASSUME NEW q \in Seq(Reports), NEW e \in BOOLEAN
        PROVE  [w EXCEPT !.rep = q, !.k.effect = e] \in Works
    BY DEF Works, Sockets
  <1>3. v.rep = Append(w.rep, r) /\ v.k.effect = IF req = "recveffect" THEN FALSE ELSE w.k.effect
    BY DEF report, Works, Sockets
  <1>4. v \in Works
    <2>1. v = [w EXCEPT !.rep = Append(w.rep, r),
                        !.k.effect = IF req = "recveffect" THEN FALSE ELSE w.k.effect]
      BY DEF report, Works, Sockets
    <2>2. (IF req = "recveffect" THEN FALSE ELSE w.k.effect) \in BOOLEAN
      BY DEF Works, Sockets
    <2> QED
      BY <1>1, <1>2, <2>1, <2>2
  <1> QED
    BY <1>3, <1>4 DEF report, SameRequest, ReportAdded, Works, Sockets

\* A socket that sends arms its timer or reports that all is sent.
LEMMA PostSendDoes ==
  ASSUME NEW w \in Works, NEW v, v = postSend(w)
  PROVE  /\ v \in Works /\ SameRequest(v.k, w.k) /\ v.k.sentcnt = w.k.sentcnt
         /\ v.k.effect = w.k.effect /\ v.out = w.out /\ v.err = w.err
         /\ v.k.timer => \/ w.k.timer
                         \/ w.k.req = "snd" /\ Sends(w.k)
                         \/ w.k.req = "sndrecv" /\ proto = "UDP"
         /\ v.rep = IF w.k.req = "snd" /\ ~Sends(w.k)
                      THEN Append(w.rep, [req |-> "snd", res |-> "ok"]) ELSE w.rep
PROOF
  <1>1. CASE w.k.req = "snd" /\ ~Sends(w.k)
    <2>1. v = report(w, "snd", "ok")
      BY <1>1 DEF postSend, Sends, Works, Sockets
    <2>2. "snd" \in Reported /\ "ok" \in Results
      BY DEF Requests, Reported, Results
    <2>3. ReportAdded(w, "snd", "ok", v)
      BY <2>1, <2>2, ReportDoes
    <2>4. w.k.effect \in BOOLEAN
      BY DEF Works, Sockets
    <2> QED
      BY <1>1, <2>3, <2>4 DEF ReportAdded
  <1>2. CASE \/ w.k.req = "snd" /\ Sends(w.k)
             \/ w.k.req = "sndrecv" /\ proto = "UDP"
    <2>1. v = [w EXCEPT !.k.timer = TRUE]
      BY <1>2 DEF postSend, Sends, Works, Sockets
    <2>2. v.rep = w.rep /\ v.out = w.out /\ v.err = w.err /\ SameRequest(v.k, w.k)
          /\ v.k.sentcnt = w.k.sentcnt /\ v.k.effect = w.k.effect
      BY <2>1 DEF SameRequest, Works, Sockets
    <2>3. v \in Works
      <3>1. [w.k EXCEPT !.timer = TRUE] \in Sockets
        BY DEF Works, Sockets
      <3>2. v = [w EXCEPT !.k = [w.k EXCEPT !.timer = TRUE]]
        BY <2>1
      <3> QED
        BY <3>1, <3>2 DEF Works
    <2> QED
      BY <1>2, <2>2, <2>3
  <1>3. CASE w.k.req # "snd" /\ ~(w.k.req = "sndrecv" /\ proto = "UDP")
    <2>1. v = w
      BY <1>3 DEF postSend
    <2> QED
      BY <1>3, <2>1 DEF SameRequest
  <1> QED
    BY <1>1, <1>2, <1>3

\* What sendPacket makes of a socket, if the send does not fail for good
SendsOne(w, v) ==
  /\ v.k.sentcnt = IF Sends(w.k) /\ v.err = "none" THEN w.k.sentcnt + 1 ELSE w.k.sentcnt
  /\ v.k.timer => /\ Sends(w.k) \/ w.k.sendcnt = 0
                  /\ \/ w.k.req = "snd" /\ Sends(v.k)
                     \/ w.k.req = "sndrecv" /\ proto = "UDP"
  /\ v.rep = IF w.k.req = "snd" /\ ~Sends(v.k) /\ (Sends(w.k) \/ w.k.sendcnt = 0)
               THEN Append(w.rep, [req |-> "snd", res |-> "ok"]) ELSE w.rep

PacketSent(w, o, v) ==
  /\ v \in Works /\ SameRequest(v.k, w.k) /\ v.k.effect = w.k.effect
  /\ v.k.sentcnt <= v.k.sendcnt /\ v.k.sentcnt >= w.k.sentcnt
  /\ v.out = w.out + (v.k.sentcnt - w.k.sentcnt)
  /\ v.err \in {"none", o} /\ v.err # "sent"
  /\ v.err # "fatal" => SendsOne(w, v)

LEMMA SendPacketDoes ==
  ASSUME NEW w \in Works, w.err = "none", w.k.sentcnt <= w.k.sendcnt, w.k.req # "none",
         NEW o \in AllOutcomes
  PROVE  PacketSent(w, o, sendPacket(w, o))
PROOF
  <1> DEFINE v == sendPacket(w, o)
  <1> DEFINE i == [w EXCEPT !.k.timer = FALSE]
  <1>1. /\ i \in Works /\ SameRequest(i.k, w.k) /\ i.k.effect = w.k.effect /\ ~i.k.timer
        /\ i.k.sentcnt = w.k.sentcnt /\ i.out = w.out /\ i.err = w.err /\ i.rep = w.rep
    BY DEF Works, Sockets, SameRequest
  <1>2. /\ v = IF i.k.sendcnt = 0 THEN postSend(i)
               ELSE IF ~Sends(i.k) THEN i
               ELSE CASE o = "sent" -> postSend([i EXCEPT !.k.sentcnt = @ + 1, !.out = @ + 1])
                      [] o = "retry" -> postSend([i EXCEPT !.err = o])
                      [] o = "fatal" -> report([i EXCEPT !.err = o], i.k.req, "error")
    BY DEF sendPacket
  <1> HIDE DEF i, v
  <1>3. Sends(i.k) <=> Sends(w.k)
    BY <1>1 DEF Sends, SameRequest
  <1>4. w.k.sentcnt \in Nat /\ w.k.sendcnt \in Nat /\ w.out \in Nat
    BY DEF Works, Sockets
  <1>5. ASSUME w.k.sendcnt = 0 PROVE PacketSent(w, o, v)
    <2>1. v = postSend(i) /\ ~Sends(w.k)
      BY <1>1, <1>2, <1>4, <1>5 DEF SameRequest, Sends
    <2>2. /\ v \in Works /\ SameRequest(v.k, w.k) /\ v.k.effect = w.k.effect
          /\ v.k.sentcnt = w.k.sentcnt /\ v.out = w.out /\ v.err = "none"
          /\ v.k.timer => w.k.req = "sndrecv" /\ proto = "UDP"
          /\ v.rep = IF w.k.req = "snd"
                       THEN Append(w.rep, [req |-> "snd", res |-> "ok"]) ELSE w.rep
      BY <1>1, <1>3, <2>1, PostSendDoes DEF SameRequest
    <2>3. ~Sends(v.k)
      BY <2>1, <2>2 DEF Sends, SameRequest
    <2> QED
      BY <1>4, <1>5, <2>1, <2>2, <2>3 DEF PacketSent, SendsOne, SameRequest
  <1>6. ASSUME w.k.sendcnt # 0 /\ ~Sends(w.k) PROVE PacketSent(w, o, v)
    <2>1. v = i
      BY <1>1, <1>2, <1>3, <1>6 DEF SameRequest
    <2> QED
      BY <1>1, <1>3, <1>4, <1>6, <2>1 DEF PacketSent, SendsOne, SameRequest
  <1>7. ASSUME Sends(w.k) /\ o = "sent" PROVE PacketSent(w, o, v)
    <2> DEFINE j == [i EXCEPT !.k.sentcnt = @ + 1, !.out = @ + 1]
    <2>1. v = postSend(j)
      BY <1>1, <1>2, <1>3, <1>4, <1>7 DEF SameRequest, Sends
    <2>2. /\ j \in Works /\ SameRequest(j.k, w.k) /\ j.k.effect = w.k.effect /\ ~j.k.timer
          /\ j.k.sentcnt = w.k.sentcnt + 1 /\ j.out = w.out + 1 /\ j.err = "none"
          /\ j.rep = w.rep
      <3>1. \A n, m \in Nat : [i EXCEPT !.k.sentcnt = n, !.out = m] \in Works
        BY <1>1 DEF Works, Sockets
      <3>2. j = [i EXCEPT !.k.sentcnt = w.k.sentcnt + 1, !.out = w.out + 1]
        BY <1>1 DEF Works, Sockets
      <3>3. w.k.sentcnt + 1 \in Nat /\ w.out + 1 \in Nat
        BY <1>4
      <3>4. [i EXCEPT !.k.sentcnt = w.k.sentcnt + 1, !.out = w.out + 1] \in Works
        BY <3>1, <3>3
      <3> HIDE DEF j
      <3>5. j \in Works
        BY <3>2, <3>4
      <3> QED
        BY <1>1, <3>2, <3>5 DEF Works, Sockets, SameRequest
    <2> HIDE DEF j
    <2>3. /\ v \in Works /\ SameRequest(v.k, w.k) /\ v.k.effect = w.k.effect
          /\ v.k.sentcnt = w.k.sentcnt + 1 /\ v.out = w.out + 1 /\ v.err = "none"
          /\ v.k.timer => \/ w.k.req = "snd" /\ Sends(j.k)
                          \/ w.k.req = "sndrecv" /\ proto = "UDP"
          /\ v.rep = IF w.k.req = "snd" /\ ~Sends(j.k)
                       THEN Append(w.rep, [req |-> "snd", res |-> "ok"]) ELSE w.rep
      BY <2>1, <2>2, PostSendDoes DEF SameRequest
    <2>4. Sends(v.k) <=> Sends(j.k)
      BY <2>2, <2>3 DEF Sends, SameRequest
    <2>5. v.k.sentcnt <= v.k.sendcnt
      BY <1>4, <1>7, <2>3 DEF Sends, SameRequest
    <2> QED
      BY <1>4, <1>7, <2>3, <2>4, <2>5 DEF PacketSent, SendsOne
  <1>8. ASSUME Sends(w.k) /\ o = "retry" PROVE PacketSent(w, o, v)
    <2> DEFINE j == [i EXCEPT !.err = o]
    <2>1. v = postSend(j)
      BY <1>1, <1>2, <1>3, <1>4, <1>8 DEF SameRequest, Sends
    <2>2. /\ j \in Works /\ SameRequest(j.k, w.k) /\ j.k.effect = w.k.effect /\ ~j.k.timer
          /\ j.k.sentcnt = w.k.sentcnt /\ j.out = w.out /\ j.err = "retry"
          /\ j.rep = w.rep
      BY <1>1, <1>8 DEF Works, Sockets, SameRequest
    <2> HIDE DEF j
    <2>3. /\ v \in Works /\ SameRequest(v.k, w.k) /\ v.k.effect = w.k.effect
          /\ v.k.sentcnt = w.k.sentcnt /\ v.out = w.out /\ v.err = "retry"
          /\ v.k.timer => \/ w.k.req = "snd" /\ Sends(j.k)
                          \/ w.k.req = "sndrecv" /\ proto = "UDP"
          /\ v.rep = IF w.k.req = "snd" /\ ~Sends(j.k)
                       THEN Append(w.rep, [req |-> "snd", res |-> "ok"]) ELSE w.rep
      BY <2>1, <2>2, PostSendDoes DEF SameRequest
    <2>4. Sends(v.k) /\ Sends(j.k)
      BY <1>8, <2>2, <2>3 DEF Sends, SameRequest
    <2> QED
      BY <1>4, <1>8, <2>3, <2>4 DEF PacketSent, SendsOne, SameRequest
  <1>9. ASSUME Sends(w.k) /\ o = "fatal" PROVE PacketSent(w, o, v)
    <2> DEFINE j == [i EXCEPT !.err = o]
    <2>1. v = report(j, i.k.req, "error")
      BY <1>1, <1>2, <1>3, <1>4, <1>9 DEF SameRequest, Sends
    <2>2. /\ j \in Works /\ SameRequest(j.k, w.k) /\ j.k.effect = w.k.effect
          /\ j.k.sentcnt = w.k.sentcnt /\ j.out = w.out /\ j.err = "fatal"
      BY <1>1, <1>9 DEF Works, Sockets, SameRequest
    <2> HIDE DEF j
    <2>3. PICK req \in Requests : req = i.k.req
      BY <1>1 DEF Works, Sockets, SameRequest
    <2>6. /\ req \in Reported /\ "error" \in Results
          /\ v = report(j, req, "error") /\ j \in Works
      BY <2>1, <2>2, <2>3 DEF Reported, Results
    <2>4. ReportAdded(j, req, "error", v)
      BY <2>6, ReportDoes
    <2>5. req # "recveffect" /\ w.k.effect \in BOOLEAN
      BY <2>3 DEF Requests, Works, Sockets
    <2> QED
      BY <1>4, <1>9, <2>2, <2>4, <2>5 DEF PacketSent, SameRequest, ReportAdded
  <1>10. PacketSent(w, o, v)
    BY <1>5, <1>6, <1>7, <1>8, <1>9 DEF AllOutcomes
  <1> QED
    BY <1>10 DEF v

\* What postReceive makes of a socket, if the send does not fail for good
SendsNext(k) ==
  /\ Sends(k)
  /\ k.req = "sndrecv" => k.sentcnt <= Answered(k)
  /\ k.req \in {"snd", "sndrecv", "recvsnd"}

AllAnswered(k) == Answered(k) = k.recvcnt

ReceiveReports(k, j) ==
  CASE k.req = "sndrecv" /\ AllAnswered(k) -> <<[req |-> "sndrecv", res |-> "ok"]>>
    [] k.req = "recv" /\ AllAnswered(k) /\ proto = "TCP" /\ k.effect ->
         <<[req |-> "recveffect", res |-> "ok"]>>
    [] k.req = "snd" /\ Sends(k) /\ ~Sends(j) -> <<[req |-> "snd", res |-> "ok"]>>
    [] OTHER -> <<>>

PacketCounted(k, o, v) ==
  /\ v \in Works /\ SameRequest(v.k, k)
  /\ v.k.sentcnt <= v.k.sendcnt /\ v.k.sentcnt >= k.sentcnt
  /\ v.out = v.k.sentcnt - k.sentcnt
  /\ v.err \in {"none", o} /\ v.err # "sent"
  /\ v.k.effect => k.effect
  /\ v.err # "fatal" =>
       /\ v.k.sentcnt = IF SendsNext(k) /\ v.err = "none" THEN k.sentcnt + 1 ELSE k.sentcnt
       /\ v.k.timer => /\ SendsNext(k)
                       /\ \/ k.req = "snd" /\ Sends(v.k)
                          \/ k.req = "sndrecv" /\ proto = "UDP"
       /\ v.k.effect = IF k.req = "recv" /\ AllAnswered(k) /\ proto = "TCP" THEN FALSE
                       ELSE k.effect
       /\ v.rep = ReceiveReports(k, v.k)

LEMMA PostReceiveDoes ==
  ASSUME NEW k \in Sockets, ~k.timer, k.sentcnt <= k.sendcnt, NEW o \in AllOutcomes
  PROVE  PacketCounted(k, o, postReceive(Work(k), o))
PROOF
  <1> DEFINE v == postReceive(Work(k), o)
  <1> DEFINE all == Answered(k) = k.recvcnt
  <1> DEFINE r == CASE all /\ k.req = "sndrecv" -> report(Work(k), "sndrecv", "ok")
                    [] all /\ k.req = "recv" /\ proto = "TCP" /\ k.effect ->
                         report(Work(k), "recveffect", "ok")
                    [] OTHER -> Work(k)
  <1>1. /\ Work(k) \in Works /\ Work(k).k = k /\ Work(k).out = 0 /\ Work(k).err = "none"
        /\ Work(k).rep = <<>>
    <2>1. <<>> \in Seq(Reports)
      BY EmptySeq
    <2> QED
      BY <2>1 DEF Work, Works
  <1>2. v = IF SendsNext(k) THEN sendPacket(r, o) ELSE r
    BY <1>1 DEF postReceive, SendsNext
  <1>3. /\ r \in Works /\ SameRequest(r.k, k) /\ r.k.sentcnt = k.sentcnt /\ ~r.k.timer
        /\ r.out = 0 /\ r.err = "none"
        /\ r.k.effect = IF k.req = "recv" /\ all /\ proto = "TCP" THEN FALSE ELSE k.effect
        /\ r.rep = CASE all /\ k.req = "sndrecv" -> <<[req |-> "sndrecv", res |-> "ok"]>>
                     [] all /\ k.req = "recv" /\ proto = "TCP" /\ k.effect ->
                          <<[req |-> "recveffect", res |-> "ok"]>>
                     [] OTHER -> <<>>
    <2>1. "sndrecv" \in Reported /\ "recveffect" \in Reported /\ "ok" \in Results
      BY DEF Requests, Reported, Results
    <2>2. CASE all /\ k.req = "sndrecv"
      <3>1. r = report(Work(k), "sndrecv", "ok")
        BY <2>2
      <3>2. ReportAdded(Work(k), "sndrecv", "ok", r)
        BY <1>1, <2>1, <3>1, ReportDoes
      <3>3. Append(<<>>, [req |-> "sndrecv", res |-> "ok"])
              = <<[req |-> "sndrecv", res |-> "ok"]>>
        OBVIOUS
      <3> HIDE DEF r
      <3> QED
        BY <1>1, <2>2, <3>2, <3>3 DEF ReportAdded
    <2>3. CASE all /\ k.req = "recv" /\ proto = "TCP" /\ k.effect
      <3>1. r = report(Work(k), "recveffect", "ok")
        BY <2>3
      <3>2. ReportAdded(Work(k), "recveffect", "ok", r)
        BY <1>1, <2>1, <3>1, ReportDoes
      <3>3. Append(<<>>, [req |-> "recveffect", res |-> "ok"])
              = <<[req |-> "recveffect", res |-> "ok"]>>
        OBVIOUS
      <3> HIDE DEF r
      <3> QED
        BY <1>1, <2>3, <3>2, <3>3 DEF ReportAdded
    <2>4. CASE /\ ~(all /\ k.req = "sndrecv")
               /\ ~(all /\ k.req = "recv" /\ proto = "TCP" /\ k.effect)
      <3>1. r = Work(k)
        BY <2>4
      <3>2. k.effect \in BOOLEAN
        BY DEF Sockets
      <3> HIDE DEF r
      <3> QED
        BY <1>1, <2>4, <3>1, <3>2 DEF SameRequest
    <2> QED
      BY <2>2, <2>3, <2>4
  <1> HIDE DEF r, v
  <1>4. Sends(r.k) <=> Sends(k)
    BY <1>3 DEF Sends, SameRequest
  <1>5. k.sentcnt \in Nat /\ k.sendcnt \in Nat /\ k.effect \in BOOLEAN
    BY DEF Sockets
  <1>6. ASSUME ~SendsNext(k) PROVE PacketCounted(k, o, v)
    <2>1. v = r
      BY <1>2, <1>6
    <2>2. k.req = "snd" => ~Sends(k)
      BY <1>6 DEF SendsNext
    <2>3. v.rep = ReceiveReports(k, v.k)
      BY <1>3, <2>1, <2>2 DEF ReceiveReports, AllAnswered
    <2>4. /\ v.k.effect => k.effect
          /\ v.k.effect = IF k.req = "recv" /\ AllAnswered(k) /\ proto = "TCP" THEN FALSE
                         ELSE k.effect
      BY <1>3, <1>5, <2>1 DEF AllAnswered
    <2>5. /\ v.k.sentcnt = k.sentcnt /\ v.k.sentcnt <= v.k.sendcnt /\ ~v.k.timer
          /\ v.err = "none" /\ v.out = v.k.sentcnt - k.sentcnt /\ v.k.sentcnt >= k.sentcnt
          /\ v \in Works /\ SameRequest(v.k, k)
      BY <1>3, <1>5, <2>1 DEF SameRequest
    <2> QED
      BY <1>6, <2>3, <2>4, <2>5 DEF PacketCounted
  <1>7. ASSUME SendsNext(k) PROVE PacketCounted(k, o, v)
    <2>1. v = sendPacket(r, o) /\ Sends(k) /\ k.req # "recv" /\ k.req # "none" /\ k.sendcnt # 0
      BY <1>2, <1>5, <1>7 DEF SendsNext, Sends
    <2>2. PacketSent(r, o, v)
      BY <1>3, <2>1, SendPacketDoes DEF SameRequest
    <2>3. v.k.effect = k.effect
      BY <1>3, <2>1, <2>2 DEF PacketSent
    <2>4. v.err # "fatal" => v.rep = ReceiveReports(k, v.k)
      <3>1. Append(<<>>, [req |-> "snd", res |-> "ok"]) = <<[req |-> "snd", res |-> "ok"]>>
        OBVIOUS
      <3>2. k.req # "sndrecv" => r.rep = <<>>
        BY <1>3, <2>1
      <3>3. v.err # "fatal" => v.rep = IF k.req = "snd" /\ ~Sends(v.k)
                                 THEN Append(r.rep, [req |-> "snd", res |-> "ok"]) ELSE r.rep
        BY <1>3, <1>4, <2>1, <2>2 DEF PacketSent, SendsOne, SameRequest
      <3> QED
        BY <1>3, <2>1, <3>1, <3>2, <3>3 DEF ReceiveReports, AllAnswered
    <2>5. /\ v \in Works /\ SameRequest(v.k, k)
          /\ v.k.sentcnt <= v.k.sendcnt /\ v.k.sentcnt >= k.sentcnt
          /\ v.out = v.k.sentcnt - k.sentcnt
          /\ v.err \in {"none", o} /\ v.err # "sent"
      <3>1. v.k.sentcnt \in Nat
        BY <2>2 DEF PacketSent, Works, Sockets
      <3> QED
        BY <1>3, <1>5, <2>2, <3>1 DEF PacketSent, SameRequest
    <2>6. v.err # "fatal" =>
            /\ v.k.sentcnt = IF v.err = "none" THEN k.sentcnt + 1 ELSE k.sentcnt
            /\ v.k.timer => \/ k.req = "snd" /\ Sends(v.k)
                            \/ k.req = "sndrecv" /\ proto = "UDP"
      BY <1>3, <1>4, <2>1, <2>2 DEF PacketSent, SendsOne, SameRequest
    <2>7. k.req # "recv" /\ (v.k.effect => k.effect)
      BY <2>1, <2>3
    <2> QED
      BY <1>7, <2>3, <2>4, <2>5, <2>6, <2>7 DEF PacketCounted
  <1>8. PacketCounted(k, o, v)
    BY <1>6, <1>7
  <1> QED
    BY <1>8 DEF v

Asks == [to : Sides, req : Reported, count : Nat]

\* What a request makes of a socket
RequestMade(k, a, o, v) ==
  /\ v \in Works /\ v.k.sentcnt <= v.k.sendcnt /\ v.err \in {"none", o} /\ v.err # "sent"
  /\ a.req \in {"snd", "sndrecv"} =>
       /\ v.k.req = a.req /\ v.k.sendcnt = a.count /\ v.k.recvdcnt = 0 /\ v.k.regard = 0
       /\ v.k.recvcnt = IF a.req = "snd" THEN k.recvcnt ELSE a.count
       /\ v.out = v.k.sentcnt
       /\ v.err # "fatal" =>
            /\ v.k.sentcnt = IF a.count > 0 /\ v.err = "none" THEN 1 ELSE 0
            /\ v.k.timer => \/ a.req = "snd" /\ Sends(v.k)
                            \/ a.req = "sndrecv" /\ proto = "UDP"
            /\ v.rep = IF a.req = "snd" /\ ~Sends(v.k)
                         THEN <<[req |-> "snd", res |-> "ok"]>> ELSE <<>>
  /\ a.req \in {"recv", "recvsnd"} =>
       /\ v.k.req = a.req /\ v.k.recvcnt = a.count /\ v.k.recvdcnt = 0 /\ v.k.sentcnt = 0
       /\ v.k.sendcnt = IF a.req = "recv" THEN k.sendcnt ELSE a.count
       /\ ~v.k.effect /\ v.k.timer = k.timer /\ v.out = 0 /\ v.err = "none"
       /\ v.rep = <<[req |-> a.req, res |-> "ok"]>>
  /\ a.req = "recveffect" =>
       /\ SameRequest(v.k, k) /\ v.k.sentcnt = k.sentcnt /\ v.k.timer = k.timer
       /\ v.out = 0 /\ v.err = "none"
       /\ v.k.effect <=> ~(proto = "UDP" \/ k.recvcnt = k.recvdcnt)
       /\ v.rep = IF proto = "UDP" \/ k.recvcnt = k.recvdcnt
                    THEN <<[req |-> "recveffect", res |-> "ok"]>> ELSE <<>>

LEMMA WorkType ==
  ASSUME NEW k \in Sockets
  PROVE  /\ Work(k) \in Works /\ Work(k).k = k /\ Work(k).out = 0 /\ Work(k).err = "none"
         /\ Work(k).rep = <<>>
PROOF
  <1>1. <<>> \in Seq(Reports)
    BY EmptySeq
  <1> QED
    BY <1>1 DEF Work, Works

\* A report is the only one of a socket that begins to work.
FirstReported(k, req, v) ==
  /\ v \in Works /\ SameRequest(v.k, k) /\ v.k.sentcnt = k.sentcnt
  /\ v.k.timer = k.timer /\ v.out = 0 /\ v.err = "none"
  /\ v.k.effect = IF req = "recveffect" THEN FALSE ELSE k.effect
  /\ v.rep = <<[req |-> req, res |-> "ok"]>>

LEMMA FirstReport ==
  ASSUME NEW k \in Sockets, NEW req \in Reported
  PROVE  FirstReported(k, req, report(Work(k), req, "ok"))
PROOF
  <1>1. Append(<<>>, [req |-> req, res |-> "ok"]) = <<[req |-> req, res |-> "ok"]>>
    OBVIOUS
  <1>2. "ok" \in Results
    BY DEF Results
  <1>3. ReportAdded(Work(k), req, "ok", report(Work(k), req, "ok"))
    BY <1>2, WorkType, ReportDoes
  <1> QED
    BY <1>1, <1>3, WorkType DEF ReportAdded, FirstReported

LEMMA RequestDoes ==
  ASSUME NEW k \in Sockets, k.sentcnt <= k.sendcnt, NEW a \in Asks, NEW o \in AllOutcomes
  PROVE  RequestMade(k, a, o, Request(k, a, o))
PROOF
  <1> DEFINE v == Request(k, a, o)
  <1>0. a.req \in Reported /\ a.count \in Nat
    BY DEF Asks
  <1>1. ASSUME a.req \in {"snd", "sndrecv"}
        PROVE  RequestMade(k, a, o, v)
    <2> DEFINE j == IF a.req = "snd" THEN sndIndication([k EXCEPT !.req = "snd"], a.count)
                    ELSE sndIndication(recvIndication([k EXCEPT !.req = "sndrecv"], a.count),
                                       a.count)
    <2>1. v = sendPacket(Work(j), o)
      BY <1>1 DEF Request
    <2>2. /\ j \in Sockets /\ j.req = a.req /\ j.sendcnt = a.count /\ j.recvdcnt = 0
          /\ j.regard = 0 /\ j.sentcnt = 0
          /\ j.recvcnt = IF a.req = "snd" THEN k.recvcnt ELSE a.count
      BY <1>0, <1>1 DEF sndIndication, recvIndication, Sockets, Requests
    <2> HIDE DEF j, v
    <2>3. PacketSent(Work(j), o, v)
      BY <1>0, <1>1, <2>1, <2>2, WorkType, SendPacketDoes
    <2>4. Append(<<>>, [req |-> "snd", res |-> "ok"]) = <<[req |-> "snd", res |-> "ok"]>>
      OBVIOUS
    <2>5. /\ SameRequest(v.k, j) /\ v \in Works /\ v.k.sentcnt <= v.k.sendcnt
          /\ v.k.sentcnt \in Nat /\ v.out = v.k.sentcnt
          /\ v.err \in {"none", o} /\ v.err # "sent"
      <3>1. v.k.sentcnt \in Nat
        BY <2>3 DEF PacketSent, Works, Sockets
      <3> QED
        BY <2>2, <2>3, <3>1, WorkType DEF PacketSent
    <2>6. v.err # "fatal" => SendsOne(Work(j), v)
      BY <2>3 DEF PacketSent
    <2>7. (Sends(j) <=> a.count > 0) /\ (Sends(j) \/ j.sendcnt = 0)
      BY <1>0, <2>2 DEF Sends
    <2>9. /\ Work(j).k = j /\ Work(j).rep = <<>>
      BY <2>2, WorkType
    <2>10. v.err # "fatal" =>
            v.rep = IF a.req = "snd" /\ ~Sends(v.k)
                      THEN <<[req |-> "snd", res |-> "ok"]>> ELSE <<>>
      BY <2>2, <2>4, <2>6, <2>7, <2>9 DEF SendsOne
    <2>8. v.err # "fatal" =>
            /\ v.k.sentcnt = IF a.count > 0 /\ v.err = "none" THEN 1 ELSE 0
            /\ v.k.timer => \/ a.req = "snd" /\ Sends(v.k)
                            \/ a.req = "sndrecv" /\ proto = "UDP"
            /\ v.rep = IF a.req = "snd" /\ ~Sends(v.k)
                         THEN <<[req |-> "snd", res |-> "ok"]>> ELSE <<>>
      BY <2>2, <2>6, <2>7, <2>9, <2>10 DEF SendsOne
    <2> QED
      BY <1>1, <2>2, <2>5, <2>8 DEF RequestMade, SameRequest
  <1>2. ASSUME a.req \in {"recv", "recvsnd"}
        PROVE  RequestMade(k, a, o, v)
    <2> DEFINE j == IF a.req = "recv" THEN recvIndication([k EXCEPT !.req = "recv"], a.count)
                    ELSE recvIndication([k EXCEPT !.req = "recvsnd", !.sendcnt = a.count],
                                        a.count)
    <2>1. v = report(Work(j), a.req, "ok")
      BY <1>2 DEF Request
    <2>2. /\ j \in Sockets /\ j.req = a.req /\ j.recvcnt = a.count /\ j.recvdcnt = 0
          /\ j.sentcnt = 0 /\ j.effect = FALSE /\ j.timer = k.timer
          /\ j.sendcnt = IF a.req = "recv" THEN k.sendcnt ELSE a.count
      BY <1>0, <1>2 DEF recvIndication, Sockets, Requests
    <2>3. j.sendcnt \in Nat
      BY <2>2 DEF Sockets
    <2> HIDE DEF j, v
    <2>4. FirstReported(j, a.req, v)
      BY <1>0, <2>1, <2>2, FirstReport
    <2>5. a.req # "recveffect"
      BY <1>2
    <2>6. v.k.sentcnt <= v.k.sendcnt
      BY <2>2, <2>3, <2>4 DEF FirstReported, SameRequest
    <2> QED
      BY <1>2, <2>2, <2>4, <2>5, <2>6 DEF RequestMade, SameRequest, FirstReported
  <1>3. ASSUME a.req = "recveffect"
        PROVE  RequestMade(k, a, o, v)
    <2> DEFINE j == [k EXCEPT !.effect = TRUE]
    <2>1. v = IF proto = "UDP" \/ k.recvcnt = k.recvdcnt THEN report(Work(j), "recveffect", "ok")
              ELSE Work(j)
      BY <1>3 DEF Request, effectAction
    <2>2. j \in Sockets /\ SameRequest(j, k) /\ j.sentcnt = k.sentcnt /\ j.timer = k.timer
          /\ j.effect
      BY DEF Sockets, SameRequest
    <2> HIDE DEF j, v
    <2>3. CASE proto = "UDP" \/ k.recvcnt = k.recvdcnt
      <3>1. FirstReported(j, "recveffect", v)
        BY <1>0, <1>3, <2>1, <2>2, <2>3, FirstReport
      <3> QED
        BY <1>3, <2>2, <2>3, <3>1 DEF RequestMade, SameRequest, FirstReported
    <2>4. CASE ~(proto = "UDP" \/ k.recvcnt = k.recvdcnt)
      <3>1. v \in Works /\ v.k = j /\ v.out = 0 /\ v.err = "none" /\ v.rep = <<>>
        BY <2>1, <2>2, <2>4, WorkType
      <3> QED
        BY <1>3, <2>2, <2>4, <3>1 DEF RequestMade, SameRequest
    <2> QED
      BY <2>3, <2>4
  <1>4. RequestMade(k, a, o, v)
    BY <1>0, <1>1, <1>2, <1>3 DEF Reported, Requests
  <1> QED
    BY <1>4 DEF v

-----------------------------------------------------------------------------
(* The kinds of the state *)

ConfirmKinds == [from : Sides, req : Reported, res : Results]

SocketsOK == /\ sk \in [Sides -> Sockets] /\ net \in [Sides -> Nat]
             /\ \A s \in Sides : sk[s].sentcnt <= sk[s].sendcnt

ThreadTypes == /\ pos \in 0 .. Len(stmts) + 1 /\ step \in 0 .. 3 /\ waiting \in BOOLEAN
               /\ waiting => Running /\ step < 3
               /\ ask \in Seq(Asks) /\ reply \in Seq(ConfirmKinds)

TrafficTypes ==
  /\ proto \in {"TCP", "UDP"} /\ stmts \in Statements
  /\ retries \in Nat /\ fatal \in Nat
  /\ ThreadTypes /\ SocketsOK

LEMMA PeerIsOther == \A s \in Sides : Peer(s) \in Sides /\ Peer(s) # s
PROOF
  BY DEF Sides, Peer

LEMMA OutcomesAre == Outcomes \subseteq AllOutcomes
PROOF
  BY DEF Outcomes, AllOutcomes

\* A statement, and the request it is at
LEMMA StatementIs ==
  ASSUME TrafficTypes, Running
  PROVE  /\ stmts[pos].kind \in {"oneway", "turnaround"} /\ stmts[pos].count \in Nat
         /\ pos \in 1 .. Len(stmts) /\ Len(stmts) \in Nat
         /\ step < 3 => Awaited \in Asks
PROOF
  <1>1. stmts \in Seq([kind : {"oneway", "turnaround"}, count : Nat])
    BY TrafficAssumption DEF TrafficTypes
  <1>2. stmts[pos] \in [kind : {"oneway", "turnaround"}, count : Nat]
    <2> DEFINE S == [kind : {"oneway", "turnaround"}, count : Nat]
    <2>1. stmts \in Seq(S)
      BY <1>1
    <2> HIDE DEF S
    <2>2. \A i \in DOMAIN stmts : stmts[i] \in S
      BY <2>1
    <2> QED
      BY <2>2 DEF Running, S
  <1>3. stmts[pos].kind \in {"oneway", "turnaround"} /\ stmts[pos].count \in Nat
    BY <1>2
  <1>4. step < 3 => step + 1 \in 1 .. 3
    BY DEF TrafficTypes, ThreadTypes
  <1>5. ASSUME NEW n \in 1 .. 3 PROVE Ops(stmts[pos])[n] \in Asks
    BY <1>3, <1>5 DEF Ops, Op, Asks, Sides, Reported, Requests
  <1> QED
    BY <1>1, <1>3, <1>4, <1>5 DEF Running, Awaited

\* What a socket that worked leaves behind
Worked(side, w, taken) ==
  /\ SocketsOK' /\ retries' \in Nat /\ fatal' \in Nat
  /\ sk'[side] = w.k /\ sk'[Peer(side)] = sk[Peer(side)]
  /\ net'[side] = net[side] - taken /\ net'[Peer(side)] = net[Peer(side)] + w.out
  /\ reply' \in Seq(ConfirmKinds)
  /\ w.rep = <<>> => reply' = reply
  /\ reply = <<>> => \A req, res : w.rep = <<[req |-> req, res |-> res]>> =>
                       reply' = <<[from |-> side, req |-> req, res |-> res]>>
  /\ fatal' = 0 <=> fatal = 0 /\ w.err # "fatal"
  /\ retries' = 0 <=> retries = 0 /\ w.err # "retry"

LEMMA DoesEffect ==
  ASSUME TrafficTypes, NEW side \in Sides, NEW w \in Works, NEW taken \in Nat,
         taken <= net[side], w.k.sentcnt <= w.k.sendcnt, Does(side, w, taken)
  PROVE  Worked(side, w, taken)
PROOF
  <1> DEFINE new == [i \in DOMAIN w.rep |->
                       [from |-> side, req |-> w.rep[i].req, res |-> w.rep[i].res]]
  <1>0. /\ sk \in [Sides -> Sockets] /\ net \in [Sides -> Nat] /\ w.k \in Sockets
        /\ w.out \in Nat /\ w.rep \in Seq(Reports) /\ reply \in Seq(ConfirmKinds)
        /\ retries \in Nat /\ fatal \in Nat
    BY DEF TrafficTypes, SocketsOK, ThreadTypes, Works
  <1>1. sk' = [sk EXCEPT ![side] = w.k]
    BY DEF Does
  <1>2. sk'[side] = w.k /\ sk'[Peer(side)] = sk[Peer(side)] /\ sk' \in [Sides -> Sockets]
    BY <1>0, <1>1, PeerIsOther
  <1>3. /\ net'[side] = net[side] - taken /\ net'[Peer(side)] = net[Peer(side)] + w.out
        /\ net' \in [Sides -> Nat]
    <2>1. net' = [net EXCEPT ![side] = @ - taken, ![Peer(side)] = @ + w.out]
      BY DEF Does
    <2>2. net[side] - taken \in Nat /\ net[Peer(side)] + w.out \in Nat
      BY <1>0, PeerIsOther
    <2>3. net' = [net EXCEPT ![side] = net[side] - taken,
                             ![Peer(side)] = net[Peer(side)] + w.out]
      BY <1>0, <2>1, PeerIsOther
    <2> QED
      BY <1>0, <2>2, <2>3, PeerIsOther
  <1>4. \A s \in Sides : sk'[s].sentcnt <= sk'[s].sendcnt
    BY <1>1, <1>0 DEF TrafficTypes, SocketsOK
  <1>5. reply' = reply \o new
    BY DEF Does
  <1>6. new \in Seq(ConfirmKinds) /\ Len(new) = Len(w.rep)
    <2>1. \A i \in DOMAIN w.rep : w.rep[i] \in Reports
      BY <1>0
    <2>2. \A i \in DOMAIN w.rep : new[i] \in ConfirmKinds
      BY <2>1 DEF Reports, ConfirmKinds
    <2>3. DOMAIN w.rep = 1 .. Len(w.rep) /\ Len(w.rep) \in Nat
      BY <1>0
    <2>4. DOMAIN new = 1 .. Len(w.rep)
      BY <2>3
    <2>5. new \in [1 .. Len(w.rep) -> ConfirmKinds]
      BY <2>2, <2>3
    <2> HIDE DEF new
    <2>6. new \in Seq(ConfirmKinds)
      BY <2>3, <2>5
    <2> QED
      BY <2>3, <2>4, <2>6, LenProperties
  <1>7. reply' \in Seq(ConfirmKinds)
    BY <1>0, <1>5, <1>6, ConcatProperties
  <1>8. w.rep = <<>> => reply' = reply
    <2>1. w.rep = <<>> => new = <<>>
      BY <1>6
    <2> QED
      BY <1>0, <1>5, <2>1, ConcatEmptySeq
  <1>9. ASSUME reply = <<>>, NEW req, NEW res, w.rep = <<[req |-> req, res |-> res]>>
        PROVE  reply' = <<[from |-> side, req |-> req, res |-> res]>>
    <2>1. new = <<[from |-> side, req |-> req, res |-> res]>>
      BY <1>9
    <2> QED
      BY <1>6, <1>9, <1>5, <2>1, ConcatEmptySeq
  <1>10. /\ retries' = IF w.err = "retry" THEN retries + 1 ELSE retries
         /\ fatal' = IF w.err = "fatal" THEN fatal + 1 ELSE fatal
    BY DEF Does
  <1>11. /\ retries' \in Nat /\ fatal' \in Nat
         /\ fatal' = 0 <=> (fatal = 0 /\ w.err # "fatal")
         /\ retries' = 0 <=> (retries = 0 /\ w.err # "retry")
    BY <1>0, <1>10
  <1> QED
    BY <1>2, <1>3, <1>4, <1>7, <1>8, <1>9, <1>11 DEF SocketsOK, Worked

\* The steps of the agents: a request, a packet, a timeout
HandlesRequest(side, o, w) ==
  /\ ask # <<>> /\ ask' = Tail(ask) /\ side = Head(ask).to /\ Head(ask) \in Asks
  /\ RequestMade(sk[side], Head(ask), o, w)
  /\ Worked(side, w, 0)

HandlesPacket(side, o, k, w, taken) ==
  /\ net[side] > 0 /\ taken = IF sk[side].recvcnt = 0 THEN 0 ELSE 1
  /\ k = [sk[side] EXCEPT !.timer = FALSE, !.recvdcnt = sk[side].recvdcnt + taken]
  /\ k \in Sockets /\ k.sentcnt <= k.sendcnt /\ UNCHANGED ask
  /\ PacketCounted(k, o, w)
  /\ Worked(side, w, taken)

HandlesTimeout(side, o, k, w) ==
  /\ sk[side].timer
  /\ k = [sk[side] EXCEPT !.timer = FALSE, !.regard = sk[side].regard + 1]
  /\ k \in Sockets /\ k.sentcnt <= k.sendcnt /\ UNCHANGED ask
  /\ PacketCounted(k, o, w)
  /\ Worked(side, w, 0)

LEMMA AgentRequestDoes ==
  ASSUME TrafficTypes, AgentRequest
  PROVE  \E side \in Sides, o \in Outcomes, w \in Works : HandlesRequest(side, o, w)
PROOF
  <1> DEFINE a == Head(ask)
  <1>1. ask # <<>> /\ a \in Asks /\ a.to \in Sides
    <2>1. ask \in Seq(Asks) /\ ask # <<>>
      BY DEF AgentRequest, TrafficTypes, ThreadTypes
    <2>2. a \in Asks
      BY <2>1, HeadTailProperties
    <2> QED
      BY <2>1, <2>2 DEF Asks
  <1>2. PICK o \in Outcomes : Does(a.to, Request(sk[a.to], a, o), 0)
    BY DEF AgentRequest
  <1>3. ask' = Tail(ask)
    BY DEF AgentRequest
  <1>4. o \in AllOutcomes /\ sk[a.to] \in Sockets /\ sk[a.to].sentcnt <= sk[a.to].sendcnt
        /\ net[a.to] \in Nat
    BY <1>1, OutcomesAre DEF TrafficTypes, SocketsOK
  <1> HIDE DEF a
  <1>5. RequestMade(sk[a.to], a, o, Request(sk[a.to], a, o))
    BY <1>1, <1>4, RequestDoes
  <1>6. /\ Request(sk[a.to], a, o) \in Works
        /\ Request(sk[a.to], a, o).k.sentcnt <= Request(sk[a.to], a, o).k.sendcnt
    BY <1>5 DEF RequestMade
  <1>7. Worked(a.to, Request(sk[a.to], a, o), 0)
    BY <1>1, <1>2, <1>4, <1>6, DoesEffect
  <1>8. HandlesRequest(a.to, o, Request(sk[a.to], a, o))
    BY <1>1, <1>3, <1>5, <1>7 DEF a, HandlesRequest
  <1> QED
    BY <1>1, <1>6, <1>8

LEMMA PostReceiveWorks ==
  ASSUME TrafficTypes, NEW side \in Sides, NEW k \in Sockets, ~k.timer,
         k.sentcnt <= k.sendcnt, NEW o \in Outcomes, NEW taken \in Nat, taken <= net[side],
         Does(side, postReceive(Work(k), o), taken)
  PROVE  \E w \in Works : PacketCounted(k, o, w) /\ Worked(side, w, taken)
PROOF
  <1>1. PacketCounted(k, o, postReceive(Work(k), o))
    BY OutcomesAre, PostReceiveDoes
  <1>2. /\ postReceive(Work(k), o) \in Works
        /\ postReceive(Work(k), o).k.sentcnt <= postReceive(Work(k), o).k.sendcnt
    BY <1>1 DEF PacketCounted
  <1> QED
    BY <1>1, <1>2, DoesEffect

LEMMA receivePacketDoes ==
  ASSUME TrafficTypes, NEW side \in Sides, receivePacket(side)
  PROVE  \E o \in Outcomes, k \in Sockets, w \in Works, taken \in {0, 1} :
            HandlesPacket(side, o, k, w, taken)
PROOF
  <1> DEFINE taken == IF sk[side].recvcnt = 0 THEN 0 ELSE 1
  <1> DEFINE k == [sk[side] EXCEPT !.timer = FALSE, !.recvdcnt = sk[side].recvdcnt + taken]
  <1>1. sk[side] \in Sockets /\ net[side] \in Nat /\ net[side] > 0
        /\ sk[side].sentcnt <= sk[side].sendcnt
    BY DEF TrafficTypes, SocketsOK, receivePacket
  <1>2. taken \in {0, 1} /\ taken \in Nat /\ taken <= net[side]
    BY <1>1
  <1>3. PICK o \in Outcomes : Does(side, postReceive(Work(k), o), taken)
    <2> DEFINE j == [sk[side] EXCEPT !.timer = FALSE]
    <2>1. PICK o \in Outcomes :
            IF j.recvcnt = 0 THEN Does(side, postReceive(Work(j), o), 0)
            ELSE Does(side, postReceive(Work([j EXCEPT !.recvdcnt = @ + 1]), o), 1)
      BY DEF receivePacket
    <2>2. j.recvcnt = 0 <=> sk[side].recvcnt = 0
      BY <1>1 DEF Sockets
    <2>3. sk[side].recvcnt = 0 => k = j
      <3>1. \A h \in Sockets : [h EXCEPT !.timer = FALSE, !.recvdcnt = h.recvdcnt]
                                 = [h EXCEPT !.timer = FALSE]
        BY DEF Sockets
      <3>2. sk[side].recvcnt = 0 => sk[side].recvdcnt + taken = sk[side].recvdcnt
        BY <1>1 DEF Sockets
      <3> QED
        BY <1>1, <3>1, <3>2
    <2>4. sk[side].recvcnt # 0 => k = [j EXCEPT !.recvdcnt = @ + 1]
      BY <1>1 DEF Sockets
    <2> HIDE DEF j, k
    <2> QED
      BY <2>1, <2>2, <2>3, <2>4
  <1>4. k \in Sockets /\ ~k.timer /\ k.sentcnt <= k.sendcnt
    <2>1. \A n \in Nat : [sk[side] EXCEPT !.timer = FALSE, !.recvdcnt = n] \in Sockets
      BY <1>1 DEF Sockets
    <2>2. sk[side].recvdcnt + taken \in Nat
      BY <1>1 DEF Sockets
    <2>3. k \in Sockets
      BY <2>1, <2>2
    <2> QED
      BY <1>1, <2>3 DEF Sockets
  <1>5. UNCHANGED ask
    BY DEF receivePacket
  <1> HIDE DEF k, taken
  <1>6. PICK w \in Works : PacketCounted(k, o, w) /\ Worked(side, w, taken)
    BY <1>2, <1>3, <1>4, PostReceiveWorks
  <1>7. HandlesPacket(side, o, k, w, taken)
    BY <1>1, <1>4, <1>5, <1>6 DEF HandlesPacket, k, taken
  <1> QED
    BY <1>2, <1>4, <1>7

LEMMA timeupDoes ==
  ASSUME TrafficTypes, NEW side \in Sides, timeup(side)
  PROVE  \E o \in Outcomes, k \in Sockets, w \in Works : HandlesTimeout(side, o, k, w)
PROOF
  <1> DEFINE k == [sk[side] EXCEPT !.timer = FALSE, !.regard = sk[side].regard + 1]
  <1>1. sk[side] \in Sockets /\ net[side] \in Nat /\ sk[side].timer
        /\ sk[side].sentcnt <= sk[side].sendcnt
    BY DEF TrafficTypes, SocketsOK, timeup
  <1>2. k = [sk[side] EXCEPT !.timer = FALSE, !.regard = @ + 1]
    BY <1>1 DEF Sockets
  <1>3. PICK o \in Outcomes : Does(side, postReceive(Work(k), o), 0)
    BY <1>2 DEF timeup
  <1>4. k \in Sockets /\ ~k.timer /\ k.sentcnt <= k.sendcnt
    <2>1. \A n \in Nat : [sk[side] EXCEPT !.timer = FALSE, !.regard = n] \in Sockets
      BY <1>1 DEF Sockets
    <2>2. sk[side].regard + 1 \in Nat
      BY <1>1 DEF Sockets
    <2>3. k \in Sockets
      BY <2>1, <2>2
    <2> QED
      BY <1>1, <2>3 DEF Sockets
  <1>5. UNCHANGED ask
    BY DEF timeup
  <1> HIDE DEF k
  <1>6. PICK w \in Works : PacketCounted(k, o, w) /\ Worked(side, w, 0)
    BY <1>1, <1>3, <1>4, PostReceiveWorks
  <1>7. HandlesTimeout(side, o, k, w)
    BY <1>1, <1>4, <1>5, <1>6 DEF HandlesTimeout, k
  <1> QED
    BY <1>4, <1>7

LEMMA TypesInit == TrafficInit => TrafficTypes
PROOF
  <1> SUFFICES ASSUME TrafficInit PROVE TrafficTypes
    OBVIOUS
  <1>1. TcSocket \in Sockets /\ TcSocket.sentcnt <= TcSocket.sendcnt
    BY DEF TcSocket, Sockets
  <1>2. SocketsOK
    BY <1>1 DEF TrafficInit, SocketsOK
  <1>3. <<>> \in Seq(Asks) /\ <<>> \in Seq(ConfirmKinds)
    BY EmptySeq
  <1>4. Len(stmts) \in Nat
    BY TrafficAssumption DEF TrafficInit
  <1>5. pos \in 0 .. Len(stmts) + 1 /\ step \in 0 .. 3 /\ ~waiting /\ waiting \in BOOLEAN
    <2>1. pos = 1 /\ step = 0 /\ waiting = FALSE
      BY DEF TrafficInit
    <2>2. pos \in 0 .. Len(stmts) + 1 /\ step \in 0 .. 3
      BY <1>4, <2>1
    <2>3. ~waiting /\ waiting \in BOOLEAN
      BY <2>1
    <2> QED
      BY <2>2, <2>3
  <1>6. ask \in Seq(Asks) /\ reply \in Seq(ConfirmKinds)
    BY <1>3 DEF TrafficInit
  <1>7. /\ proto \in {"TCP", "UDP"} /\ stmts \in Statements
        /\ retries \in Nat /\ fatal \in Nat
    BY DEF TrafficInit
  <1> QED
    BY <1>2, <1>5, <1>6, <1>7 DEF TrafficTypes, ThreadTypes

\* The step of an agent
AgentActs ==
  \/ \E side \in Sides, o \in Outcomes, w \in Works : HandlesRequest(side, o, w)
  \/ \E side \in Sides, o \in Outcomes, k \in Sockets, w \in Works, taken \in {0, 1} :
       HandlesPacket(side, o, k, w, taken)
  \/ \E side \in Sides, o \in Outcomes, k \in Sockets, w \in Works :
       HandlesTimeout(side, o, k, w)

threadVars == <<proto, stmts, pos, step, waiting>>

LEMMA AgentWorks == AgentActs => \E side, w, taken : Worked(side, w, taken)
PROOF
  BY Zenon DEF AgentActs, HandlesRequest, HandlesPacket, HandlesTimeout

LEMMA AgentDoes ==
  ASSUME TrafficTypes, AgentNext
  PROVE  AgentActs /\ UNCHANGED threadVars /\ UNCHANGED lost
PROOF
  <1>1. AgentActs
    BY AgentRequestDoes, receivePacketDoes, timeupDoes DEF AgentNext, AgentActs
  <1>2. UNCHANGED threadVars /\ UNCHANGED lost
    BY DEF AgentNext, AgentRequest, receivePacket, timeup, threadVars
  <1> QED
    BY <1>1, <1>2

LEMMA TypesStep ==
  TrafficTypes /\ [TrafficNext]_trafficVars => TrafficTypes'
PROOF
  <1> SUFFICES ASSUME TrafficTypes, [TrafficNext]_trafficVars PROVE TrafficTypes'
    OBVIOUS
  <1>0. /\ pos \in 0 .. Len(stmts) + 1 /\ step \in 0 .. 3 /\ waiting \in BOOLEAN
        /\ ask \in Seq(Asks) /\ reply \in Seq(ConfirmKinds) /\ Len(stmts) \in Nat
    BY TrafficAssumption DEF TrafficTypes, ThreadTypes
  <1>1. CASE AgentNext
    <2>1. AgentActs /\ UNCHANGED threadVars
      BY <1>1, AgentDoes
    <2>2. SocketsOK' /\ retries' \in Nat /\ fatal' \in Nat /\ reply' \in Seq(ConfirmKinds)
      BY <2>1, AgentWorks DEF Worked
    <2>3. ask' \in Seq(Asks)
      <3>1. ask # <<>> => Tail(ask) \in Seq(Asks)
        BY <1>0, HeadTailProperties
      <3> QED
        BY <1>0, <2>1, <3>1 DEF AgentActs, HandlesRequest, HandlesPacket, HandlesTimeout
    <2> QED
      BY <2>1, <2>2, <2>3 DEF TrafficTypes, ThreadTypes, threadVars, Running
  <1>2. CASE doStep
    <2>1. Awaited \in Asks
      BY <1>2, StatementIs DEF doStep
    <2>2. ask' \in Seq(Asks)
      BY <1>0, <1>2, <2>1, AppendProperties DEF doStep
    <2> QED
      BY <1>2, <2>2 DEF doStep, TrafficTypes, ThreadTypes, SocketsOK, Running
  <1>3. CASE StatementEnds
    <2>1. pos \in 1 .. Len(stmts)
      BY <1>3, StatementIs DEF StatementEnds
    <2>2. pos' \in 0 .. Len(stmts) + 1 /\ step' \in 0 .. 3
      BY <1>0, <1>3, <2>1 DEF StatementEnds
    <2> QED
      BY <1>3, <2>2 DEF StatementEnds, TrafficTypes, ThreadTypes, SocketsOK, Running
  <1>4. CASE recvConfirm
    <2> DEFINE r == Head(reply)
    <2>1. reply' \in Seq(ConfirmKinds)
      BY <1>0, <1>4, HeadTailProperties DEF recvConfirm
    <2>2. /\ waiting' = (waiting /\ ~Matches(r))
          /\ step' = IF Matches(r) /\ r.res = "ok" THEN step + 1 ELSE step
          /\ pos' = IF Matches(r) /\ r.res = "error" THEN 0 ELSE pos
      BY <1>4 DEF recvConfirm
    <2> HIDE DEF r
    <2>3. Matches(r) => waiting /\ step < 3
      BY DEF Matches, TrafficTypes, ThreadTypes
    <2>4. pos' \in 0 .. Len(stmts) + 1 /\ step' \in 0 .. 3 /\ waiting' \in BOOLEAN
      BY <1>0, <2>2, <2>3
    <2>5. waiting' => Running' /\ step' < 3
      BY <1>4, <2>2 DEF recvConfirm, TrafficTypes, ThreadTypes, Running
    <2> QED
      BY <1>4, <2>1, <2>4, <2>5 DEF recvConfirm, TrafficTypes, ThreadTypes, SocketsOK
  <1>5. CASE \E s \in Sides : Lose(s)
    <2>1. PICK s \in Sides : Lose(s)
      BY <1>5
    <2>2. net' \in [Sides -> Nat]
      BY <2>1 DEF Lose, TrafficTypes, SocketsOK
    <2> QED
      BY <2>1, <2>2 DEF Lose, TrafficTypes, ThreadTypes, SocketsOK, Running
  <1>6. CASE UNCHANGED trafficVars
    BY <1>6 DEF trafficVars, TrafficTypes, ThreadTypes, SocketsOK, Running
  <1> QED
    BY <1>1, <1>2, <1>3, <1>4, <1>5, <1>6 DEF TrafficNext, ThreadNext

LEMMA TypesInvariance == TrafficSpec => []TrafficTypes
PROOF
  BY TypesInit, TypesStep, PTL DEF TrafficSpec

\* The kinds of the state: in particular a socket never sends more packets than it was asked
\* to, and the network never delivers one that was not sent, whatever sendto() returns.
THEOREM TrafficTypeOKHolds == TrafficSpec => []TrafficTypeOK
PROOF
  <1>1. TrafficTypes => TrafficTypeOK
    <2> SUFFICES ASSUME TrafficTypes PROVE TrafficTypeOK
      OBVIOUS
    <2>1. ASSUME NEW s \in Sides
          PROVE  /\ net[s] \in Nat /\ sk[s].sentcnt \in 0 .. sk[s].sendcnt
                 /\ sk[s].timer \in BOOLEAN /\ sk[s].effect \in BOOLEAN
      <3>1. sk[s] \in Sockets /\ net[s] \in Nat /\ sk[s].sentcnt <= sk[s].sendcnt
        BY DEF TrafficTypes, SocketsOK
      <3> QED
        BY <3>1 DEF Sockets
    <2>2. \A r \in Confirms : r.from \in Sides /\ r.res \in {"ok", "error"}
      <3>1. \A i \in DOMAIN reply : reply[i] \in ConfirmKinds
        BY DEF TrafficTypes, ThreadTypes
      <3> QED
        BY <3>1 DEF Confirms, ConfirmKinds, Results
    <2> QED
      BY <2>1, <2>2 DEF TrafficTypeOK, TrafficTypes, ThreadTypes
  <1> QED
    BY <1>1, TypesInvariance, PTL

-----------------------------------------------------------------------------
(* The inductive invariant: whom the thread waits for, and what is still to come *)

Client == sk["client"]
Server == sk["server"]

\* Turnarounds consist of packets.  In one without any the UDP client waits all the same
\* (postSend starts its timer), and a late datagram of the statement before makes it confirm:
\* receivePacket leaves it in the socket, so that it confirms again and again.
PacketsToAnswer ==
  \A s \in Statements : \A i \in DOMAIN s : s[i].kind = "turnaround" => s[i].count > 0

Quiet == ask = <<>> /\ reply = <<>>

\* The socket will report without being asked.
AtWork(k) == \/ k.req = "snd" /\ Sends(k)
             \/ k.req = "sndrecv" /\ Answered(k) < k.recvcnt

TheConfirm == [from |-> Awaited.to, req |-> Awaited.req, res |-> "ok"]

\* A request is on its way, or its confirm, or neither.
ThreadInv ==
  /\ pos # 0
  /\ ~Running => step = 0 /\ ~waiting
  /\ ~waiting => Quiet
  /\ waiting => \/ ask = <<Awaited>> /\ reply = <<>>
                \/ ask = <<>> /\ reply = <<TheConfirm>>
                \/ Quiet

\* The client works as long as the thread waits for it, and its timer runs no longer.
ClientInv ==
  /\ Client.req \in {"none", "snd", "sndrecv"}
  /\ Client.req = "none" => ~Sends(Client)
  /\ Client.req = "sndrecv" => Client.recvcnt = Client.sendcnt /\ Client.recvcnt > 0
  /\ AtWork(Client) => Running /\ waiting /\ step = 1 /\ Quiet /\ Client.req = Awaited.req
  /\ Client.timer => \/ Client.req = "snd" /\ Sends(Client)
                     \/ Client.req = "sndrecv" /\ proto = "UDP"

\* The server owes a confirm only while the thread waits for the effect of the traffic.
ServerInv ==
  /\ Server.req \in {"none", "recv", "recvsnd"} /\ ~Server.timer
  /\ Server.effect => Running /\ waiting /\ step = 2 /\ Quiet

ConfirmInv == fatal = 0 => ThreadInv /\ ClientInv /\ ServerInv

LEMMA ConfirmInit == TrafficInit => ConfirmInv
PROOF
  <1> SUFFICES ASSUME TrafficInit PROVE ThreadInv /\ ClientInv /\ ServerInv
    BY DEF ConfirmInv
  <1>1. Client = TcSocket /\ Server = TcSocket
    BY DEF TrafficInit, Client, Server, Sides
  <1>2. pos = 1 /\ step = 0 /\ ~waiting /\ Quiet
    BY DEF TrafficInit, Quiet
  <1>3. TcSocket.req = "none" /\ ~TcSocket.timer /\ ~TcSocket.effect /\ ~Sends(TcSocket)
    BY DEF TcSocket, Sends
  <1> QED
    BY <1>1, <1>2, <1>3 DEF ThreadInv, ClientInv, ServerInv, AtWork

\* The requests of a statement
LEMMA AwaitedIs ==
  ASSUME TrafficTypes, Running, step < 3
  PROVE  /\ step \in {0, 1, 2}
         /\ step = 0 => /\ Awaited.to = "server" /\ Awaited.count = stmts[pos].count
                        /\ Awaited.req = IF stmts[pos].kind = "oneway" THEN "recv" ELSE "recvsnd"
         /\ step = 1 => /\ Awaited.to = "client" /\ Awaited.count = stmts[pos].count
                        /\ Awaited.req = IF stmts[pos].kind = "oneway" THEN "snd" ELSE "sndrecv"
         /\ step = 2 => Awaited.to = "server" /\ Awaited.req = "recveffect"
PROOF
  <1>1. step \in {0, 1, 2}
    BY DEF TrafficTypes, ThreadTypes
  <1>2. stmts[pos].kind \in {"oneway", "turnaround"}
    BY StatementIs
  <1> QED
    BY <1>1, <1>2 DEF Awaited, Ops, Op

\* A request that is handled is the one the thread waits for; nothing else goes on.
LEMMA RequestIsAwaited ==
  ASSUME TrafficTypes, ThreadInv, ask # <<>>
  PROVE  /\ Running /\ waiting /\ step < 3 /\ Head(ask) = Awaited /\ Tail(ask) = <<>>
         /\ reply = <<>> /\ ask = <<Awaited>>
PROOF
  <1>1. waiting /\ ask = <<Awaited>> /\ reply = <<>>
    BY DEF ThreadInv, Quiet
  <1> QED
    BY <1>1 DEF TrafficTypes, ThreadTypes

LEMMA RequestStep ==
  ASSUME TrafficTypes, TrafficTypes', PacketsToAnswer, ConfirmInv, fatal' = 0,
         NEW side \in Sides, NEW o \in Outcomes, NEW w \in Works, HandlesRequest(side, o, w),
         UNCHANGED threadVars
  PROVE  ThreadInv' /\ ClientInv' /\ ServerInv'
PROOF
  <1>0. /\ ThreadInv /\ ClientInv /\ ServerInv /\ Worked(side, w, 0) /\ ask # <<>>
        /\ fatal = 0 /\ w.err # "fatal"
        /\ RequestMade(sk[side], Head(ask), o, w) /\ side = Head(ask).to /\ ask' = Tail(ask)
    BY DEF ConfirmInv, HandlesRequest, Worked
  <1>1. /\ Running /\ waiting /\ step < 3 /\ Head(ask) = Awaited /\ Tail(ask) = <<>>
        /\ reply = <<>>
    BY <1>0, RequestIsAwaited
  <1>2. /\ Running' /\ waiting' /\ step' = step /\ Awaited' = Awaited /\ pos' # 0
        /\ TheConfirm' = TheConfirm /\ ask' = <<>> /\ proto' = proto
    BY <1>0, <1>1 DEF threadVars, Running, Awaited, TheConfirm, ThreadInv
  <1>3. RequestMade(sk[side], Awaited, o, w) /\ side = Awaited.to /\ Awaited \in Asks
    BY <1>0, <1>1, StatementIs
  <1>4. ~AtWork(Client) /\ ~Server.effect
    BY <1>0 DEF ClientInv, ServerInv, Quiet
  <1>5. /\ w.rep = <<>> => reply' = <<>>
        /\ w.rep = <<[req |-> Awaited.req, res |-> "ok"]>> => reply' = <<TheConfirm>>
    BY <1>0, <1>1, <1>3 DEF Worked, TheConfirm
  <1>6. w.rep \in {<<>>, <<[req |-> Awaited.req, res |-> "ok"]>>}
    BY <1>0, <1>1, <1>3, AwaitedIs DEF RequestMade
  <1>7. ThreadInv'
    BY <1>2, <1>5, <1>6 DEF ThreadInv, Quiet
  <1>8. CASE step = 1
    <2>1. /\ side = "client" /\ Awaited.req \in {"snd", "sndrecv"} /\ Peer(side) = "server"
          /\ Awaited.count = stmts[pos].count
          /\ Awaited.req = IF stmts[pos].kind = "oneway" THEN "snd" ELSE "sndrecv"
      BY <1>1, <1>3, <1>8, AwaitedIs DEF Peer
    <2>2. Client' = w.k /\ Server' = Server
      BY <1>0, <2>1 DEF Worked, Client, Server
    <2>3. /\ w.k.req = Awaited.req /\ w.k.sendcnt = Awaited.count /\ w.k.recvdcnt = 0
          /\ w.k.regard = 0
          /\ Awaited.req = "sndrecv" => w.k.recvcnt = Awaited.count
          /\ w.k.timer => \/ Awaited.req = "snd" /\ Sends(w.k)
                          \/ Awaited.req = "sndrecv" /\ proto = "UDP"
          /\ w.rep = IF Awaited.req = "snd" /\ ~Sends(w.k)
                       THEN <<[req |-> "snd", res |-> "ok"]>> ELSE <<>>
      BY <1>0, <1>3, <2>1 DEF RequestMade
    <2>4. Awaited.req = "sndrecv" => Awaited.count > 0
      <3>1. stmts \in Statements /\ pos \in DOMAIN stmts
        BY <1>1 DEF TrafficTypes, Running
      <3>2. stmts[pos].kind = "turnaround" => stmts[pos].count > 0
        BY <3>1 DEF PacketsToAnswer
      <3> QED
        BY <1>1, <2>1, <3>2, StatementIs
    <2>5. AtWork(Client)' => Quiet'
      BY <1>2, <1>5, <2>2, <2>3 DEF AtWork, Quiet, Sends
    <2>6. ClientInv'
      BY <1>2, <1>8, <2>1, <2>2, <2>3, <2>4, <2>5 DEF ClientInv, Sends
    <2>7. ServerInv'
      BY <1>0, <1>4, <2>2 DEF ServerInv
    <2> QED
      BY <1>7, <2>6, <2>7
  <1>9. CASE step # 1
    <2>1. /\ side = "server" /\ Awaited.req \in {"recv", "recvsnd", "recveffect"}
          /\ Peer(side) = "client" /\ (Awaited.req = "recveffect" <=> step = 2)
      BY <1>1, <1>3, <1>9, AwaitedIs DEF Peer
    <2>2. Server' = w.k /\ Client' = Client
      BY <1>0, <2>1 DEF Worked, Client, Server
    <2>3. AtWork(Client)' = AtWork(Client)
      BY <1>2, <2>2 DEF AtWork, Answered, Sends
    <2>4. ClientInv'
      BY <1>0, <1>2, <1>4, <2>2, <2>3 DEF ClientInv, Sends
    <2>5. sk[side] = Server
      BY <2>1 DEF Server
    <2>6. /\ w.k.req \in {"none", "recv", "recvsnd"} /\ ~w.k.timer
          /\ w.k.effect => Awaited.req = "recveffect" /\ w.rep = <<>>
      BY <1>0, <1>3, <2>1, <2>5 DEF RequestMade, ServerInv, SameRequest
    <2>7. ServerInv'
      BY <1>2, <1>5, <2>1, <2>2, <2>6 DEF ServerInv, Quiet
    <2> QED
      BY <1>7, <2>4, <2>7
  <1> QED
    BY <1>8, <1>9

\* A packet or a timeout the client or the server goes on with
Hears(side, k, w) ==
  /\ k.req = sk[side].req /\ k.sendcnt = sk[side].sendcnt /\ k.recvcnt = sk[side].recvcnt
  /\ k.sentcnt = sk[side].sentcnt /\ ~k.timer /\ k.effect = sk[side].effect
  /\ k \in Sockets /\ Answered(k) \in Int
  /\ UNCHANGED ask
  /\ \E o \in Outcomes : PacketCounted(k, o, w)
  /\ \E taken \in {0, 1} : Worked(side, w, taken)

LEMMA PacketIsHeard ==
  ASSUME TrafficTypes, NEW side \in Sides, NEW o \in Outcomes, NEW k \in Sockets,
         NEW w \in Works, NEW taken \in {0, 1}, HandlesPacket(side, o, k, w, taken)
  PROVE  Hears(side, k, w) /\ Answered(k) = Answered(sk[side]) + taken
         /\ (taken = 0 <=> sk[side].recvcnt = 0)
PROOF
  <1>1. sk[side] \in Sockets
    BY DEF TrafficTypes, SocketsOK
  <1>2. /\ k.req = sk[side].req /\ k.sendcnt = sk[side].sendcnt /\ k.recvcnt = sk[side].recvcnt
        /\ k.sentcnt = sk[side].sentcnt /\ ~k.timer /\ k.effect = sk[side].effect
        /\ k.recvdcnt = sk[side].recvdcnt + taken /\ k.regard = sk[side].regard
    BY <1>1 DEF HandlesPacket, Sockets
  <1>3. Answered(k) = Answered(sk[side]) + taken /\ Answered(k) \in Int
    BY <1>1, <1>2 DEF Answered, Sockets
  <1> QED
    BY <1>2, <1>3 DEF HandlesPacket, Hears

LEMMA TimeoutIsHeard ==
  ASSUME TrafficTypes, NEW side \in Sides, NEW o \in Outcomes, NEW k \in Sockets,
         NEW w \in Works, HandlesTimeout(side, o, k, w)
  PROVE  Hears(side, k, w)
         /\ (proto = "UDP" => Answered(k) = Answered(sk[side]) + 1)
PROOF
  <1>1. sk[side] \in Sockets
    BY DEF TrafficTypes, SocketsOK
  <1>2. /\ k.req = sk[side].req /\ k.sendcnt = sk[side].sendcnt /\ k.recvcnt = sk[side].recvcnt
        /\ k.sentcnt = sk[side].sentcnt /\ ~k.timer /\ k.effect = sk[side].effect
        /\ k.recvdcnt = sk[side].recvdcnt /\ k.regard = sk[side].regard + 1
    BY <1>1 DEF HandlesTimeout, Sockets
  <1>3. Answered(k) \in Int /\ (proto = "UDP" => Answered(k) = Answered(sk[side]) + 1)
    BY <1>1, <1>2 DEF Answered, Sockets
  <1> QED
    BY <1>2, <1>3 DEF HandlesTimeout, Hears

\* The client hears an answer, or gives one up, and goes on.
LEMMA ClientHears ==
  ASSUME TrafficTypes, ConfirmInv, fatal' = 0, NEW k \in Sockets, NEW w \in Works,
         Hears("client", k, w), UNCHANGED threadVars,
         Client.req = "sndrecv" => Answered(k) = Answered(Client) + 1
  PROVE  ThreadInv' /\ ClientInv' /\ ServerInv'
PROOF
  <1>0. /\ ThreadInv /\ ClientInv /\ ServerInv /\ fatal = 0 /\ w.err # "fatal"
        /\ reply' \in Seq(ConfirmKinds)
        /\ w.rep = <<>> => reply' = reply
        /\ reply = <<>> => \A req, res : w.rep = <<[req |-> req, res |-> res]>> =>
                             reply' = <<[from |-> "client", req |-> req, res |-> res]>>
        /\ Client' = w.k /\ Server' = Server /\ UNCHANGED ask
    BY DEF ConfirmInv, Hears, Worked, Client, Server, Peer
  <1>1. /\ Client.req = k.req /\ Client.sendcnt = k.sendcnt /\ Client.recvcnt = k.recvcnt
        /\ Client.sentcnt = k.sentcnt /\ Answered(k) \in Int
        /\ (Sends(Client) <=> Sends(k))
    BY DEF Hears, Client, Sends
  <1>2. /\ SameRequest(w.k, k) /\ w.rep = ReceiveReports(k, w.k)
        /\ w.k.timer => \/ k.req = "snd" /\ Sends(w.k)
                        \/ k.req = "sndrecv" /\ proto = "UDP"
        /\ w.k.sentcnt >= k.sentcnt
    BY <1>0 DEF Hears, PacketCounted
  <1>3. /\ Client \in Sockets /\ w.k \in Sockets /\ Answered(Client) \in Int
        /\ Client.sentcnt <= Client.sendcnt
    <2>1. "client" \in Sides /\ Client = sk["client"]
      BY DEF Sides, Client
    <2>2. Client \in Sockets /\ Client.sentcnt <= Client.sendcnt
      BY <2>1 DEF TrafficTypes, SocketsOK
    <2>3. w.k \in Sockets
      BY DEF Works
    <2>4. Answered(Client) \in Int
      BY <2>2 DEF Answered, Sockets
    <2> QED
      BY <2>2, <2>3, <2>4
  <1>4. Answered(w.k) = Answered(k) /\ (Sends(w.k) => Sends(k))
    BY <1>2, <1>3 DEF Answered, SameRequest, Sends, Sockets
  <1>5. /\ Running' = Running /\ waiting' = waiting /\ step' = step /\ pos' = pos
        /\ Awaited' = Awaited /\ TheConfirm' = TheConfirm /\ proto' = proto
    BY DEF threadVars, Running, Awaited, TheConfirm
  <1>6. w.rep # <<>> => /\ AtWork(Client) /\ ~AtWork(w.k)
                        /\ w.rep = <<[req |-> Client.req, res |-> "ok"]>>
    <2>1. CASE k.req = "sndrecv" /\ AllAnswered(k)
      BY <1>1, <1>2, <1>3, <1>4, <2>1
      DEF ReceiveReports, AllAnswered, AtWork, SameRequest, Sockets
    <2>2. CASE k.req = "snd" /\ Sends(k) /\ ~Sends(w.k)
      BY <1>1, <1>2, <2>2 DEF ReceiveReports, AtWork, SameRequest
    <2>3. CASE ~(k.req = "sndrecv" /\ AllAnswered(k)) /\ ~(k.req = "snd" /\ Sends(k) /\ ~Sends(w.k))
      BY <1>0, <1>1, <1>2, <2>3 DEF ReceiveReports, ClientInv
    <2> QED
      BY <2>1, <2>2, <2>3
  <1>7. AtWork(w.k) => AtWork(Client)
    BY <1>1, <1>2, <1>3, <1>4 DEF AtWork, SameRequest, Sockets
  <1>8. AtWork(Client) => /\ Running /\ waiting /\ step = 1 /\ Quiet
                          /\ Client.req = Awaited.req /\ Awaited.to = "client"
    BY <1>0, AwaitedIs DEF ClientInv, ThreadInv, TrafficTypes, ThreadTypes
  <1>10. /\ w.k.req = Client.req /\ w.k.recvcnt = Client.recvcnt /\ w.k.sendcnt = Client.sendcnt
         /\ w.k.timer => \/ w.k.req = "snd" /\ Sends(w.k)
                         \/ w.k.req = "sndrecv" /\ proto = "UDP"
    BY <1>1, <1>2 DEF SameRequest
  <1>9. ASSUME AtWork(w.k) => Quiet', Server.effect => Quiet'
        PROVE  ClientInv' /\ ServerInv'
    <2>1. Client'.req \in {"none", "snd", "sndrecv"} /\ (Client'.req = "none" => ~Sends(Client'))
      BY <1>0, <1>1, <1>4, <1>10 DEF ClientInv
    <2>2. AtWork(Client)' => /\ Running' /\ waiting' /\ step' = 1 /\ Quiet'
                             /\ Client'.req = Awaited'.req
      <3>1. AtWork(Client)' <=> AtWork(w.k)
        BY <1>0, <1>5 DEF AtWork, Answered, Sends
      <3> QED
        BY <1>0, <1>5, <1>7, <1>8, <1>9, <1>10, <3>1
    <2>3. ClientInv'
      BY <1>0, <1>5, <1>10, <2>1, <2>2 DEF ClientInv, Sends
    <2>4. ServerInv'
      BY <1>0, <1>5, <1>9 DEF ServerInv
    <2> QED
      BY <2>3, <2>4
  <1>11. CASE w.rep = <<>>
    <2>1. ThreadInv' /\ (Quiet => Quiet')
      BY <1>0, <1>5, <1>11 DEF ThreadInv, Quiet
    <2>2. (AtWork(w.k) => Quiet') /\ (Server.effect => Quiet')
      BY <1>0, <1>7, <1>8, <2>1 DEF ServerInv
    <2> QED
      BY <1>9, <2>1, <2>2
  <1>12. CASE w.rep # <<>>
    <2>1. /\ AtWork(Client) /\ ~AtWork(w.k) /\ Quiet /\ Running /\ waiting /\ step = 1
          /\ reply' = <<TheConfirm>> /\ ask' = <<>>
      BY <1>0, <1>6, <1>8, <1>12 DEF TheConfirm, Quiet
    <2>2. ThreadInv'
      BY <1>0, <1>5, <2>1 DEF ThreadInv
    <2>3. ~Server.effect
      BY <1>0, <2>1 DEF ServerInv
    <2> QED
      BY <1>9, <2>1, <2>2, <2>3
  <1> QED
    BY <1>11, <1>12

\* The server counts a packet, and sends one back.
LEMMA ServerHears ==
  ASSUME TrafficTypes, ConfirmInv, fatal' = 0, NEW k \in Sockets, NEW w \in Works,
         Hears("server", k, w), UNCHANGED threadVars
  PROVE  ThreadInv' /\ ClientInv' /\ ServerInv'
PROOF
  <1>0. /\ ThreadInv /\ ClientInv /\ ServerInv /\ fatal = 0 /\ w.err # "fatal"
        /\ w.rep = <<>> => reply' = reply
        /\ reply = <<>> => \A req, res : w.rep = <<[req |-> req, res |-> res]>> =>
                             reply' = <<[from |-> "server", req |-> req, res |-> res]>>
        /\ Server' = w.k /\ Client' = Client /\ UNCHANGED ask
    BY DEF ConfirmInv, Hears, Worked, Client, Server, Peer
  <1>1. /\ Server.req = k.req /\ k.req \in {"none", "recv", "recvsnd"}
        /\ k.effect = Server.effect
    BY <1>0 DEF Hears, Server, ServerInv
  <1>2. /\ w.k.req = k.req /\ w.rep = ReceiveReports(k, w.k) /\ ~w.k.timer
        /\ w.k.effect = IF k.req = "recv" /\ AllAnswered(k) /\ proto = "TCP" THEN FALSE
                        ELSE k.effect
    BY <1>0, <1>1 DEF Hears, PacketCounted, SameRequest
  <1>3. /\ Running' = Running /\ waiting' = waiting /\ step' = step /\ pos' = pos
        /\ Awaited' = Awaited /\ TheConfirm' = TheConfirm /\ proto' = proto
    BY DEF threadVars, Running, Awaited, TheConfirm
  <1>4. w.rep # <<>> => /\ Server.effect /\ ~w.k.effect
                        /\ w.rep = <<[req |-> "recveffect", res |-> "ok"]>>
    BY <1>1, <1>2 DEF ReceiveReports
  <1>5. Server.effect => /\ Running /\ waiting /\ step = 2 /\ Quiet
                         /\ Awaited.to = "server" /\ Awaited.req = "recveffect"
    BY <1>0, AwaitedIs DEF ServerInv, TrafficTypes, ThreadTypes
  <1>6. w.k.effect => Server.effect /\ w.rep = <<>>
    BY <1>1, <1>2, <1>4
  <1>7. CASE w.rep = <<>>
    <2>1. ThreadInv' /\ (Quiet' <=> Quiet)
      BY <1>0, <1>3, <1>7 DEF ThreadInv, Quiet
    <2>2. AtWork(Client)' <=> AtWork(Client)
      BY <1>0, <1>3 DEF AtWork, Answered, Sends
    <2>3. ClientInv'
      BY <1>0, <1>3, <2>1, <2>2 DEF ClientInv, Sends
    <2>4. ServerInv'
      BY <1>0, <1>1, <1>2, <1>3, <1>5, <1>6, <2>1 DEF ServerInv
    <2> QED
      BY <2>1, <2>3, <2>4
  <1>8. CASE w.rep # <<>>
    <2>1. /\ Running /\ waiting /\ step = 2 /\ Quiet
          /\ reply' = <<TheConfirm>> /\ ask' = <<>>
      BY <1>0, <1>4, <1>5, <1>8 DEF TheConfirm, Quiet
    <2>2. ThreadInv'
      BY <1>0, <1>3, <2>1 DEF ThreadInv
    <2>3. ~AtWork(Client) /\ ~AtWork(Client)'
      BY <1>0, <1>3, <2>1 DEF ClientInv, AtWork, Answered, Sends
    <2>4. ClientInv'
      BY <1>0, <1>3, <2>3 DEF ClientInv, Sends
    <2>5. ServerInv'
      BY <1>0, <1>1, <1>2, <1>6, <1>8 DEF ServerInv
    <2> QED
      BY <2>2, <2>4, <2>5
  <1> QED
    BY <1>7, <1>8

\* The thread asks, ends a statement or goes on.
LEMMA ThreadStep ==
  ASSUME TrafficTypes, ConfirmInv, fatal' = 0, ThreadNext
  PROVE  ThreadInv' /\ ClientInv' /\ ServerInv'
PROOF
  <1>0. /\ UNCHANGED <<proto, stmts, sk, net, lost, retries, fatal>>
        /\ ThreadInv /\ ClientInv /\ ServerInv
    BY DEF ThreadNext, doStep, StatementEnds, recvConfirm, ConfirmInv
  <1>1. /\ Client' = Client /\ Server' = Server /\ (AtWork(Client)' <=> AtWork(Client))
        /\ (Sends(Client)' <=> Sends(Client))
    BY <1>0 DEF Client, Server, AtWork, Answered, Sends
  <1>2. ASSUME ~AtWork(Client), ~Server.effect PROVE ClientInv' /\ ServerInv'
    BY <1>0, <1>1, <1>2 DEF ClientInv, ServerInv
  <1>3. CASE doStep
    <2>1. /\ Running /\ ~waiting /\ Quiet /\ waiting' /\ ask' = Append(ask, Awaited)
          /\ UNCHANGED <<pos, step, reply>>
      BY <1>0, <1>3 DEF doStep, ThreadInv
    <2>2. ask' = <<Awaited>> /\ reply' = <<>>
      BY <2>1 DEF Quiet
    <2>3. Awaited' = Awaited /\ Running'
      BY <1>0, <2>1 DEF Awaited, Running
    <2>4. ThreadInv'
      BY <1>0, <2>1, <2>2, <2>3 DEF ThreadInv
    <2>5. ~AtWork(Client) /\ ~Server.effect
      BY <1>0, <2>1 DEF ClientInv, ServerInv
    <2> QED
      BY <1>2, <2>4, <2>5
  <1>4. CASE StatementEnds
    <2>1. Running /\ ~waiting /\ Quiet /\ ~waiting' /\ pos' = pos + 1 /\ step' = 0 /\ Quiet'
      BY <1>0, <1>4 DEF StatementEnds, ThreadInv, Quiet
    <2>2. pos' # 0
      BY <2>1, StatementIs
    <2>3. ThreadInv'
      BY <2>1, <2>2 DEF ThreadInv
    <2>4. ~AtWork(Client) /\ ~Server.effect
      BY <1>0, <2>1 DEF ClientInv, ServerInv
    <2> QED
      BY <1>2, <2>3, <2>4
  <1>5. CASE recvConfirm
    <2>1. reply # <<>> /\ reply' = Tail(reply) /\ UNCHANGED ask
      BY <1>5 DEF recvConfirm
    <2>2. waiting /\ Running /\ ask = <<>> /\ reply = <<TheConfirm>>
      BY <1>0, <2>1 DEF ThreadInv, Quiet
    <2>3. Head(reply) = TheConfirm /\ reply' = <<>>
      BY <2>1, <2>2
    <2>4. Matches(TheConfirm) /\ TheConfirm.res = "ok"
      BY <2>2 DEF Matches, TheConfirm
    <2>5. ~waiting' /\ pos' = pos
      BY <1>5, <2>3, <2>4 DEF recvConfirm
    <2>6. ThreadInv'
      BY <1>0, <2>1, <2>2, <2>3, <2>5 DEF ThreadInv, Quiet, Running
    <2>7. ~AtWork(Client) /\ ~Server.effect
      BY <1>0, <2>1 DEF ClientInv, ServerInv, Quiet
    <2> QED
      BY <1>2, <2>6, <2>7
  <1> QED
    BY <1>3, <1>4, <1>5 DEF ThreadNext

LEMMA ConfirmStep ==
  ASSUME PacketsToAnswer
  PROVE  TrafficTypes /\ TrafficTypes' /\ ConfirmInv /\ [TrafficNext]_trafficVars => ConfirmInv'
PROOF
  <1> SUFFICES ASSUME TrafficTypes, TrafficTypes', ConfirmInv, [TrafficNext]_trafficVars,
                      fatal' = 0
               PROVE  ThreadInv' /\ ClientInv' /\ ServerInv'
    BY DEF ConfirmInv
  <1>1. CASE AgentNext
    <2>1. AgentActs /\ UNCHANGED threadVars
      BY <1>1, AgentDoes
    <2>2. fatal = 0
      BY <2>1, AgentWorks DEF Worked
    <2>3. ASSUME NEW side \in Sides, NEW o \in Outcomes, NEW w \in Works,
                 HandlesRequest(side, o, w)
          PROVE  ThreadInv' /\ ClientInv' /\ ServerInv'
      BY <2>1, <2>3, RequestStep
    <2>4. ASSUME NEW side \in Sides, NEW o \in Outcomes, NEW k \in Sockets, NEW w \in Works,
                 NEW taken \in {0, 1}, HandlesPacket(side, o, k, w, taken)
          PROVE  ThreadInv' /\ ClientInv' /\ ServerInv'
      <3>1. Hears(side, k, w) /\ Answered(k) = Answered(sk[side]) + taken
            /\ (taken = 0 <=> sk[side].recvcnt = 0)
        BY <2>4, PacketIsHeard
      <3>2. CASE side = "client"
        <4>1. Client.req = "sndrecv" => Answered(k) = Answered(Client) + 1
          BY <2>2, <3>1, <3>2 DEF ConfirmInv, ClientInv, Client
        <4> QED
          BY <2>1, <3>1, <3>2, <4>1, ClientHears
      <3>3. CASE side = "server"
        BY <2>1, <3>1, <3>3, ServerHears
      <3> QED
        BY <3>2, <3>3 DEF Sides
    <2>5. ASSUME NEW side \in Sides, NEW o \in Outcomes, NEW k \in Sockets, NEW w \in Works,
                 HandlesTimeout(side, o, k, w)
          PROVE  ThreadInv' /\ ClientInv' /\ ServerInv'
      <3>1. Hears(side, k, w) /\ (proto = "UDP" => Answered(k) = Answered(sk[side]) + 1)
            /\ sk[side].timer
        BY <2>5, TimeoutIsHeard DEF HandlesTimeout
      <3>2. CASE side = "client"
        <4>1. Client.req = "sndrecv" => Answered(k) = Answered(Client) + 1
          BY <2>2, <3>1, <3>2 DEF ConfirmInv, ClientInv, Client
        <4> QED
          BY <2>1, <3>1, <3>2, <4>1, ClientHears
      <3>3. side # "server"
        BY <2>2, <3>1 DEF ConfirmInv, ServerInv, Server
      <3> QED
        BY <3>2, <3>3 DEF Sides
    <2> QED
      BY <2>1, <2>3, <2>4, <2>5 DEF AgentActs
  <1>2. CASE ThreadNext
    BY <1>2, ThreadStep
  <1>3. CASE UNCHANGED trafficVars \/ \E s \in Sides : Lose(s)
    <2>1. UNCHANGED <<threadVars, ask, reply, sk, fatal>>
      BY <1>3 DEF trafficVars, threadVars, Lose
    <2>2. ThreadInv /\ ClientInv /\ ServerInv
      BY <2>1 DEF ConfirmInv
    <2>3. Running' = Running /\ Awaited' = Awaited /\ TheConfirm' = TheConfirm
          /\ Quiet' = Quiet /\ UNCHANGED threadVars
      BY <2>1 DEF threadVars, Running, Awaited, TheConfirm, Quiet
    <2>4. ThreadInv'
      BY <2>1, <2>2, <2>3 DEF ThreadInv, threadVars
    <2>5. Client' = Client /\ Server' = Server /\ (AtWork(Client)' <=> AtWork(Client))
          /\ (Sends(Client)' <=> Sends(Client))
      BY <2>1 DEF Client, Server, AtWork, Answered, Sends, threadVars
    <2> QED
      BY <2>2, <2>3, <2>4, <2>5 DEF ClientInv, ServerInv, threadVars
  <1> QED
    BY <1>1, <1>2, <1>3 DEF TrafficNext

LEMMA ConfirmInvariance ==
  ASSUME PacketsToAnswer
  PROVE  TrafficSpec => []ConfirmInv
PROOF
  BY ConfirmInit, ConfirmStep, TypesInvariance, PTL DEF TrafficSpec

\* A request is confirmed once, and the confirm is the one the thread waits for, over TCP and
\* over UDP with lost, late and retried datagrams, however many packets a statement has.
THEOREM ConfirmsAreAwaitedHolds ==
  ASSUME PacketsToAnswer
  PROVE  TrafficSpec => []ConfirmsAreAwaited
PROOF
  <1>1. ConfirmInv => ConfirmsAreAwaited
    <2> SUFFICES ASSUME ConfirmInv, fatal = 0, NEW i \in DOMAIN reply
                 PROVE  Matches(reply[i]) /\ ask = <<>> /\ Len(reply) = 1
      BY DEF ConfirmsAreAwaited
    <2>1. ThreadInv
      BY DEF ConfirmInv
    <2>2. reply # <<>>
      OBVIOUS
    <2>3. waiting /\ Running /\ ask = <<>> /\ reply = <<TheConfirm>>
      BY <2>1, <2>2 DEF ThreadInv, Quiet
    <2>4. i = 1 /\ reply[i] = TheConfirm /\ Len(reply) = 1
      BY <2>3
    <2> QED
      BY <2>3, <2>4 DEF Matches, TheConfirm
  <1> QED
    BY <1>1, ConfirmInvariance, PTL

-----------------------------------------------------------------------------
(* A turnaround over UDP: the client is never behind the answers it counts *)

AheadInv ==
  fatal = 0 /\ retries = 0 /\ Client.req = "sndrecv" =>
    /\ Sends(Client) => Client.sentcnt > Answered(Client)
    /\ Client.timer => Client.sentcnt > Answered(Client)

LEMMA ClientKeepsAhead ==
  ASSUME TrafficTypes, ConfirmInv, AheadInv, fatal' = 0, retries' = 0, NEW k \in Sockets,
         NEW w \in Works, Hears("client", k, w), UNCHANGED threadVars,
         Client.req = "sndrecv" => Answered(k) = Answered(Client) + 1
  PROVE  AheadInv'
PROOF
  <1>0. /\ fatal = 0 /\ w.err # "fatal" /\ retries = 0 /\ w.err # "retry" /\ Client' = w.k
        /\ proto' = proto
    BY DEF Hears, Worked, Client, threadVars
  <1>1. /\ Client.req = k.req /\ Client.sendcnt = k.sendcnt /\ Client.recvcnt = k.recvcnt
        /\ Client.sentcnt = k.sentcnt
    BY DEF Hears, Client
  <1>2. /\ SameRequest(w.k, k)
        /\ w.k.sentcnt = IF SendsNext(k) THEN k.sentcnt + 1 ELSE k.sentcnt
        /\ w.k.timer => SendsNext(k)
    <2>1. w.err = "none"
      BY <1>0 DEF Works
    <2> QED
      BY <2>1 DEF Hears, PacketCounted
  <1>3. /\ w.k \in Sockets /\ Answered(w.k) = Answered(k) /\ Answered(k) \in Int
        /\ k.sentcnt \in Nat /\ k.sendcnt \in Nat
    BY <1>2 DEF Works, Answered, SameRequest, Sockets
  <1> SUFFICES ASSUME Client.req = "sndrecv"
               PROVE  /\ Sends(w.k) => w.k.sentcnt > Answered(w.k)
                      /\ w.k.timer => w.k.sentcnt > Answered(w.k)
    BY <1>0, <1>1, <1>2 DEF AheadInv, SameRequest, Sends, Answered
  <1>4. Answered(k) = Answered(Client) + 1 /\ Answered(Client) \in Int
    <2>1. Client \in Sockets
      BY DEF TrafficTypes, SocketsOK, Sides, Client
    <2> QED
      BY <2>1 DEF Answered, Sockets
  <1>5. Sends(k) => k.sentcnt >= Answered(k)
    BY <1>0, <1>1, <1>3, <1>4 DEF AheadInv, Sends
  <1>6. SendsNext(k) <=> Sends(k) /\ k.sentcnt <= Answered(k)
    BY <1>1 DEF SendsNext
  <1>7. Sends(w.k) => Sends(k)
    BY <1>2, <1>3 DEF Sends, SameRequest
  <1> QED
    BY <1>2, <1>3, <1>5, <1>6, <1>7

LEMMA AheadStep ==
  ASSUME PacketsToAnswer
  PROVE  TrafficTypes /\ ConfirmInv /\ AheadInv /\ [TrafficNext]_trafficVars => AheadInv'
PROOF
  <1> SUFFICES ASSUME TrafficTypes, ConfirmInv, AheadInv, [TrafficNext]_trafficVars,
                      fatal' = 0, retries' = 0
               PROVE  AheadInv'
    BY DEF AheadInv
  <1>0. ASSUME Client' = Client, proto' = proto, fatal = 0, retries = 0 PROVE AheadInv'
    BY <1>0 DEF AheadInv, Sends, Answered
  <1>1. CASE AgentNext
    <2>1. AgentActs /\ UNCHANGED threadVars /\ proto' = proto
      BY <1>1, AgentDoes DEF threadVars
    <2>2. fatal = 0 /\ retries = 0
      BY <2>1, AgentWorks DEF Worked
    <2>0. ThreadInv /\ ClientInv /\ ServerInv
      BY <2>2 DEF ConfirmInv
    <2>3. ASSUME NEW side \in Sides, NEW o \in Outcomes, NEW w \in Works,
                 HandlesRequest(side, o, w)
          PROVE  AheadInv'
      <3>1. /\ Running /\ waiting /\ step < 3 /\ Head(ask) = Awaited
            /\ side = Awaited.to /\ RequestMade(sk[side], Awaited, o, w) /\ Worked(side, w, 0)
        BY <2>0, <2>3, RequestIsAwaited DEF HandlesRequest
      <3>2. CASE step = 1
        <4>1. /\ side = "client" /\ Awaited.req \in {"snd", "sndrecv"}
              /\ Awaited.count = stmts[pos].count
              /\ Awaited.req = IF stmts[pos].kind = "oneway" THEN "snd" ELSE "sndrecv"
          BY <3>1, <3>2, AwaitedIs
        <4>2. Client' = w.k /\ w.err = "none"
          BY <3>1, <4>1 DEF Worked, Client, Works
        <4>3. Awaited.req = "sndrecv" => Awaited.count > 0
          <5>1. stmts \in Statements /\ pos \in DOMAIN stmts
            BY <3>1 DEF TrafficTypes, Running
          <5>2. stmts[pos].kind = "turnaround" => stmts[pos].count > 0
            BY <5>1 DEF PacketsToAnswer
          <5> QED
            BY <3>1, <4>1, <5>2, StatementIs
        <4>4. /\ w.k.req = Awaited.req /\ w.k.recvdcnt = 0 /\ w.k.regard = 0
              /\ Awaited.req = "sndrecv" => w.k.sentcnt = 1
          BY <3>1, <4>1, <4>2, <4>3 DEF RequestMade
        <4>5. Answered(w.k) = 0
          BY <4>4 DEF Answered
        <4>6. Answered(Client)' = 0
          BY <2>1, <4>2, <4>5 DEF Answered
        <4> QED
          BY <4>2, <4>4, <4>6 DEF AheadInv, Sends
      <3>3. CASE step # 1
        <4>1. side = "server"
          BY <3>1, <3>3, AwaitedIs
        <4>2. Client' = Client
          BY <3>1, <4>1 DEF Worked, Client, Peer
        <4> QED
          BY <1>0, <2>1, <2>2, <4>2
      <3> QED
        BY <3>2, <3>3
    <2>4. ASSUME NEW side \in Sides, NEW k \in Sockets, NEW w \in Works, Hears(side, k, w),
                 side = "client" /\ Client.req = "sndrecv" => Answered(k) = Answered(Client) + 1
          PROVE  AheadInv'
      <3>1. CASE side = "client"
        BY <2>1, <2>4, <3>1, ClientKeepsAhead
      <3>2. CASE side = "server"
        <4>1. Client' = Client
          BY <2>4, <3>2 DEF Hears, Worked, Client, Peer
        <4> QED
          BY <1>0, <2>1, <2>2, <4>1
      <3> QED
        BY <3>1, <3>2 DEF Sides
    <2>5. ASSUME NEW side \in Sides, NEW o \in Outcomes, NEW k \in Sockets, NEW w \in Works,
                 NEW taken \in {0, 1}, HandlesPacket(side, o, k, w, taken)
          PROVE  AheadInv'
      <3>1. Hears(side, k, w) /\ Answered(k) = Answered(sk[side]) + taken
            /\ (taken = 0 <=> sk[side].recvcnt = 0)
        BY <2>5, PacketIsHeard
      <3>2. side = "client" /\ Client.req = "sndrecv" => Answered(k) = Answered(Client) + 1
        BY <2>0, <3>1 DEF ClientInv, Client
      <3> QED
        BY <2>4, <3>1, <3>2
    <2>6. ASSUME NEW side \in Sides, NEW o \in Outcomes, NEW k \in Sockets, NEW w \in Works,
                 HandlesTimeout(side, o, k, w)
          PROVE  AheadInv'
      <3>1. Hears(side, k, w) /\ (proto = "UDP" => Answered(k) = Answered(sk[side]) + 1)
            /\ sk[side].timer
        BY <2>6, TimeoutIsHeard DEF HandlesTimeout
      <3>2. side = "client" /\ Client.req = "sndrecv" => Answered(k) = Answered(Client) + 1
        BY <2>0, <3>1 DEF ClientInv, Client
      <3> QED
        BY <2>4, <3>1, <3>2
    <2> QED
      BY <2>1, <2>3, <2>5, <2>6 DEF AgentActs
  <1>2. CASE ThreadNext \/ UNCHANGED trafficVars \/ \E s \in Sides : Lose(s)
    <2>1. UNCHANGED <<proto, sk, fatal, retries>>
      BY <1>2 DEF ThreadNext, doStep, StatementEnds, recvConfirm, Lose, trafficVars
    <2> QED
      BY <1>0, <2>1 DEF Client
  <1> QED
    BY <1>1, <1>2 DEF TrafficNext

\* When the client has confirmed, or the thread has taken the confirm, the client has sent
\* every packet and no timer of it is left, as long as sendto() did not ask to retry.
THEOREM DoneMeansSentHolds ==
  ASSUME PacketsToAnswer
  PROVE  TrafficSpec => []DoneMeansSent
PROOF
  <1>1. TrafficInit => AheadInv
    BY DEF TrafficInit, AheadInv, Client, TcSocket, Sides
  <1>2. TrafficSpec => []AheadInv
    BY <1>1, AheadStep, TypesInvariance, ConfirmInvariance, PTL DEF TrafficSpec
  <1>3. TrafficTypes /\ ConfirmInv /\ AheadInv => DoneMeansSent
    <2> SUFFICES ASSUME TrafficTypes, ConfirmInv, AheadInv, retries = 0, fatal = 0, Running,
                        step > 1 \/ \E r \in Confirms : r.from = "client"
                 PROVE  Client.sentcnt >= Client.sendcnt /\ ~Client.timer
      BY DEF DoneMeansSent, Client
    <2>1. ThreadInv /\ ClientInv
      BY DEF ConfirmInv
    <2>2. ~AtWork(Client)
      <3>1. ASSUME NEW r \in Confirms PROVE ~Quiet
        BY <3>1 DEF Confirms, Quiet
      <3> QED
        BY <2>1, <3>1 DEF ClientInv
    <2>3. Client \in Sockets
      BY DEF TrafficTypes, SocketsOK, Sides, Client
    <2>4. /\ Client.sentcnt \in Nat /\ Client.sendcnt \in Nat /\ Client.recvcnt \in Nat
          /\ Answered(Client) \in Nat
      BY <2>3 DEF Sockets, Answered
    <2>5. CASE Client.req = "sndrecv"
      BY <2>1, <2>2, <2>4, <2>5 DEF AheadInv, ClientInv, AtWork, Sends, TrafficTypes, SocketsOK,
         Client, Sides
    <2>6. CASE Client.req # "sndrecv"
      BY <2>1, <2>2, <2>4, <2>6 DEF ClientInv, AtWork, Sends
    <2> QED
      BY <2>5, <2>6
  <1> QED
    BY <1>2, <1>3, TypesInvariance, ConfirmInvariance, PTL

-----------------------------------------------------------------------------
(* The packets of a statement over TCP *)

Packets == stmts[pos].count
Turns == stmts[pos].kind = "turnaround"

Idle == net["client"] = 0 /\ net["server"] = 0

\* The server has been asked to receive, then the client to send, and the effect is known.
Received == (step = 0 /\ reply # <<>>) \/ (step = 1 /\ (~waiting \/ ask # <<>>))
Started == (step = 1 /\ waiting /\ ask = <<>>) \/ step \in {2, 3}
Over == (step = 2 /\ reply # <<>>) \/ step = 3

ServerReady ==
  /\ Server.req = IF Turns THEN "recvsnd" ELSE "recv"
  /\ Server.recvcnt = Packets
  /\ Turns => Server.sendcnt = Packets

\* What was sent was received or is on its way.
Flow ==
  /\ Client.req = IF Turns THEN "sndrecv" ELSE "snd"
  /\ Client.sendcnt = Packets
  /\ net["server"] + Server.recvdcnt = Client.sentcnt
  /\ Turns => /\ net["client"] + Client.recvdcnt = Server.sentcnt
              /\ Server.sentcnt = Server.recvdcnt
  /\ ~Turns => net["client"] = 0

StatementInv ==
  /\ step = 0 /\ reply = <<>> => Idle
  /\ Received \/ Started => ServerReady
  /\ Received => Idle /\ Server.recvdcnt = 0 /\ Server.sentcnt = 0
  /\ Started => Flow
  /\ Over => Server.recvdcnt = Packets

TcpInv ==
  proto = "TCP" => /\ fatal = 0 /\ retries = 0
                   /\ IF Running THEN StatementInv ELSE Idle

\* What the steps of a TCP statement start from
TcpFacts ==
  /\ proto = "TCP" /\ TrafficTypes /\ ConfirmInv /\ TcpInv

SocketNats(k) ==
  /\ k \in Sockets /\ k.sentcnt \in Nat /\ k.sendcnt \in Nat /\ k.recvcnt \in Nat
  /\ k.recvdcnt \in Nat /\ k.sentcnt <= k.sendcnt

LEMMA TcpFactsAre ==
  ASSUME TcpFacts
  PROVE  /\ ThreadInv /\ ClientInv /\ ServerInv /\ fatal = 0 /\ retries = 0
         /\ Running => StatementInv /\ Packets \in Nat /\ (Turns \/ stmts[pos].kind = "oneway")
                       /\ (step < 3 => Awaited \in Asks)
         /\ ~Running => Idle
         /\ SocketNats(Client) /\ SocketNats(Server)
         /\ net["client"] \in Nat /\ net["server"] \in Nat
         /\ step \in {0, 1, 2, 3}
PROOF
  <1>1. ThreadInv /\ ClientInv /\ ServerInv /\ fatal = 0 /\ retries = 0
    BY DEF TcpFacts, TcpInv, ConfirmInv
  <1>2. Running => StatementInv /\ Packets \in Nat /\ (Turns \/ stmts[pos].kind = "oneway")
                   /\ (step < 3 => Awaited \in Asks)
    BY StatementIs DEF TcpFacts, TcpInv, Packets, Turns
  <1>3. ~Running => Idle
    BY DEF TcpFacts, TcpInv
  <1>4. \A s \in Sides : SocketNats(sk[s]) /\ net[s] \in Nat
    <2> SUFFICES ASSUME NEW s \in Sides PROVE SocketNats(sk[s]) /\ net[s] \in Nat
      OBVIOUS
    <2>1. sk[s] \in Sockets /\ net[s] \in Nat /\ sk[s].sentcnt <= sk[s].sendcnt
      BY DEF TcpFacts, TrafficTypes, SocketsOK
    <2> QED
      BY <2>1 DEF SocketNats, Sockets
  <1>5. "client" \in Sides /\ "server" \in Sides
    BY DEF Sides
  <1>6. step \in {0, 1, 2, 3}
    BY DEF TcpFacts, TrafficTypes, ThreadTypes
  <1> QED
    BY <1>1, <1>2, <1>3, <1>4, <1>5, <1>6 DEF Client, Server

\* Once the client is done, nothing is on its way to it; after a turnaround nothing is on its
\* way at all.
LEMMA DoneIsComplete ==
  ASSUME TcpFacts, Running, Started, ~AtWork(Client)
  PROVE  /\ net["client"] = 0 /\ Client.sentcnt = Packets
         /\ Turns => /\ net["server"] = 0 /\ Server.recvdcnt = Packets
                     /\ Server.sentcnt = Packets /\ Client.recvdcnt = Packets
PROOF
  <1>1. /\ ClientInv /\ Flow /\ SocketNats(Client) /\ SocketNats(Server) /\ Packets \in Nat
        /\ net["client"] \in Nat /\ net["server"] \in Nat
    BY TcpFactsAre DEF StatementInv
  <1>2. CASE Turns
    <2>1. Client.recvcnt = Packets /\ Client.recvdcnt >= Packets
      BY <1>1, <1>2 DEF Flow, ClientInv, AtWork, Answered, TcpFacts, SocketNats
    <2> QED
      BY <1>1, <1>2, <2>1 DEF Flow, SocketNats
  <1>3. CASE ~Turns
    BY <1>1, <1>3 DEF Flow, AtWork, Sends, SocketNats
  <1> QED
    BY <1>2, <1>3

\* The client works at step 1 only.
LEMMA WorksAtStepOne ==
  ASSUME TcpFacts
  PROVE  /\ AtWork(Client) => Running /\ step = 1 /\ waiting /\ Quiet
         /\ Client.timer => AtWork(Client) /\ Client.req = "snd"
         /\ net["client"] > 0 \/ net["server"] > 0 => Running /\ Started
         /\ net["client"] > 0 => step = 1 /\ Turns
PROOF
  <1>0. ClientInv /\ net["client"] \in Nat /\ net["server"] \in Nat /\ step \in {0, 1, 2, 3}
    BY TcpFactsAre
  <1>1. AtWork(Client) => Running /\ step = 1 /\ waiting /\ Quiet
    BY <1>0 DEF ClientInv
  <1>2. Client.timer => AtWork(Client) /\ Client.req = "snd"
    BY <1>0 DEF ClientInv, AtWork, TcpFacts
  <1>3. ASSUME net["client"] > 0 \/ net["server"] > 0 PROVE Running /\ Started
    <2>1. ~Idle
      BY <1>0, <1>3 DEF Idle
    <2>2. Running /\ StatementInv
      BY <2>1, TcpFactsAre
    <2>3. ~Received /\ ~(step = 0 /\ reply = <<>>)
      BY <2>1, <2>2 DEF StatementInv
    <2> QED
      BY <1>0, <2>2, <2>3 DEF Received, Started
  <1>4. ASSUME net["client"] > 0 PROVE step = 1 /\ Turns
    <2>1. Running /\ Started /\ AtWork(Client)
      BY <1>0, <1>3, <1>4, DoneIsComplete
    <2>2. Flow
      BY <2>1, TcpFactsAre DEF StatementInv
    <2> QED
      BY <1>0, <1>1, <1>4, <2>1, <2>2 DEF Flow
  <1> QED
    BY <1>1, <1>2, <1>3, <1>4

TcpInvNext == fatal' = 0 /\ retries' = 0 /\ (IF Running' THEN StatementInv' ELSE Idle')

LEMMA TcpSendsAll == proto = "TCP" => Outcomes = {"sent"}
PROOF
  BY DEF Outcomes

LEMMA ThreadRests ==
  ASSUME UNCHANGED threadVars
  PROVE  /\ Running' = Running /\ Packets' = Packets /\ Turns' = Turns /\ step' = step
         /\ waiting' = waiting /\ Awaited' = Awaited /\ stmts' = stmts /\ pos' = pos
         /\ proto' = proto
PROOF
  BY DEF threadVars, Running, Packets, Turns, Awaited

\* A request of the thread
LEMMA TcpRequestStep ==
  ASSUME TcpFacts, NEW side \in Sides, NEW o \in Outcomes, NEW w \in Works,
         HandlesRequest(side, o, w), UNCHANGED threadVars
  PROVE  TcpInvNext
PROOF
  <1>0. /\ ThreadInv /\ ClientInv /\ ServerInv /\ fatal = 0 /\ retries = 0
        /\ SocketNats(Client) /\ SocketNats(Server)
        /\ net["client"] \in Nat /\ net["server"] \in Nat /\ step \in {0, 1, 2, 3}
    BY TcpFactsAre
  <1>1. /\ Running /\ waiting /\ step < 3 /\ Head(ask) = Awaited /\ Tail(ask) = <<>>
        /\ reply = <<>> /\ ask # <<>> /\ ask' = <<>>
    BY <1>0, RequestIsAwaited DEF HandlesRequest, TcpFacts
  <1>2. /\ StatementInv /\ Packets \in Nat /\ (Turns \/ stmts[pos].kind = "oneway")
        /\ Awaited \in Asks
    BY <1>1, TcpFactsAre
  <1>3. /\ RequestMade(sk[side], Awaited, o, w) /\ side = Awaited.to /\ Worked(side, w, 0)
        /\ w.err = "none"
    <2>1. RequestMade(sk[side], Awaited, o, w) /\ side = Awaited.to /\ Worked(side, w, 0)
      BY <1>1 DEF HandlesRequest
    <2>2. o = "sent"
      BY TcpSendsAll DEF TcpFacts
    <2> QED
      BY <2>1, <2>2 DEF RequestMade
  <1>4. fatal' = 0 /\ retries' = 0
    BY <1>0, <1>3 DEF Worked
  <1>5. /\ Running' /\ Packets' = Packets /\ Turns' = Turns /\ step' = step /\ waiting'
    BY <1>1, ThreadRests
  <1>6. CASE step = 0
    <2>1. /\ side = "server" /\ Awaited.req = (IF Turns THEN "recvsnd" ELSE "recv")
          /\ Awaited.count = Packets /\ Idle
      BY <1>1, <1>2, <1>3, <1>6, AwaitedIs DEF StatementInv, Packets, Turns, TcpFacts
    <2>2. /\ w.k.req = Awaited.req /\ w.k.recvcnt = Packets /\ w.k.recvdcnt = 0
          /\ w.k.sentcnt = 0 /\ (Turns => w.k.sendcnt = Packets) /\ w.out = 0
      BY <1>3, <2>1 DEF RequestMade
    <2>3. Server' = w.k /\ Idle'
      BY <1>0, <1>3, <2>1, <2>2 DEF Worked, Server, Idle, Peer
    <2> QED
      BY <1>4, <1>5, <1>6, <2>1, <2>2, <2>3
      DEF TcpInvNext, StatementInv, Received, Started, Over, ServerReady
  <1>7. CASE step = 1
    <2>1. /\ side = "client" /\ Awaited.req = (IF Turns THEN "sndrecv" ELSE "snd")
          /\ Awaited.count = Packets /\ Received
      BY <1>1, <1>2, <1>3, <1>7, AwaitedIs DEF Received, Packets, Turns, TcpFacts
    <2>2. ServerReady /\ Idle /\ Server.recvdcnt = 0 /\ Server.sentcnt = 0
      BY <1>2, <2>1 DEF StatementInv
    <2>3. /\ w.k.req = Awaited.req /\ w.k.sendcnt = Packets /\ w.k.recvdcnt = 0
          /\ w.out = w.k.sentcnt /\ w.k.sentcnt \in Nat
      BY <1>3, <2>1 DEF RequestMade, Works, Sockets
    <2>4. /\ Client' = w.k /\ Server' = Server /\ net'["client"] = 0
          /\ net'["server"] = w.k.sentcnt
      BY <1>0, <1>3, <2>1, <2>2, <2>3 DEF Worked, Client, Server, Peer, Idle
    <2>5. ServerReady' /\ Flow'
      BY <1>5, <2>1, <2>2, <2>3, <2>4 DEF ServerReady, Flow
    <2>6. ~Received' /\ ~Over' /\ step' # 0
      BY <1>1, <1>5, <1>7 DEF Received, Over
    <2> QED
      BY <1>4, <1>5, <2>5, <2>6 DEF TcpInvNext, StatementInv
  <1>8. CASE step = 2
    <2>1. side = "server" /\ Awaited.req = "recveffect" /\ Started
      BY <1>1, <1>3, <1>8, AwaitedIs DEF Started, TcpFacts
    <2>2. ServerReady /\ Flow
      BY <1>2, <2>1 DEF StatementInv
    <2>3. /\ SameRequest(w.k, Server) /\ w.k.sentcnt = Server.sentcnt /\ w.out = 0
          /\ w.rep # <<>> => Server.recvcnt = Server.recvdcnt
      BY <1>3, <2>1 DEF RequestMade, Server, TcpFacts
    <2>4. /\ Server' = w.k /\ Client' = Client /\ net'["client"] = net["client"]
          /\ net'["server"] = net["server"] /\ (w.rep = <<>> => reply' = <<>>)
      BY <1>0, <1>1, <1>3, <2>1, <2>3 DEF Worked, Client, Server, Peer
    <2>5. ServerReady' /\ Flow'
      BY <1>5, <2>2, <2>3, <2>4 DEF ServerReady, Flow, SameRequest
    <2>6. Over' => Server'.recvdcnt = Packets'
      BY <1>5, <1>8, <2>2, <2>3, <2>4 DEF Over, ServerReady, SameRequest
    <2>7. ~Received' /\ step' # 0
      BY <1>5, <1>8 DEF Received
    <2> QED
      BY <1>4, <1>5, <2>5, <2>6, <2>7 DEF TcpInvNext, StatementInv
  <1> QED
    BY <1>0, <1>1, <1>6, <1>7, <1>8

\* The client gets a packet, or its timer says that it is time for the next one.
LEMMA TcpClientStep ==
  ASSUME TcpFacts, PacketsToAnswer, NEW o \in Outcomes, NEW k \in Sockets, NEW w \in Works,
         NEW taken \in {0, 1}, UNCHANGED threadVars,
         \/ HandlesPacket("client", o, k, w, taken)
         \/ HandlesTimeout("client", o, k, w) /\ taken = 0
  PROVE  TcpInvNext
PROOF
  <1>0. /\ ClientInv /\ fatal = 0 /\ retries = 0 /\ SocketNats(Client) /\ SocketNats(Server)
        /\ net["client"] \in Nat /\ net["server"] \in Nat /\ "client" \in Sides
    BY TcpFactsAre DEF Sides
  <1>1. Running /\ Started /\ step = 1 /\ waiting
    <2>1. Client.timer \/ net["client"] > 0
      BY DEF HandlesPacket, HandlesTimeout, Client
    <2>2. Running /\ Started /\ step = 1
      <3>1. CASE net["client"] > 0
        BY <3>1, WorksAtStepOne
      <3>2. CASE Client.timer
        <4>1. AtWork(Client) /\ Running /\ step = 1 /\ waiting /\ Quiet
          BY <3>2, WorksAtStepOne
        <4> QED
          BY <4>1 DEF Started, Quiet
      <3> QED
        BY <2>1, <3>1, <3>2
    <2> QED
      BY <2>2 DEF Started
  <1>2. StatementInv /\ Packets \in Nat /\ ServerReady /\ Flow
    BY <1>1, TcpFactsAre DEF StatementInv
  <1>3. /\ PacketCounted(k, o, w) /\ Worked("client", w, taken) /\ UNCHANGED ask
        /\ w.err = "none"
    <2>1. o = "sent"
      BY TcpSendsAll DEF TcpFacts
    <2> QED
      BY <2>1 DEF HandlesPacket, HandlesTimeout, PacketCounted
  <1>4. /\ k.req = Client.req /\ k.sendcnt = Client.sendcnt /\ k.sentcnt = Client.sentcnt
        /\ k.recvdcnt = Client.recvdcnt + taken
    <2>1. Client \in Sockets
      BY <1>0 DEF SocketNats
    <2>2. Client.recvdcnt \in Nat /\ Client = sk["client"]
      BY <1>0 DEF SocketNats, Client
    <2>3. CASE HandlesPacket("client", o, k, w, taken)
      BY <2>1, <2>2, <2>3 DEF HandlesPacket, Sockets
    <2>4. CASE HandlesTimeout("client", o, k, w) /\ taken = 0
      BY <2>1, <2>2, <2>4 DEF HandlesTimeout, Sockets
    <2> QED
      BY <2>3, <2>4
  <1>5. /\ w.k.req = k.req /\ w.k.sendcnt = k.sendcnt /\ w.k.recvdcnt = k.recvdcnt
        /\ w.out = w.k.sentcnt - k.sentcnt /\ w.k.sentcnt \in Nat
    BY <1>3 DEF PacketCounted, SameRequest, Works, Sockets
  <1>6. /\ Client' = w.k /\ Server' = Server /\ net'["client"] = net["client"] - taken
        /\ net'["server"] = net["server"] + w.out /\ fatal' = 0 /\ retries' = 0
    BY <1>0, <1>3 DEF Worked, Client, Server, Peer
  <1>7. /\ Running' /\ Packets' = Packets /\ Turns' = Turns /\ step' = 1 /\ waiting'
        /\ Started' /\ ~Received' /\ ~Over'
    BY <1>1, <1>3, ThreadRests DEF Started, Received, Over
  <1>8. ServerReady'
    BY <1>2, <1>6, <1>7 DEF ServerReady
  <1>9. ~Turns => taken = 0
    <2>1. CASE net["client"] > 0
      BY <2>1, WorksAtStepOne
    <2>2. CASE net["client"] = 0
      BY <2>2 DEF HandlesPacket
    <2> QED
      BY <1>0, <2>1, <2>2
  <1>10. Flow'
    <2>1. /\ Client'.req = Client.req /\ Client'.sendcnt = Client.sendcnt
          /\ Client'.recvdcnt = Client.recvdcnt + taken
          /\ net'["server"] = net["server"] + (Client'.sentcnt - Client.sentcnt)
      BY <1>4, <1>5, <1>6
    <2>2. net'["server"] + Server.recvdcnt = Client'.sentcnt
      BY <1>0, <1>2, <1>5, <1>6, <2>1 DEF Flow, SocketNats
    <2>3. Turns => net'["client"] + Client'.recvdcnt = Server.sentcnt
      BY <1>0, <1>2, <1>6, <2>1 DEF Flow, SocketNats
    <2>4. ~Turns => net'["client"] = 0
      BY <1>0, <1>2, <1>6, <1>9 DEF Flow
    <2> QED
      BY <1>2, <1>6, <1>7, <2>1, <2>2, <2>3, <2>4 DEF Flow
  <1> QED
    BY <1>6, <1>7, <1>8, <1>10 DEF TcpInvNext, StatementInv

\* The server gets a packet and, in a turnaround, sends one back.
LEMMA TcpServerStep ==
  ASSUME TcpFacts, NEW o \in Outcomes, NEW k \in Sockets, NEW w \in Works,
         NEW taken \in {0, 1}, UNCHANGED threadVars,
         HandlesPacket("server", o, k, w, taken)
  PROVE  TcpInvNext
PROOF
  <1>0. /\ ServerInv /\ fatal = 0 /\ retries = 0 /\ SocketNats(Client) /\ SocketNats(Server)
        /\ net["client"] \in Nat /\ net["server"] \in Nat /\ net["server"] > 0
        /\ step \in {0, 1, 2, 3}
    BY TcpFactsAre DEF HandlesPacket
  <1>1. Running /\ Started
    BY <1>0, WorksAtStepOne
  <1>2. StatementInv /\ Packets \in Nat /\ ServerReady /\ Flow
    BY <1>1, TcpFactsAre DEF StatementInv
  <1>3. Server.recvdcnt < Packets /\ taken = 1
    <2>1. Server.recvdcnt < Packets
      BY <1>0, <1>2 DEF Flow, SocketNats
    <2>2. Server.recvcnt # 0
      BY <1>0, <1>2, <2>1 DEF ServerReady, SocketNats
    <2> QED
      BY <2>1, <2>2 DEF HandlesPacket, Server
  <1>4. /\ PacketCounted(k, o, w) /\ Worked("server", w, 1) /\ UNCHANGED ask
        /\ w.err = "none"
    <2>1. o = "sent"
      BY TcpSendsAll DEF TcpFacts
    <2> QED
      BY <1>3, <2>1 DEF HandlesPacket, PacketCounted
  <1>5. /\ k.req = Server.req /\ k.sendcnt = Server.sendcnt /\ k.sentcnt = Server.sentcnt
        /\ k.recvdcnt = Server.recvdcnt + 1 /\ k.recvcnt = Server.recvcnt
    <2>1. Server \in Sockets
      BY <1>0 DEF SocketNats
    <2> QED
      BY <1>3, <2>1 DEF HandlesPacket, Server, Sockets
  <1>6. SendsNext(k) <=> Turns
    BY <1>0, <1>2, <1>3, <1>5 DEF SendsNext, Sends, ServerReady, Flow, SocketNats
  <1>7. /\ w.k.req = k.req /\ w.k.sendcnt = k.sendcnt /\ w.k.recvcnt = k.recvcnt
        /\ w.k.recvdcnt = k.recvdcnt
        /\ w.k.sentcnt = IF Turns THEN Server.sentcnt + 1 ELSE Server.sentcnt
        /\ w.out = IF Turns THEN 1 ELSE 0
    BY <1>0, <1>4, <1>5, <1>6 DEF PacketCounted, SameRequest, SocketNats
  <1>8. /\ Server' = w.k /\ Client' = Client /\ net'["server"] = net["server"] - 1
        /\ net'["client"] = net["client"] + w.out /\ fatal' = 0 /\ retries' = 0
        /\ w.rep = <<>> => reply' = reply
    BY <1>0, <1>4 DEF Worked, Client, Server, Peer
  <1>9. /\ Running' /\ Packets' = Packets /\ Turns' = Turns /\ step' = step
        /\ waiting' = waiting /\ Started' /\ ~Received'
    BY <1>1, <1>4, ThreadRests DEF Started, Received
  <1>10. ServerReady'
    BY <1>2, <1>5, <1>7, <1>8, <1>9 DEF ServerReady
  <1>11. Flow'
    <2>1. /\ Server'.recvdcnt = Server.recvdcnt + 1 /\ Client' = Client
          /\ net'["server"] = net["server"] - 1
          /\ Turns => /\ Server'.sentcnt = Server.sentcnt + 1
                      /\ net'["client"] = net["client"] + 1
          /\ ~Turns => net'["client"] = net["client"]
      BY <1>0, <1>5, <1>7, <1>8
    <2>2. net'["server"] + Server'.recvdcnt = Client'.sentcnt
      BY <1>0, <1>2, <2>1 DEF Flow, SocketNats
    <2>3. Turns => /\ net'["client"] + Client'.recvdcnt = Server'.sentcnt
                   /\ Server'.sentcnt = Server'.recvdcnt
      BY <1>0, <1>2, <2>1 DEF Flow, SocketNats
    <2>4. ~Turns => net'["client"] = 0
      BY <1>2, <2>1 DEF Flow
    <2> QED
      BY <1>2, <1>9, <2>1, <2>2, <2>3, <2>4 DEF Flow
  <1>12. Over' => Server'.recvdcnt = Packets
    <2>1. ~Over
      BY <1>2, <1>3 DEF StatementInv
    <2>2. ASSUME Over' PROVE w.rep # <<>>
      BY <1>8, <1>9, <2>1, <2>2 DEF Over
    <2>3. w.rep # <<>> => k.recvdcnt = k.recvcnt
      <3>1. w.rep = ReceiveReports(k, w.k) /\ k.req \in {"recv", "recvsnd"}
        BY <1>2, <1>4, <1>5 DEF PacketCounted, ServerReady
      <3> QED
        BY <3>1 DEF ReceiveReports, AllAnswered, Answered, TcpFacts
    <2> QED
      BY <1>2, <1>5, <1>7, <1>8, <2>2, <2>3 DEF ServerReady
  <1>13. step' # 0
    BY <1>1, <1>9 DEF Started
  <1> QED
    BY <1>8, <1>9, <1>10, <1>11, <1>12, <1>13 DEF TcpInvNext, StatementInv

\* The thread asks, ends a statement or goes on.
LEMMA TcpThreadStep ==
  ASSUME TcpFacts, ThreadNext
  PROVE  TcpInvNext
PROOF
  <1>0. /\ UNCHANGED <<proto, stmts, sk, net, lost, retries, fatal>>
        /\ ThreadInv /\ ClientInv /\ fatal = 0 /\ retries = 0 /\ step \in {0, 1, 2, 3}
        /\ Client' = Client /\ Server' = Server /\ (Idle' <=> Idle)
    BY TcpFactsAre DEF ThreadNext, doStep, StatementEnds, recvConfirm, Client, Server, Idle
  <1>1. Running
    BY <1>0 DEF ThreadNext, doStep, StatementEnds, recvConfirm, ThreadInv, Quiet
  <1>2. StatementInv /\ Packets \in Nat
    BY <1>1, TcpFactsAre
  <1>3. ASSUME pos' = pos
        PROVE  /\ Running' /\ Packets' = Packets /\ Turns' = Turns
               /\ (ServerReady' <=> ServerReady) /\ (Flow' <=> Flow)
    BY <1>0, <1>1, <1>3 DEF Running, Packets, Turns, ServerReady, Flow
  <1>4. CASE doStep
    <2>1. /\ ~waiting /\ Quiet /\ waiting' /\ ask' = Append(ask, Awaited) /\ step < 3
          /\ UNCHANGED <<pos, step, reply>>
      BY <1>0, <1>4 DEF doStep, ThreadInv
    <2>2. ask' # <<>> /\ reply' = <<>>
      BY <2>1 DEF Quiet
    <2>3. (Received' => Received) /\ (Started' => Started) /\ ~Over'
      BY <1>0, <2>1, <2>2 DEF Received, Started, Over
    <2> QED
      BY <1>0, <1>2, <1>3, <2>1, <2>2, <2>3 DEF TcpInvNext, StatementInv, Quiet
  <1>5. CASE StatementEnds
    <2>1. step = 3 /\ Quiet /\ step' = 0 /\ reply' = <<>>
      BY <1>0, <1>5 DEF StatementEnds, ThreadInv, Quiet
    <2>2. Started /\ Over /\ ~AtWork(Client)
      BY <2>1, WorksAtStepOne DEF Started, Over
    <2>3. Idle
      BY <1>0, <1>1, <1>2, <2>2, DoneIsComplete, TcpFactsAre
      DEF StatementInv, Flow, Idle, SocketNats
    <2>4. ~Received' /\ ~Started' /\ ~Over'
      BY <2>1 DEF Received, Started, Over
    <2> QED
      BY <1>0, <2>3, <2>4 DEF TcpInvNext, StatementInv
  <1>6. CASE recvConfirm
    <2>1. waiting /\ ask = <<>> /\ reply = <<TheConfirm>> /\ step < 3
      BY <1>0, <1>6 DEF recvConfirm, ThreadInv, Quiet, TcpFacts, TrafficTypes, ThreadTypes
    <2>2. Head(reply) = TheConfirm /\ reply' = <<>> /\ reply # <<>> /\ UNCHANGED ask
      BY <1>6, <2>1 DEF recvConfirm
    <2>3. Matches(TheConfirm) /\ TheConfirm.res = "ok"
      BY <1>1, <2>1 DEF Matches, TheConfirm
    <2>4. ~waiting' /\ pos' = pos /\ step' = step + 1
      BY <1>6, <2>2, <2>3 DEF recvConfirm
    <2>5. (Received' => Received) /\ (Started' => Started) /\ (Over' => Over)
      BY <1>0, <2>1, <2>2, <2>4 DEF Received, Started, Over
    <2>6. step' # 0
      BY <1>0, <2>4
    <2> QED
      BY <1>0, <1>2, <1>3, <2>4, <2>5, <2>6 DEF TcpInvNext, StatementInv
  <1> QED
    BY <1>4, <1>5, <1>6 DEF ThreadNext

LEMMA TcpStep ==
  ASSUME PacketsToAnswer
  PROVE  TrafficTypes /\ ConfirmInv /\ TcpInv /\ [TrafficNext]_trafficVars => TcpInv'
PROOF
  <1> SUFFICES ASSUME TrafficTypes, ConfirmInv, TcpInv, [TrafficNext]_trafficVars,
                      proto' = "TCP"
               PROVE  TcpInvNext
    BY DEF TcpInv, TcpInvNext
  <1>0. proto = "TCP"
    <2>1. proto' = proto
      BY DEF TrafficNext, AgentNext, AgentRequest, receivePacket, timeup, ThreadNext, doStep,
         StatementEnds, recvConfirm, Lose, trafficVars
    <2> QED
      BY <2>1
  <1>1. TcpFacts
    BY <1>0 DEF TcpFacts
  <1>2. CASE AgentNext
    <2>1. AgentActs /\ UNCHANGED threadVars
      BY <1>2, AgentDoes
    <2>2. \A side \in Sides, o \in Outcomes, w \in Works :
            HandlesRequest(side, o, w) => TcpInvNext
      BY <1>1, <2>1, TcpRequestStep
    <2>3. \A side \in Sides, o \in Outcomes, k \in Sockets, w \in Works, taken \in {0, 1} :
            HandlesPacket(side, o, k, w, taken) => TcpInvNext
      BY <1>1, <2>1, TcpClientStep, TcpServerStep DEF Sides
    <2>4. \A side \in Sides, o \in Outcomes, k \in Sockets, w \in Works :
            HandlesTimeout(side, o, k, w) => TcpInvNext
      <3>1. ~Server.timer
        BY <1>1, TcpFactsAre DEF ServerInv
      <3>2. \A o \in Outcomes, k \in Sockets, w \in Works : ~HandlesTimeout("server", o, k, w)
        BY <3>1 DEF HandlesTimeout, Server
      <3>3. \A o \in Outcomes, k \in Sockets, w \in Works :
              HandlesTimeout("client", o, k, w) => TcpInvNext
        BY <1>1, <2>1, TcpClientStep
      <3> QED
        BY <3>2, <3>3 DEF Sides
    <2> QED
      BY <2>1, <2>2, <2>3, <2>4 DEF AgentActs
  <1>3. CASE ThreadNext
    BY <1>1, <1>3, TcpThreadStep
  <1>4. CASE UNCHANGED trafficVars
    <2>1. /\ Client' = Client /\ Server' = Server /\ Running' = Running /\ Packets' = Packets
          /\ Turns' = Turns /\ (Idle' <=> Idle) /\ (Received' <=> Received)
          /\ (Started' <=> Started) /\ (Over' <=> Over)
      BY <1>4 DEF trafficVars, Client, Server, Running, Packets, Turns, Idle, Received, Started,
         Over
    <2>2. StatementInv' <=> StatementInv
      BY <1>4, <2>1 DEF trafficVars, StatementInv, ServerReady, Flow
    <2> QED
      BY <1>0, <1>4, <2>1, <2>2 DEF TcpInv, TcpInvNext, trafficVars
  <1>5. ~\E s \in Sides : Lose(s)
    BY <1>0 DEF Lose
  <1> QED
    BY <1>2, <1>3, <1>4, <1>5 DEF TrafficNext

\* When a TCP statement is over its whole traffic took place, and nothing is left in the
\* connection that the next statement would count, however many packets it has.
THEOREM TcpTrafficCompleteHolds ==
  ASSUME PacketsToAnswer
  PROVE  TrafficSpec => []TcpTrafficComplete
PROOF
  <1>1. TrafficInit => TcpInv
    BY DEF TrafficInit, TcpInv, StatementInv, Received, Started, Over, Idle, Sides
  <1>2. TrafficSpec => []TcpInv
    BY <1>1, TcpStep, TypesInvariance, ConfirmInvariance, PTL DEF TrafficSpec
  <1>3. TrafficTypes /\ ConfirmInv /\ TcpInv => TcpTrafficComplete
    <2> SUFFICES ASSUME TrafficTypes, ConfirmInv, TcpInv, proto = "TCP", Running, step = 3
                 PROVE  /\ net["client"] = 0 /\ net["server"] = 0
                        /\ Client.sentcnt = Packets /\ Server.recvdcnt = Packets
                        /\ Turns => Server.sentcnt = Packets /\ Client.recvdcnt = Packets
      BY DEF TcpTrafficComplete, Client, Server, Packets, Turns
    <2>1. TcpFacts
      BY DEF TcpFacts
    <2>2. Started /\ Over /\ ~AtWork(Client)
      BY <2>1, WorksAtStepOne DEF Started, Over
    <2>3. StatementInv /\ net["server"] \in Nat /\ Packets \in Nat
      BY <2>1, TcpFactsAre
    <2> QED
      BY <2>1, <2>2, <2>3, DoneIsComplete DEF StatementInv, Flow
  <1> QED
    BY <1>2, <1>3, TypesInvariance, ConfirmInvariance, PTL
=============================================================================
