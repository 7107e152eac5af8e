----------------------------- MODULE KRecvTimer -----------------------------
(***************************************************************************)
(* The receive timers of koid, lib/kRecvTimeoutTimer: the RECV requests    *)
(* that found no message and wait for one, each with the descriptor of the *)
(* client to answer and a deadline, kept as the time left to it.           *)
(*                                                                         *)
(* The table is a linked list with a pointer to its last node, which       *)
(* kRecvTimerRemove moves to the node before the one it unlinks.  rtLast   *)
(* is the position of the node it points at, 0 when that node is not part  *)
(* of the list any more.  A node appended behind an earlier node cuts off  *)
(* what followed it; one chained to a freed node is never found.           *)
(***************************************************************************)
EXTENDS KData

CONSTANT Timeouts       \* the timeouts, in seconds, RECV requests carry

ASSUME RecvTimerAssumption == Timeouts \subseteq Nat

VARIABLES rt,       \* the list from g_rt_start_ptr
          rtLast,   \* where g_rt_last_ptr points
          rtNum,    \* g_rt_num
          rtPos     \* the entry kRecvTimerProc looks at, 0 while it does not run

rtVars == <<rt, rtLast, rtNum, rtPos>>

RTInit == rt = <<>> /\ rtLast = 0 /\ rtNum = 0 /\ rtPos = 0

\* kRecvTimerInit: an empty list is left as it is, the counter included
kRecvTimerInit ==
  /\ rt' = <<>>
  /\ rtLast' = 0
  /\ rtNum' = IF rt = <<>> THEN rtNum ELSE 0
  /\ UNCHANGED rtPos

\* kRecvTimerSet returns RETURN_OK exactly when this holds
RecvTimerAccepted(sid) ==
  /\ sid >= 0
  /\ rtNum # sockId
  /\ \A k \in DOMAIN rt : rt[k].sid # sid

kRecvTimerSet(fd, sid, sec) ==
  /\ IF RecvTimerAccepted(sid)
       THEN LET e == [fd |-> fd, sid |-> sid, left |-> sec]
            IN  /\ rt' = IF rt = <<>> THEN <<e>>
                         ELSE IF rtLast = 0 THEN rt
                         ELSE Append(SubSeq(rt, 1, rtLast), e)
                /\ rtLast' = IF rt = <<>> THEN 1 ELSE IF rtLast = 0 THEN 0 ELSE rtLast + 1
                /\ rtNum' = rtNum + 1
       ELSE UNCHANGED <<rt, rtLast, rtNum>>
  /\ UNCHANGED rtPos

\* kRecvTimerRemove of the entry at k
kRecvTimerRemove(k) ==
  /\ rt' = RemoveAt(rt, k)
  /\ rtLast' = IF k > 1 THEN k - 1 ELSE IF rtLast > 1 THEN rtLast - 1 ELSE 0
  /\ rtNum' = rtNum - 1

-----------------------------------------------------------------------------
(* kRecvTimerProc: one step per entry of the list.  After an entry is removed the loop
   reads its rt_next from freed memory: it goes on with the entry that followed, or
   stops (stops is TRUE). *)

RecvProcBegins == rtPos = 0 /\ rtPos' = 1 /\ UNCHANGED <<rt, rtLast, rtNum>>

RecvProcEnds ==
  /\ rtPos # 0
  /\ rtNum = 0 \/ rtPos > Len(rt)
  /\ rtPos' = 0
  /\ UNCHANGED <<rt, rtLast, rtNum>>

AtEntry == rtPos \in DOMAIN rt /\ rtNum # 0

\* Mutant: an entry that was answered stays
LeaveKeeps(stops) == rtPos' = rtPos + 1 /\ UNCHANGED <<rt, rtLast, rtNum>>

Leave(stops) ==
  /\ kRecvTimerRemove(rtPos)
  /\ rtPos' = IF stops THEN Len(rt) + 1 ELSE rtPos

\* The lookup fails: the entry goes without an answer
RecvInvalid(stops) ==
  /\ AtEntry
  /\ DataFor(rt[rtPos].sid) = Invalid
  /\ Leave(stops)
  /\ UNCHANGED dataVars

RecvStillWaiting ==
  /\ AtEntry
  /\ DataFor(rt[rtPos].sid) = NoData
  /\ rt[rtPos].left > 0
  /\ rtPos' = rtPos + 1
  /\ UNCHANGED <<rt, rtLast, rtNum, dataVars>>

\* CM_RESULT_SIG_NG_TIMEOUT; the caller conjoins the answer
RecvTimedOut(stops) ==
  /\ AtEntry
  /\ DataFor(rt[rtPos].sid) = NoData
  /\ rt[rtPos].left = 0
  /\ Leave(stops)
  /\ UNCHANGED dataVars

\* A message has come in; the caller conjoins the answer
RecvArrived(stops) ==
  /\ AtEntry
  /\ DataFor(rt[rtPos].sid) > 0
  /\ MarkRead(DataFor(rt[rtPos].sid))
  /\ Leave(stops)

\* One second passes
RecvTick ==
  /\ rt' = [k \in DOMAIN rt |-> [rt[k] EXCEPT !.left = IF @ > 0 THEN @ - 1 ELSE 0]]
  /\ UNCHANGED <<rtLast, rtNum, rtPos>>

-----------------------------------------------------------------------------
(* The timers alone, on a table of live UDP sockets: RECV requests that found nothing,
   messages coming in between two runs of kRecvTimerProc, and the clock. *)

RTSockets == {sock[i].id : i \in {j \in DOMAIN sock : sock[j].type = "UDP"}}

RTSysInit ==
  LET fd == Min(Fds)
      client == Info(2, "UNIX_DATA", fd, 0, 0, 0, 0, 0)
      udp(id) == Info(id, "UDP", BadFd, 0, 0, 0, 0, 0)
  IN  /\ sock = [i \in 1..MaxEntries |-> IF i = 1 THEN Info(1, "UNIX", BadFd, 0, 0, 0, 0, 0)
                                         ELSE IF i = 2 THEN client ELSE udp(i)]
      /\ sockId = MaxEntries
      /\ readfds = {fd} /\ openFds = {fd}
      /\ ret = Ng("INIT")
      /\ DataInit /\ RTInit

RecvRequest ==
  /\ rtPos = 0
  /\ \E sid \in RTSockets, sec \in Timeouts :
       DataFor(sid) = NoData /\ kRecvTimerSet(Min(Fds), sid, sec)
  /\ UNCHANGED dataVars

MessageComes ==
  /\ rtPos = 0
  /\ \E sid \in RTSockets, body \in Bodies : kDataRegist(sid, "RECV", body)
  /\ UNCHANGED rtVars

kRecvTimerProc ==
  \/ RecvProcBegins /\ UNCHANGED dataVars
  \/ RecvProcEnds /\ UNCHANGED dataVars
  \/ RecvStillWaiting
  \/ \E stops \in BOOLEAN : RecvTimedOut(stops) \/ RecvArrived(stops)

RTClock == RecvTick /\ UNCHANGED dataVars

RTSysNext ==
  /\ RecvRequest \/ MessageComes \/ kRecvTimerProc \/ RTClock
  /\ UNCHANGED sockVars

\* The main loop calls kRecvTimerProc on every turn, and time passes.
RTSysVars == <<sockVars, dataVars, rtVars>>
RTSysSpec == /\ RTSysInit /\ [][RTSysNext]_RTSysVars
             /\ WF_RTSysVars(kRecvTimerProc /\ UNCHANGED sockVars)
             /\ WF_RTSysVars(RTClock /\ UNCHANGED sockVars)

-----------------------------------------------------------------------------
\* g_rt_last_ptr, once it is a position, is one of the list that kRecvTimerRemove leaves.
RTTypeOK ==
  /\ rt \in Seq([fd : Fds \cup {BadFd}, sid : Int, left : Nat])
  /\ rtLast \in 0..Len(rt)
  /\ rtNum \in Nat
  /\ rtPos \in Nat

\* g_rt_num, "this table number", is the number of requests that wait in the list: one
\* counted but cut off from the list is never answered.
CountsWaiting == rtNum = Len(rt)
=============================================================================
