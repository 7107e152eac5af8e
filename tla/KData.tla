-------------------------------- MODULE KData --------------------------------
(***************************************************************************)
(* The message store of koid, lib/kData: what was received, until a RECV   *)
(* request reads it, and what was sent, for DATAINFO requests.             *)
(*                                                                         *)
(* The store is a linked list with a pointer to its last node.  kDataClear *)
(* unlinks nodes and leaves that pointer alone: once the last node has     *)
(* been cleared and others remain, new nodes are chained to freed memory,  *)
(* out of reach of the list.  msgLinked is whether g_msg_last_ptr still is *)
(* the end of the list.                                                    *)
(***************************************************************************)
EXTENDS KSocket, SequencesExt

CONSTANTS MSG_MAXMSGNUM,    \* 0x7fffffff in kData.h
          Bodies            \* the payloads of messages

ASSUME DataAssumption == MSG_MAXMSGNUM \in Nat

VARIABLES msgs,         \* the list from g_msg_start_ptr
          msgLinked,    \* g_msg_last_ptr is the list's last node
          msgId         \* g_msg_dataid

dataVars == <<msgs, msgLinked, msgId>>

DataInit == msgs = <<>> /\ msgLinked = TRUE /\ msgId = 0

\* The message is stored: kDataRegist returns RETURN_OK
Registrable(sid) ==
  LET i == kSocketGetSIBySocketId(sid)
  IN  /\ msgId # MSG_MAXMSGNUM
      /\ i # 0
      /\ sock[i].type \in {"UDP", "DATA", "RAW"}

NewMsg(sid, mode, body) ==
  [dataid |-> msgId + 1, sid |-> sid, mode |-> mode, read |-> FALSE, body |-> body]

\* The new node is chained to g_msg_last_ptr
Store(sid, mode, body) ==
  /\ msgs' = IF msgs = <<>> THEN <<NewMsg(sid, mode, body)>>
             ELSE IF msgLinked THEN Append(msgs, NewMsg(sid, mode, body)) ELSE msgs
  /\ msgLinked' = (msgs = <<>> \/ msgLinked)
  /\ msgId' = msgId + 1

kDataRegist(sid, mode, body) ==
  IF Registrable(sid) THEN Store(sid, mode, body) ELSE UNCHANGED dataVars

kDataInit == msgs' = <<>> /\ msgLinked' = TRUE /\ msgId' = 0

\* kDataClear with at least one flag set: the messages of socket sid, or message
\* dataid, go; 0 stands for an unset flag.
kDataClear(sid, dataid) ==
  LET Kept(m) == m.sid # sid /\ m.dataid # dataid
  IN  /\ msgs' = SelectSeq(msgs, Kept)
      /\ msgLinked' = IF msgs = <<>> THEN msgLinked ELSE msgLinked /\ Kept(Last(msgs))
      /\ UNCHANGED msgId

-----------------------------------------------------------------------------
\* kDataGetDataBySocketid: the position of the message it returns, NoData, or Invalid.
\* An empty store is looked at before the id is.
NoData == 0
Invalid == -1

Unread == {k \in DOMAIN msgs : msgs[k].mode = "RECV" /\ ~msgs[k].read}

\* What a RECV request on socket sid may be given
Wanted(sid) ==
  LET i == kSocketGetSIBySocketId(sid)
      LiveChild(k) == LET j == kSocketGetSIBySocketId(msgs[k].sid)
                      IN  /\ j # 0 /\ IsAlive(j)
                          /\ sock[j].type \in {"DATA", "UDP"}
                          /\ sock[j].parent = sid
  IN  IF sid = 0 THEN Unread
      ELSE IF sock[i].type \in {"UDP", "DATA", "RAW"} THEN {k \in Unread : msgs[k].sid = sid}
      ELSE {k \in Unread : LiveChild(k)}

\* Mutant: any unread message will do
DataForAny(sid) == IF Unread = {} THEN NoData ELSE Min(Unread)

\* Mutant: the newest message is returned
DataForNewest(sid) ==
  LET w == IF kSocketGetSIBySocketId(sid) = 0 THEN {} ELSE Wanted(sid)
  IN  IF w = {} THEN NoData ELSE Max(w)

DataFor(sid) ==
  LET i == kSocketGetSIBySocketId(sid)
      w == Wanted(sid)
  IN  IF msgs = <<>> THEN NoData
      ELSE IF sid < 0 \/ (sid > 0 /\ (i = 0 \/ sock[i].type \in UnixTypes)) THEN Invalid
      ELSE IF w = {} THEN NoData ELSE Min(w)

\* The state change of kDataGetDataBySocketid when it returns message k
MarkRead(k) ==
  /\ msgs' = [msgs EXCEPT ![k].read = TRUE]
  /\ UNCHANGED <<msgLinked, msgId>>

\* Stored messages have ids kDataRegist hands out and bodies peers send.
DataTypeOK ==
  /\ msgs \in Seq([dataid : 1..MSG_MAXMSGNUM, sid : Int, mode : {"SEND", "RECV"},
                   read : BOOLEAN, body : Bodies])
  /\ msgLinked \in BOOLEAN
  /\ msgId \in 0..MSG_MAXMSGNUM
=============================================================================
