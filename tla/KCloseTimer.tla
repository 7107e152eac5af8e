----------------------------- MODULE KCloseTimer -----------------------------
(***************************************************************************)
(* The socket close timer of koid, lib/kSocketCloseTimer: a table of       *)
(* T_SCT_MAXNUM slots, each vacant or holding a socket id and the time at  *)
(* which that socket is to be closed.  A CLOSE request and the end of a    *)
(* TCP stream enter an id with kCloseTimerSet; kCloseTimerProc, called on  *)
(* every turn of the main loop, closes what has expired; the departure of  *)
(* a client empties the table with kCloseTimerInit.                        *)
(*                                                                         *)
(* A deadline is kept as the time left to it, so the clock needs no        *)
(* variable.  kCloseTimerProc reads the clock once, before its loop: the   *)
(* slots it finds due are the variable due, and the clock may run on while *)
(* the loop works through them.                                            *)
(***************************************************************************)
EXTENDS Integers, FiniteSets, FiniteSetsExt

CONSTANTS T_SCT_MAXNUM,     \* slots of the table (16 in koi.h)
          SocketIds,        \* the socket ids callers pass
          MaxSec            \* bound: the longest delay a caller asks for

ASSUME CloseTimerAssumption ==
  /\ T_SCT_MAXNUM \in Nat \ {0}
  /\ SocketIds \subseteq Int
  /\ MaxSec \in Nat

VARIABLES sct,        \* g_t_socket_close_table
          sctNum,     \* g_t_current_socket_close_table_num
          due         \* the slots the running kCloseTimerProc has still to close

ctVars == <<sct, sctNum, due>>

T_SCT_INIT == -1

Slots == 1..T_SCT_MAXNUM

Vacant == [sct_socketid |-> T_SCT_INIT, left |-> 0]

Used(t) == {s \in Slots : t[s].sct_socketid # T_SCT_INIT}

SlotsOf(t, id) == {s \in Slots : t[s].sct_socketid = id}

Registered(id) == SlotsOf(sct, id) # {}

\* Mutant: deadlines are not looked at
ExpiredAtOnce == Used(sct)

Expired == {s \in Used(sct) : sct[s].left = 0}

-----------------------------------------------------------------------------
CTInit ==
  /\ sct = [s \in Slots |-> Vacant]
  /\ sctNum = 0
  /\ due = {}

\* kCloseTimerInit while the daemon runs: a client has gone away
kCloseTimerInit ==
  /\ due = {}
  /\ sct' = [s \in Slots |-> Vacant]
  /\ sctNum' = 0
  /\ UNCHANGED due

\* kCloseTimerSet returns RETURN_OK exactly when this holds
SetAccepted(id) ==
  /\ id >= 0
  /\ sctNum # T_SCT_MAXNUM
  /\ ~Registered(id)
  /\ SlotsOf(sct, T_SCT_INIT) # {}

kCloseTimerSet(id, sec) ==
  /\ due = {}
  /\ IF SetAccepted(id)
       THEN /\ LET s == Min(SlotsOf(sct, T_SCT_INIT))
               IN  sct' = [sct EXCEPT ![s] = [sct_socketid |-> id, left |-> sec]]
            /\ sctNum' = sctNum + 1
       ELSE UNCHANGED <<sct, sctNum>>
  /\ UNCHANGED due

\* Mutant: the counter is not decremented
RemoveKeepsCount(id) ==
  IF id >= 0 /\ sctNum # 0 /\ Registered(id)
    THEN /\ sct' = [sct EXCEPT ![Min(SlotsOf(sct, id))].sct_socketid = T_SCT_INIT]
         /\ UNCHANGED sctNum
    ELSE UNCHANGED <<sct, sctNum>>

\* kCloseTimerRemove: the first slot with the id is cleared
kCloseTimerRemove(id) ==
  IF id >= 0 /\ sctNum # 0 /\ Registered(id)
    THEN /\ sct' = [sct EXCEPT ![Min(SlotsOf(sct, id))].sct_socketid = T_SCT_INIT]
         /\ sctNum' = sctNum - 1
    ELSE UNCHANGED <<sct, sctNum>>

\* kCloseTimerProc up to its loop: the current time is read
kCloseTimerProc ==
  /\ due = {}
  /\ due' = Expired
  /\ UNCHANGED <<sct, sctNum>>

\* The socket id of the next expired slot, in table order
DueId == sct[Min(due)].sct_socketid

\* Mutant: the slot is closed and not removed
ExpireKeeps == due # {} /\ due' = due \ {Min(due)} /\ UNCHANGED <<sct, sctNum>>

\* One turn of the loop on an expired slot.  The caller conjoins kSocketClose(DueId),
\* whose failure is only logged.
kCloseTimerExpire ==
  /\ due # {}
  /\ kCloseTimerRemove(DueId)
  /\ due' = due \ {Min(due)}

\* The clock, external: every deadline comes one unit nearer
Tick ==
  /\ sct' = [s \in Slots |->
               [sct[s] EXCEPT !.left = IF @ > 0 THEN @ - 1 ELSE 0]]
  /\ UNCHANGED <<sctNum, due>>

CTNext ==
  \/ kCloseTimerInit
  \/ \E id \in SocketIds, sec \in 0..MaxSec : kCloseTimerSet(id, sec)
  \/ kCloseTimerProc
  \/ kCloseTimerExpire
  \/ Tick

\* The main loop calls kCloseTimerProc on every turn and time passes; nothing obliges
\* a caller to set or to reset the table.
CTFairness == WF_ctVars(kCloseTimerProc) /\ WF_ctVars(kCloseTimerExpire) /\ WF_ctVars(Tick)

CTSpec == CTInit /\ [][CTNext]_ctVars /\ CTFairness

-----------------------------------------------------------------------------
\* Slots hold ids callers passed, with deadlines they may ask for; the counter of
\* kCloseTimerSet and kCloseTimerRemove never leaves the table's bounds.
CTTypeOK ==
  /\ sct \in [Slots -> [sct_socketid : SocketIds \cup {T_SCT_INIT}, left : 0..MaxSec]]
  /\ sctNum \in 0..T_SCT_MAXNUM
  /\ due \in SUBSET Slots

\* The counter that kCloseTimerSet and kCloseTimerRemove trust is the number of slots
\* in use: a slot leaked or counted twice would make the table refuse timers for ever,
\* or let kCloseTimerRemove leave an expired slot in place.
CountsUsedSlots == sctNum = Cardinality(Used(sct))

\* The double registration check keeps a socket in at most one slot, so
\* kCloseTimerRemove clears the very slot that expired.
OneSlotPerSocket ==
  \A s, u \in Used(sct) : sct[s].sct_socketid = sct[u].sct_socketid => s = u

\* While the loop runs, each slot it has still to visit holds the expired socket it was
\* chosen for: no kSocketClose is issued for a vacant or a running slot.
DueSlotsExpired == due \subseteq Expired

\* A step that takes a socket out of the table closes one expired slot or empties the table.
OnlyExpiredLeave ==
  [][\A s \in Used(sct) \ Used(sct)' : sct[s].left = 0 \/ Used(sct)' = {}]_ctVars

\* Every socket entered for closing leaves the table.
EveryTimerFires ==
  \A id \in SocketIds \ {T_SCT_INIT} : Registered(id) ~> ~Registered(id)
=============================================================================
