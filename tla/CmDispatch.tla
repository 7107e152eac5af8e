------------------------------ MODULE CmDispatch ------------------------------
(***************************************************************************)
(* The event loop of the library Cm (CmDispatch, CmFdMasks, TimerQueue),   *)
(* which pktbuf, the v6eval clients and the vel programs run on.  A round  *)
(* waits in select(), notifies the handlers of the ready descriptors from  *)
(* the lowest to the highest, and then expires the timers that are due.    *)
(*                                                                         *)
(* The handlers here return 0 or a negative status; a handler that returns *)
(* more is notified again in the next round without select() (readies_).   *)
(***************************************************************************)
EXTENDS Integers, Sequences, FiniteSets, FiniteSetsExt, SequencesExt

CONSTANT MaxTime      \* the last instant of the clock

VARIABLES now,        \* the time of day, from 1
          timers,     \* TimerQueue: the list from first_, each with its time and receiver
          turn,       \* the descriptors select() reported that are not notified yet
          current     \* the time the due timers are compared with, or -1 if there is none

cmVars == <<now, timers, turn, current>>

CmInit == now = 1 /\ timers = <<>> /\ turn = {} /\ current = -1

-----------------------------------------------------------------------------
(* TimerQueue                                                               *)

\* insert(): before the first timer that is not earlier; at the front only if
\* it is earlier than all
tqInsert(q, at, r) ==
  LET t == [at |-> at, receiver |-> r]
  IN IF q = <<>> \/ at < Head(q).at THEN <<t>> \o q
     ELSE InsertAt(q, Min({k \in 2 .. Len(q) + 1 : k = Len(q) + 1 \/ at <= q[k].at}), t)

\* remove(): the first timer of the receiver
tqRemove(q, r) ==
  LET ks == {k \in DOMAIN q : q[k].receiver = r}
  IN IF ks = {} THEN q ELSE RemoveAt(q, Min(ks))

\* Mutant: compares the wrong way round
tqDueReversed(q, time) == q # <<>> /\ Head(q).at > time

tqDue(q, time) == q # <<>> /\ Head(q).at <= time

-----------------------------------------------------------------------------
(* CmDispatch                                                               *)

\* dispatch(): waitFor() returns when a descriptor is ready or the first timer is due
Selects(ready) ==
  /\ turn = {} /\ current = -1
  /\ ready # {} \/ tqDue(timers, now)
  /\ turn' = ready
  /\ current' = IF ready = {} THEN now ELSE -1
  /\ UNCHANGED <<now, timers>>

\* notify() of the lowest descriptor, whose handler leaves the timers q; after the
\* last one the time is taken
Notifies(fd, q) ==
  /\ fd \in turn /\ \A other \in turn : fd <= other
  /\ turn' = turn \ {fd}
  /\ timers' = q
  /\ current' = IF turn' = {} /\ tqDue(q, now) THEN now ELSE -1
  /\ UNCHANGED now

\* queue_->expire(): the receiver of the first timer, while it is due; the handlers
\* here start no timer
Expires(r) ==
  /\ current # -1
  /\ r = Head(timers).receiver
  /\ timers' = Tail(timers)
  /\ current' = IF tqDue(Tail(timers), current) THEN current ELSE -1
  /\ UNCHANGED <<now, turn>>

Tick == now < MaxTime /\ now' = now + 1 /\ UNCHANGED <<timers, turn, current>>
=============================================================================
