----------------------------- MODULE KDelivery -----------------------------
(***************************************************************************)
(* What koid promises the clients that send RECV requests: every socket is *)
(* a queue.  A message that comes in is put at the end of its socket's     *)
(* queue, and a request is answered the message at the head of one queue.  *)
(* Nothing is answered twice, nothing is overtaken on its own socket, and  *)
(* nothing leaves a queue but as an answer.                                *)
(***************************************************************************)
EXTENDS Sequences

CONSTANTS Sockets, Bodies

VARIABLES queue,        \* the bodies not yet answered, by socket
          delivered     \* the answers so far

deliveryVars == <<queue, delivered>>

DeliveryInit == queue = [s \in Sockets |-> <<>>] /\ delivered = <<>>

Arrive(s) == \E b \in Bodies : queue' = [queue EXCEPT ![s] = Append(@, b)] /\ UNCHANGED delivered

Answered(s) ==
  /\ queue[s] # <<>>
  /\ delivered' = Append(delivered, [from |-> s, body |-> Head(queue[s])])
  /\ queue' = [queue EXCEPT ![s] = Tail(@)]

DeliveryNext == \E s \in Sockets : Arrive(s) \/ Answered(s)

DeliverySpec == DeliveryInit /\ [][DeliveryNext]_deliveryVars
=============================================================================
