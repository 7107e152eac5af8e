----------------------------- MODULE MCTraffic ------------------------------
(* A oneway and a turnaround statement in both orders, a turnaround after a *)
(* turnaround, and a oneway statement without packets between two others   *)
EXTENDS VelTraffic

St(k, c) == [kind |-> k, count |-> c]

MCStatements ==
  {<<St("oneway", 2), St("turnaround", 2)>>,
   <<St("turnaround", 3), St("oneway", 2)>>,
   <<St("turnaround", 2), St("turnaround", 2)>>,
   <<St("turnaround", 1), St("oneway", 0), St("turnaround", 2)>>}
=============================================================================
