------------------------------- MODULE MCVel -------------------------------
EXTENDS Vel

Pair(ch, sh, ca, sa, p) ==
  [chost |-> ch, shost |-> sh, caddr |-> ca, saddr |-> sa, proto |-> p]
St(kind) == [kind |-> kind]
Event(kind, e) == [kind |-> kind, event |-> e]

\* As in the manual's example, two connections between the same two hosts, TCP
\* and UDP, whose threads meet before their traffic; a third thread goes its own way
MCHosts == {"A", "B", "C"}
MCOrder == <<"act01", "act02", "act03">>
MCThreads == Range(MCOrder)
MCTraffic == "act01" :> Pair("A", "B", 1, 2, "TCP") @@ "act02" :> Pair("A", "B", 3, 4, "UDP")
             @@ "act03" :> Pair("A", "C", 5, 6, "TCP")
MCScript ==
  "act01" :> <<St("connect"), Event("sync", "ev"), St("oneway"), St("close"),
               [kind |-> "execute", host |-> "A"]>>
  @@ "act02" :> <<St("delay"), St("connect"), Event("sync", "ev"), St("oneway"), St("print"),
                  St("close"), Event("wait", "w")>>
  @@ "act03" :> <<St("connect"), St("close"), Event("wait", "w")>>
MCMembers == "ev" :> {"act01", "act02"} @@ "w" :> {"act02", "act03"}
=============================================================================
