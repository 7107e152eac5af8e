---------------------------- MODULE KSocketProofs ----------------------------
(***************************************************************************)
(* The socket table, for every table limit, every set of descriptors,      *)
(* ports and addresses and every outcome of the system calls: live sockets *)
(* have descriptors of their own that select() waits on, and the command   *)
(* socket is never lost.                                                   *)
(***************************************************************************)
EXTENDS KSocket, WellFoundedInduction, TLAPS

-----------------------------------------------------------------------------
(* Least and greatest elements, and induction by a set for a predicate      *)

\* Min, as CHOOSE defines it, is the least element of a set of naturals.
LEMMA MinIsLeast ==
  ASSUME NEW S, S \subseteq Nat, S # {}
  PROVE  /\ Min(S) \in S
         /\ \A y \in S : Min(S) <= y
PROOF
  <1>1. \E x \in S : \A y \in S : ~(<<y, x>> \in OpToRel(<, Nat))
    BY NatLessThanWellFounded, WFMin, Zenon
  <1>2. \A x, y \in Nat : y < x => <<y, x>> \in OpToRel(<, Nat)
    BY DEF OpToRel
  <1>3. PICK x \in S : \A y \in S : ~(<<y, x>> \in OpToRel(<, Nat))
    BY <1>1
  <1>4. ASSUME NEW y \in S PROVE x <= y
    <2>1. x \in Nat /\ y \in Nat
      OBVIOUS
    <2>2. ~(y < x)
      BY <2>1, <1>2, <1>3, Zenon
    <2> QED
      BY <2>1, <2>2
  <1> QED
    BY <1>4 DEF Min

\* Max is the greatest element of a bounded set of naturals.
LEMMA MaxIsGreatest ==
  ASSUME NEW n \in Nat, NEW S, S \subseteq 0..n, S # {}
  PROVE  /\ Max(S) \in S
         /\ \A y \in S : y <= Max(S)
PROOF
  <1> DEFINE D == {n - y : y \in S}
  <1>0. \A y \in S : y \in Nat /\ n - y \in Nat /\ n - y \in D
    OBVIOUS
  <1>1. D \subseteq Nat /\ D # {}
    BY <1>0
  <1>2. Min(D) \in D /\ \A d \in D : Min(D) <= d
    BY <1>1, MinIsLeast
  <1>3. PICK x \in S : Min(D) = n - x
    BY <1>2
  <1>4. \A y \in S : x >= y
    <2> HIDE DEF D
    <2>1. \A y \in S : n - x <= n - y
      BY <1>0, <1>2, <1>3
    <2> QED
      BY <1>0, <2>1
  <1> QED
    BY <1>4 DEF Max

\* A set of naturals that holds 0 and with each number the next one holds them all.
LEMMA InductionOnNat ==
  ASSUME NEW G, 0 \in G, \A n \in Nat : n \in G => n + 1 \in G
  PROVE  Nat \subseteq G
PROOF
  <1> DEFINE T == {n \in Nat : n \notin G}
  <1>1. SUFFICES ASSUME T # {} PROVE FALSE
    OBVIOUS
  <1>2. Min(T) \in T /\ \A y \in T : Min(T) <= y
    BY <1>1, MinIsLeast
  <1>3. PICK m \in Nat : m \notin G /\ \A y \in T : m <= y
    BY <1>2
  <1>4. m - 1 \in Nat
    BY <1>3
  <1>5. m - 1 \in G
    BY <1>3, <1>4
  <1> QED
    BY <1>3, <1>4, <1>5

-----------------------------------------------------------------------------
(* The socket table                                                         *)

\* The inductive invariant.  That live handles are open is what makes a descriptor
\* the kernel hands out new to the table; that they are distinct is what lets a close
\* take a descriptor away without harming another entry.  The command socket is the
\* first entry, which no walk reaches by running off the end.
SockInv ==
  /\ SockTypeOK
  /\ AliveHandlesDistinct
  /\ AliveAreServed
  /\ 1 \in DOMAIN sock
  /\ sock[1].type = "UNIX" /\ sock[1].status = "ALIVE" /\ sock[1].handle # BadFd

-----------------------------------------------------------------------------
(* Records *)

\* A new entry is a SocketInfo, alive, with the id and the handle it was given.
LEMMA InfoType ==
  ASSUME NEW id \in Int, NEW type \in Types, NEW fd \in Fds \cup {BadFd}, NEW parent \in Int,
         NEW sport \in Ports \cup {0}, NEW saddr \in Addrs \cup {0},
         NEW dport \in DPorts \cup {0}, NEW daddr \in DAddrs \cup {0}
  PROVE  LET si == Info(id, type, fd, parent, sport, saddr, dport, daddr)
         IN  /\ si \in SocketInfo
             /\ [si EXCEPT !.peer = <<0, 0>>] \in SocketInfo
             /\ si.id = id /\ si.type = type /\ si.handle = fd /\ si.status = "ALIVE"
             /\ LET u == [si EXCEPT !.peer = <<0, 0>>]
                IN  u.id = id /\ u.type = type /\ u.handle = fd /\ u.status = "ALIVE"
PROOF
  BY DEF Info, SocketInfo

\* A closed entry, and one with a new destination
LEMMA UpdateType ==
  ASSUME NEW r \in SocketInfo, NEW dp \in DPorts \cup {0}, NEW da \in DAddrs \cup {0}
  PROVE  /\ LET c == [r EXCEPT !.status = "CLOSE"]
            IN  /\ c \in SocketInfo
                /\ c.id = r.id /\ c.type = r.type /\ c.handle = r.handle /\ c.status = "CLOSE"
                /\ c.parent = r.parent
         /\ LET u == [[r EXCEPT !.dport = dp] EXCEPT !.daddr = da]
            IN  /\ u \in SocketInfo
                /\ u.id = r.id /\ u.type = r.type /\ u.handle = r.handle /\ u.status = r.status
                /\ u.parent = r.parent
PROOF
  BY DEF SocketInfo

\* The fields of a SocketInfo have their types.
LEMMA FieldTypes ==
  ASSUME NEW r \in SocketInfo
  PROVE  /\ r.id \in Int /\ r.type \in Types /\ r.handle \in Fds \cup {BadFd}
         /\ r.sport \in Ports \cup {0} /\ r.saddr \in Addrs \cup {0}
         /\ r.peer[1] \in DPorts \cup {0} /\ r.peer[2] \in DAddrs \cup {0}
PROOF
  BY DEF SocketInfo

\* The answer RETURN_OK is a result.
LEMMA OkType ==
  ASSUME NEW fn \in {"CONNECT", "WAIT"}, NEW type \in Types, NEW id \in Int
  PROVE  Ok(fn, type, id) \in Results
PROOF
  BY DEF Ok, Results

\* The answer RETURN_NG is a result.
LEMMA NgType ==
  ASSUME NEW fn \in {"INIT", "CONNECT", "WAIT", "SEND"}
  PROVE  Ng(fn) \in Results
PROOF
  BY DEF Ng, Results, Types, UnixTypes

\* What kSocketSend answers is a result.
LEMMA SentType ==
  ASSUME NEW type \in Types, NEW id \in Int, NEW ok \in BOOLEAN, NEW fd \in Fds \cup {BadFd}
  PROVE  [fn |-> "SEND", type |-> type, id |-> id, ok |-> ok, fd |-> fd] \in Results
PROOF
  BY DEF Results

-----------------------------------------------------------------------------
(* Walks and descriptors *)

\* A walk ends at an entry or nowhere, and at the first entry only if that matches.
LEMMA WalkToRange ==
  ASSUME sock \in Seq(SocketInfo), NEW S \in SUBSET DOMAIN sock
  PROVE  /\ WalkTo(S) \in {0} \cup DOMAIN sock
         /\ WalkTo(S) = 1 => 1 \in S
PROOF
  <1> USE SocketAssumption
  <1> DEFINE seen == {i \in S : i <= SOCKET_MAXNUM}
  <1>1. CASE seen # {}
    <2>1. Min(seen) \in seen
      BY <1>1, MinIsLeast
    <2> QED
      BY <1>1, <2>1 DEF WalkTo
  <1>2. CASE seen = {}
    BY <1>2 DEF WalkTo
  <1> QED
    BY <1>1, <1>2

\* The kernel's new descriptor is not open.
LEMMA NewFdIsFree ==
  ASSUME FreeFds # {}
  PROVE  NewFd \in Fds /\ NewFd \notin openFds /\ NewFd # BadFd
PROOF
  <1>1. NewFd \in FreeFds
    BY MinIsLeast, SocketAssumption DEF FreeFds, NewFd
  <1> QED
    BY <1>1, SocketAssumption DEF FreeFds, BadFd

\* T is the table with some entries closed or given a new destination.
Trimmed(T) ==
  /\ T \in Seq(SocketInfo)
  /\ DOMAIN T = DOMAIN sock
  /\ \A i \in DOMAIN sock :
       /\ T[i].id = sock[i].id /\ T[i].type = sock[i].type /\ T[i].handle = sock[i].handle
       /\ T[i].parent = sock[i].parent
       /\ T[i].status = sock[i].status \/ T[i].status = "CLOSE"

\* kSocketMakeSocketStatusClose of a descriptor that is not open closes entries at most,
\* and not the command socket.
LEMMA MarkCloseTrims ==
  ASSUME SockInv, NEW fd, fd \notin openFds
  PROVE  /\ Trimmed(kSocketMakeSocketStatusClose(fd))
         /\ kSocketMakeSocketStatusClose(fd)[1] = sock[1]
         /\ Len(kSocketMakeSocketStatusClose(fd)) = Len(sock)
PROOF
  <1> DEFINE S == {j \in DOMAIN sock : sock[j].handle = fd}
             i == WalkTo(S)
  <1>1. sock \in Seq(SocketInfo)
    BY DEF SockInv, SockTypeOK
  <1>2. i \in {0} \cup DOMAIN sock /\ (i = 1 => 1 \in S)
    BY <1>1, WalkToRange
  <1>3. i # 1
    BY <1>2 DEF SockInv, AliveAreServed, Alive, IsAlive
  <1>4. CASE i = 0
    BY <1>1, <1>4 DEF kSocketMakeSocketStatusClose, Trimmed
  <1>5. CASE i # 0
    <2>1. i \in DOMAIN sock /\ sock[i] \in SocketInfo
      BY <1>1, <1>2, <1>5
    <2> DEFINE c == [sock[i] EXCEPT !.status = "CLOSE"]
    <2>2. /\ c \in SocketInfo
          /\ c.id = sock[i].id /\ c.type = sock[i].type /\ c.handle = sock[i].handle
          /\ c.status = "CLOSE" /\ c.parent = sock[i].parent
      BY <2>1, UpdateType
    <2>3. kSocketMakeSocketStatusClose(fd) = [sock EXCEPT ![i] = c]
      BY <1>5 DEF kSocketMakeSocketStatusClose
    <2> HIDE DEF c, i
    <2> DEFINE T == [sock EXCEPT ![i] = c]
    <2>4. T \in Seq(SocketInfo) /\ DOMAIN T = DOMAIN sock /\ Len(T) = Len(sock)
      BY <1>1, <2>1, <2>2
    <2>5. \A j \in DOMAIN sock : T[j] = IF j = i THEN c ELSE sock[j]
      BY <1>1
    <2>6. 1 \in DOMAIN sock
      BY DEF SockInv
    <2> HIDE DEF T
    <2> QED
      BY <1>3, <2>2, <2>3, <2>4, <2>5, <2>6 DEF Trimmed, T
  <1> QED
    BY <1>4, <1>5

-----------------------------------------------------------------------------
(* The two ways in which the table changes: it is trimmed, or trimmed and extended *)

RestOK ==
  /\ sockId \in -(SOCKET_MAXNUM + 1)..SOCKET_MAXNUM
  /\ readfds \subseteq Fds /\ openFds \subseteq Fds
  /\ ret \in Results

\* What is left alive must still be watched and open.
LEMMA TrimPreserves ==
  ASSUME SockInv, RestOK', Trimmed(sock'), sock'[1].status = "ALIVE",
         \A i \in DOMAIN sock : sock'[i].status = "ALIVE" /\ sock[i].handle # BadFd
                                  => sock[i].handle \in readfds' \cap openFds'
  PROVE  SockInv'
PROOF
  <1>1. SockTypeOK'
    BY DEF RestOK, SockTypeOK, Trimmed
  <1>2. /\ DOMAIN sock' = DOMAIN sock
        /\ \A i \in DOMAIN sock : /\ sock'[i].handle = sock[i].handle
                                  /\ sock'[i].type = sock[i].type
                                  /\ sock'[i].status = "ALIVE" => sock[i].status = "ALIVE"
    BY DEF Trimmed
  <1>3. AliveHandlesDistinct'
    BY <1>2 DEF SockInv, AliveHandlesDistinct, Alive, IsAlive
  <1>4. AliveAreServed'
    BY <1>2 DEF SockInv, AliveAreServed, Alive, IsAlive
  <1>5. 1 \in DOMAIN sock' /\ sock'[1].type = "UNIX" /\ sock'[1].handle # BadFd
    BY <1>2 DEF SockInv
  <1> QED
    BY <1>1, <1>3, <1>4, <1>5 DEF SockInv

\* A new entry has a descriptor that was not open, or none.
LEMMA ExtendPreserves ==
  ASSUME SockInv, RestOK', NEW T, Trimmed(T), T[1] = sock[1],
         NEW si \in SocketInfo, sock' = Append(T, si),
         si.handle \notin openFds,
         readfds \subseteq readfds', openFds \subseteq openFds',
         si.handle # BadFd => si.handle \in readfds' \cap openFds'
  PROVE  SockInv'
PROOF
  <1>1. T \in Seq(SocketInfo) /\ DOMAIN T = DOMAIN sock
    BY DEF Trimmed
  <1>2. sock' \in Seq(SocketInfo)
    BY <1>1
  <1>3. /\ \A i \in DOMAIN sock' : i \in DOMAIN sock \/ i = Len(T) + 1
        /\ \A i \in DOMAIN sock : i # Len(T) + 1 /\ i \in DOMAIN sock' /\ sock'[i] = T[i]
        /\ sock'[Len(T) + 1] = si
    BY <1>1
  <1>4. \A i \in DOMAIN sock : /\ sock'[i].handle = sock[i].handle
                               /\ sock'[i].type = sock[i].type
                               /\ sock'[i].status = "ALIVE" => sock[i].status = "ALIVE"
    BY <1>3 DEF Trimmed
  <1>5. \A i \in DOMAIN sock : sock'[i].status = "ALIVE" /\ sock'[i].handle # BadFd =>
            sock'[i].handle \in readfds \cap openFds
    BY <1>4 DEF SockInv, AliveAreServed, Alive, IsAlive
  <1>6. SockTypeOK'
    BY <1>2 DEF RestOK, SockTypeOK
  <1>7. AliveAreServed'
    BY <1>3, <1>5 DEF AliveAreServed, Alive, IsAlive
  <1>8. AliveHandlesDistinct'
    BY <1>3, <1>4, <1>5 DEF SockInv, AliveHandlesDistinct, Alive, IsAlive
  <1>9. 1 \in DOMAIN sock' /\ sock'[1] = sock[1]
    BY <1>3 DEF SockInv
  <1> QED
    BY <1>6, <1>7, <1>8, <1>9 DEF SockInv

\* The table itself is such a table.
LEMMA TrimmedSelf == ASSUME SockInv PROVE Trimmed(sock)
PROOF
  BY DEF SockInv, SockTypeOK, Trimmed

\* The next id is a short: incrementing the largest one wraps round.
LEMMA NextIdType ==
  ASSUME sockId \in -(SOCKET_MAXNUM + 1)..SOCKET_MAXNUM
  PROVE  NextId \in -(SOCKET_MAXNUM + 1)..SOCKET_MAXNUM
PROOF
  BY SocketAssumption DEF NextId

-----------------------------------------------------------------------------
(* The building blocks of the operations *)

\* Opening that fails before anything is registered keeps the invariant.
LEMMA OpenFailsKeeps ==
  ASSUME SockInv, NEW fn \in {"CONNECT", "WAIT"}, OpenFails(fn)
  PROVE  SockInv'
PROOF
  <1>1. RestOK'
    BY NgType DEF SockInv, SockTypeOK, RestOK, OpenFails
  <1>2. sock' = sock /\ readfds' = readfds /\ openFds' = openFds
    BY DEF OpenFails
  <1> QED
    BY <1>1, <1>2, TrimmedSelf, TrimPreserves DEF SockInv, AliveAreServed, Alive, IsAlive

\* Opening a socket on the kernel's new descriptor keeps the invariant.
LEMMA OpenSucceedsKeeps ==
  ASSUME SockInv, NEW fn \in {"CONNECT", "WAIT"}, FreeFds # {},
         NEW si \in SocketInfo, si.handle = NewFd, si.id = NextId, OpenSucceeds(fn, si)
  PROVE  SockInv'
PROOF
  <1> DEFINE T == kSocketMakeSocketStatusClose(si.handle)
  <1>1. si.handle \in Fds /\ si.handle \notin openFds
    BY NewFdIsFree
  <1>2. Trimmed(T) /\ T[1] = sock[1]
    BY <1>1, MarkCloseTrims
  <1>3. ret' = Ok(fn, si.type, si.id) /\ sockId' = si.id
    BY DEF OpenSucceeds
  <1>4. /\ sock' = Append(T, si)
        /\ readfds' = readfds \cup {si.handle} /\ openFds' = openFds \cup {si.handle}
    BY DEF OpenSucceeds
  <1>5. si.type \in Types /\ si.id \in Int
    BY FieldTypes
  <1>6. RestOK'
    BY <1>1, <1>3, <1>4, <1>5, OkType, NextIdType DEF SockInv, SockTypeOK, RestOK
  <1> HIDE DEF T
  <1> QED
    BY <1>1, <1>2, <1>4, <1>6, ExtendPreserves

\* Opening that is undone for want of a parser keeps the invariant.
LEMMA OpenUndoneKeeps ==
  ASSUME SockInv, NEW fn \in {"CONNECT", "WAIT"}, FreeFds # {},
         NEW id \in {sockId, NextId}, OpenUndone(fn, id)
  PROVE  SockInv'
PROOF
  <1>1. NewFd \in Fds /\ NewFd \notin openFds
    BY NewFdIsFree
  <1>2. /\ Trimmed(sock') /\ sock'[1] = sock[1]
        /\ readfds' = readfds \ {NewFd} /\ openFds' = openFds /\ sockId' = id /\ ret' = Ng(fn)
    BY <1>1, MarkCloseTrims DEF OpenUndone
  <1>3. RestOK'
    BY <1>2, NgType, NextIdType DEF SockInv, SockTypeOK, RestOK
  <1>4. \A i \in DOMAIN sock : sock'[i].status = "ALIVE" /\ sock[i].handle # BadFd
          => sock[i].handle \in readfds' \cap openFds'
    BY <1>1, <1>2 DEF SockInv, AliveAreServed, Alive, IsAlive, Trimmed
  <1> QED
    BY <1>2, <1>3, <1>4, TrimPreserves DEF SockInv

\* Opening that leaves a closed descriptor in g_readfds keeps the invariant: no live
\* entry is concerned.
LEMMA OpenClosedHandleKeeps ==
  ASSUME SockInv, NEW fn \in {"CONNECT", "WAIT"}, FreeFds # {}, OpenClosedHandle(fn)
  PROVE  SockInv'
PROOF
  <1>1. NewFd \in Fds /\ NewFd \notin openFds
    BY NewFdIsFree
  <1>2. /\ Trimmed(sock') /\ sock'[1] = sock[1]
        /\ readfds' = readfds \cup {NewFd} /\ openFds' = openFds
        /\ sockId' = NextId /\ ret' = Ng(fn)
    BY <1>1, MarkCloseTrims DEF OpenClosedHandle
  <1>3. RestOK'
    BY <1>1, <1>2, NgType, NextIdType DEF SockInv, SockTypeOK, RestOK
  <1>4. \A i \in DOMAIN sock : sock'[i].status = "ALIVE" /\ sock[i].handle # BadFd
          => sock[i].handle \in readfds' \cap openFds'
    BY <1>2 DEF SockInv, AliveAreServed, Alive, IsAlive, Trimmed
  <1> QED
    BY <1>2, <1>3, <1>4, TrimPreserves DEF SockInv

\* kSocketRegistDataSocketInfo keeps the invariant, a full table included.
LEMMA RegisterKeeps ==
  ASSUME SockInv, NEW si \in SocketInfo, si.handle \in Fds \cup {BadFd},
         si.handle \notin openFds, si.id = NextId, Register(si), ret' = ret
  PROVE  SockInv'
PROOF
  <1> USE SocketAssumption
  <1>1. /\ readfds \subseteq readfds' /\ openFds \subseteq openFds'
        /\ readfds' \subseteq Fds /\ openFds' \subseteq Fds
        /\ si.handle # BadFd => si.handle \in readfds' \cap openFds'
    BY DEF SockInv, SockTypeOK, Register
  <1>2. sockId' \in -(SOCKET_MAXNUM + 1)..SOCKET_MAXNUM
    BY NextIdType DEF SockInv, SockTypeOK, Register
  <1>3. RestOK'
    BY <1>1, <1>2 DEF SockInv, SockTypeOK, RestOK
  <1>4. CASE sockId = SOCKET_MAXNUM
    <2>1. sock' = sock
      BY <1>4 DEF Register
    <2> QED
      BY <1>1, <1>3, <2>1, TrimmedSelf, TrimPreserves DEF SockInv, AliveAreServed, Alive, IsAlive
  <1>5. CASE sockId # SOCKET_MAXNUM
    <2>1. sock' = Append(sock, si)
      BY <1>5 DEF Register
    <2> QED
      BY <1>1, <1>3, <2>1, TrimmedSelf, ExtendPreserves
  <1> QED
    BY <1>4, <1>5

\* A close marks the entries it is given and changes nothing else in the table.
LEMMA CloseEntriesTrims ==
  ASSUME SockInv, NEW S \in SUBSET DOMAIN sock, CloseEntries(S)
  PROVE  /\ Trimmed(sock')
         /\ \A i \in S : sock'[i].status = "CLOSE"
         /\ \A i \in DOMAIN sock \ S : sock'[i] = sock[i]
PROOF
  <1>1. sock \in Seq(SocketInfo) /\ \A i \in DOMAIN sock : sock[i] \in SocketInfo
    BY DEF SockInv, SockTypeOK
  <1> DEFINE c(i) == [sock[i] EXCEPT !.status = "CLOSE"]
  <1>2. \A i \in DOMAIN sock :
          /\ c(i) \in SocketInfo
          /\ c(i).id = sock[i].id /\ c(i).type = sock[i].type /\ c(i).handle = sock[i].handle
          /\ c(i).status = "CLOSE" /\ c(i).parent = sock[i].parent
    BY <1>1, UpdateType
  <1>3. sock' = [i \in DOMAIN sock |-> IF i \in S THEN c(i) ELSE sock[i]]
    BY DEF CloseEntries
  <1> HIDE DEF c
  <1>4. DOMAIN sock' = DOMAIN sock /\ sock' \in Seq(SocketInfo)
    BY <1>1, <1>2, <1>3
  <1> QED
    BY <1>2, <1>3, <1>4 DEF Trimmed

\* Closing live entries other than the command socket keeps the invariant.
LEMMA CloseEntriesKeeps ==
  ASSUME SockInv, NEW S \in SUBSET DOMAIN sock, 1 \notin S,
         \A i \in S : IsAlive(i) /\ sock[i].handle \in openFds,
         CloseEntries(S), ret' = ret
  PROVE  SockInv'
PROOF
  <1>3. /\ readfds' = readfds \ {sock[i].handle : i \in S}
        /\ openFds' = openFds \ {sock[i].handle : i \in S}
        /\ sockId' = sockId
    BY DEF CloseEntries
  <1>5. Trimmed(sock') /\ sock'[1] = sock[1] /\ \A i \in S : sock'[i].status = "CLOSE"
    BY CloseEntriesTrims DEF SockInv
  <1>6. RestOK'
    BY <1>3 DEF SockInv, SockTypeOK, RestOK
  <1>7. ASSUME NEW i \in DOMAIN sock, sock'[i].status = "ALIVE", sock[i].handle # BadFd
        PROVE  sock[i].handle \in readfds' \cap openFds'
    <2>1. i \in Alive /\ i \notin S
      BY <1>5, <1>7 DEF Trimmed, Alive, IsAlive
    <2>2. \A j \in S : j \in Alive /\ j # i
      BY <2>1 DEF Alive
    <2>3. \A j \in S : sock[j].handle # sock[i].handle
      BY <1>7, <2>1, <2>2 DEF SockInv, AliveHandlesDistinct
    <2> QED
      BY <1>3, <1>7, <2>1, <2>3 DEF SockInv, AliveAreServed
  <1> QED
    BY <1>5, <1>6, <1>7, TrimPreserves DEF SockInv

\* A step that leaves the table and the descriptors alone
LEMMA OnlyRetKeeps ==
  ASSUME SockInv, ret' \in Results, UNCHANGED <<sock, sockId, readfds, openFds>>
  PROVE  SockInv'
PROOF
  <1>1. RestOK'
    BY DEF SockInv, SockTypeOK, RestOK
  <1> QED
    BY <1>1, TrimmedSelf, TrimPreserves DEF SockInv, AliveAreServed, Alive, IsAlive

\* A descriptor that is opened and forgotten
LEMMA LeakKeeps ==
  ASSUME SockInv, FreeFds # {}, ret' \in Results, openFds' = openFds \cup {NewFd},
         UNCHANGED <<sock, sockId, readfds>>
  PROVE  SockInv'
PROOF
  <1>1. RestOK'
    BY NewFdIsFree DEF SockInv, SockTypeOK, RestOK
  <1> QED
    BY <1>1, TrimmedSelf, TrimPreserves DEF SockInv, AliveAreServed, Alive, IsAlive

\* Giving entry i a new destination changes no status.
LEMMA RedirectTrims ==
  ASSUME SockInv, NEW i \in DOMAIN sock, NEW dp \in DPorts \cup {0}, NEW da \in DAddrs \cup {0},
         sock' = [sock EXCEPT ![i].dport = dp, ![i].daddr = da]
  PROVE  Trimmed(sock') /\ \A j \in DOMAIN sock : sock'[j].status = sock[j].status
PROOF
  <1> DEFINE u == [[sock[i] EXCEPT !.dport = dp] EXCEPT !.daddr = da]
  <1>1. sock \in Seq(SocketInfo) /\ sock[i] \in SocketInfo
    BY DEF SockInv, SockTypeOK
  <1>2. /\ u \in SocketInfo
        /\ u.id = sock[i].id /\ u.type = sock[i].type /\ u.handle = sock[i].handle
        /\ u.status = sock[i].status /\ u.parent = sock[i].parent
    BY <1>1 DEF SocketInfo
  <1>3. sock' = [sock EXCEPT ![i] = u]
    BY <1>1
  <1> HIDE DEF u
  <1>4. [sock EXCEPT ![i] = u] \in Seq(SocketInfo) /\ DOMAIN [sock EXCEPT ![i] = u] = DOMAIN sock
    BY <1>1, <1>2
  <1>5. \A j \in DOMAIN sock : sock'[j] = IF j = i THEN u ELSE sock[j]
    BY <1>1, <1>3
  <1> QED
    BY <1>2, <1>3, <1>4, <1>5 DEF Trimmed

\* Entry i with a new destination
LEMMA RedirectKeeps ==
  ASSUME SockInv, NEW i \in DOMAIN sock, NEW dp \in DPorts \cup {0}, NEW da \in DAddrs \cup {0},
         sock' = [sock EXCEPT ![i].dport = dp, ![i].daddr = da],
         ret' \in Results, UNCHANGED <<sockId, readfds, openFds>>
  PROVE  SockInv'
PROOF
  <1>1. Trimmed(sock') /\ \A j \in DOMAIN sock : sock'[j].status = sock[j].status
    BY RedirectTrims
  <1>2. RestOK'
    BY DEF SockInv, SockTypeOK, RestOK
  <1> QED
    BY <1>1, <1>2, TrimPreserves DEF SockInv, AliveAreServed, Alive, IsAlive

\* kSocketClose closes live sockets with open descriptors, never the command socket.
LEMMA CloseSetOK ==
  ASSUME SockInv, NEW id, NEW garbage
  PROVE  /\ CloseSet(id, garbage) \in SUBSET DOMAIN sock /\ 1 \notin CloseSet(id, garbage)
         /\ \A i \in CloseSet(id, garbage) : IsAlive(i) /\ sock[i].handle \in openFds
PROOF
  <1> DEFINE Fine(S) == /\ S \in SUBSET DOMAIN sock /\ 1 \notin S
                        /\ \A i \in S : IsAlive(i) /\ sock[i].handle \in openFds
  <1>1. Fine(Closable)
    BY DEF Closable, Alive, SockInv, UnixTypes
  <1>2. Fine(CloseAll) /\ Fine(CloseListener(id, garbage))
    BY <1>1 DEF CloseAll, CloseListener
  <1>3. Fine(CloseOne(id))
    <2> DEFINE S == {j \in DOMAIN sock : sock[j].id = id}
    <2>1. WalkTo(S) \in {0} \cup DOMAIN sock
      BY WalkToRange DEF SockInv, SockTypeOK
    <2>2. \A i \in CloseOne(id) : i = WalkTo(S) /\ i # 0 /\ IsAlive(i) /\ sock[i].type # "UNIX"
                                  /\ sock[i].handle \in openFds
      BY DEF CloseOne
    <2> HIDE DEF S
    <2> QED
      BY <2>1, <2>2 DEF SockInv
  <1>4. Fine({})
    OBVIOUS
  <1> HIDE DEF Fine
  <1>5. Fine(CloseSet(id, garbage))
    BY <1>2, <1>3, <1>4 DEF CloseSet
  <1> QED
    BY <1>5 DEF Fine

-----------------------------------------------------------------------------
(* The operations *)

\* kSocketOpen keeps the invariant under every outcome of the system calls.
LEMMA OpenKeeps ==
  ASSUME SockInv, NEW o, Outcome(o), NEW type \in {"UDP", "DATA"}, NEW parser \in BOOLEAN,
         NEW sport \in Ports, NEW saddr \in Addrs, NEW dport \in DPorts, NEW daddr \in DAddrs,
         kSocketOpen(type, sport, saddr, dport, daddr, o, parser)
  PROVE  SockInv'
PROOF
  <1> DEFINE unbound == o = "bindFails"
             inf == Info(NextId, type, NewFd, 0, IF unbound THEN 0 ELSE sport,
                         IF unbound THEN 0 ELSE saddr, dport, daddr)
             si == [inf EXCEPT !.peer = IF unbound THEN <<0, 0>> ELSE @]
  <1>1. \/ OpenFails("CONNECT")
        \/ o # "noSocket" /\ OpenUndone("CONNECT", sockId)
        \/ o # "noSocket" /\ OpenClosedHandle("CONNECT")
        \/ o # "noSocket" /\ OpenSucceeds("CONNECT", si)
    BY DEF kSocketOpen
  <1>2. CASE OpenFails("CONNECT")
    BY <1>2, OpenFailsKeeps
  <1>3. o # "noSocket" => FreeFds # {}
    BY DEF Outcome
  <1>4. CASE o # "noSocket" /\ OpenUndone("CONNECT", sockId)
    BY <1>3, <1>4, OpenUndoneKeeps
  <1>5. CASE o # "noSocket" /\ OpenClosedHandle("CONNECT")
    BY <1>3, <1>5, OpenClosedHandleKeeps
  <1>6. CASE o # "noSocket" /\ OpenSucceeds("CONNECT", si)
    <2>1. NewFd \in Fds
      BY <1>3, <1>6, NewFdIsFree
    <2>2. NextId \in Int
      BY NextIdType, SocketAssumption DEF SockInv, SockTypeOK
    <2>3. si \in SocketInfo /\ si.handle = NewFd /\ si.id = NextId
      BY <2>1, <2>2 DEF Info, SocketInfo, Types, DataTypes
    <2> HIDE DEF si
    <2> QED
      BY <1>3, <1>6, <2>3, OpenSucceedsKeeps
  <1> QED
    BY <1>1, <1>2, <1>4, <1>5, <1>6

\* kSocketOpenRaw keeps the invariant, also when the id overflows.
LEMMA OpenRawKeeps ==
  ASSUME SockInv, NEW o, Outcome(o), NEW parser \in BOOLEAN, NEW fn \in {"CONNECT", "WAIT"},
         NEW saddr \in Addrs, NEW daddr \in DAddrs \cup {0},
         kSocketOpenRaw(fn, saddr, daddr, o, parser)
  PROVE  SockInv'
PROOF
  <1> DEFINE si == Info(NextId, "RAW", NewFd, 0, 0, saddr, 0, daddr)
  <1>1. \/ OpenFails(fn)
        \/ o # "noSocket" /\ OpenUndone(fn, sockId)
        \/ o # "noSocket" /\ OpenSucceeds(fn, si)
    BY DEF kSocketOpenRaw
  <1>2. CASE OpenFails(fn)
    BY <1>2, OpenFailsKeeps
  <1>3. o # "noSocket" => FreeFds # {}
    BY DEF Outcome
  <1>4. CASE o # "noSocket" /\ OpenUndone(fn, sockId)
    BY <1>3, <1>4, OpenUndoneKeeps
  <1>5. CASE o # "noSocket" /\ OpenSucceeds(fn, si)
    <2>1. NewFd \in Fds
      BY <1>3, <1>5, NewFdIsFree
    <2>2. NextId \in Int
      BY NextIdType, SocketAssumption DEF SockInv, SockTypeOK
    <2>3. si \in SocketInfo /\ si.handle = NewFd /\ si.id = NextId
      BY <2>1, <2>2 DEF Info, SocketInfo, Types, DataTypes
    <2> HIDE DEF si
    <2> QED
      BY <1>3, <1>5, <2>3, OpenSucceedsKeeps
  <1> QED
    BY <1>1, <1>2, <1>4, <1>5

\* kSocketOpenWaitSocket keeps the invariant under every outcome of the system calls.
LEMMA OpenWaitKeeps ==
  ASSUME SockInv, NEW o, Outcome(o), NEW parser \in BOOLEAN,
         NEW type \in {"LISTEN_UDP", "LISTEN_TCP"}, NEW sport \in Ports, NEW saddr \in Addrs,
         kSocketOpenWaitSocket(type, sport, saddr, o, parser)
  PROVE  SockInv'
PROOF
  <1> DEFINE si == Info(NextId, type, NewFd, 0, sport, saddr, 0, 0)
  <1>1. type \in Types
    BY DEF Types, DataTypes
  <1>2. \/ ret' = Ok("WAIT", type, 0) /\ UNCHANGED <<sock, sockId, readfds, openFds>>
        \/ OpenFails("WAIT")
        \/ /\ o # "noSocket"
           /\ openFds' = openFds \cup {NewFd} /\ ret' = Ng("WAIT")
           /\ UNCHANGED <<sock, sockId, readfds>>
        \/ o # "noSocket" /\ OpenClosedHandle("WAIT")
        \/ o # "noSocket" /\ OpenUndone("WAIT", NextId)
        \/ o # "noSocket" /\ OpenSucceeds("WAIT", si)
    BY DEF kSocketOpenWaitSocket
  <1>3. o # "noSocket" => FreeFds # {}
    BY DEF Outcome
  <1>4. CASE ret' = Ok("WAIT", type, 0) /\ UNCHANGED <<sock, sockId, readfds, openFds>>
    BY <1>1, <1>4, OkType, OnlyRetKeeps
  <1>5. CASE OpenFails("WAIT")
    BY <1>5, OpenFailsKeeps
  <1>6. CASE /\ o # "noSocket"
             /\ openFds' = openFds \cup {NewFd} /\ ret' = Ng("WAIT")
             /\ UNCHANGED <<sock, sockId, readfds>>
    BY <1>3, <1>6, NgType, LeakKeeps
  <1>7. CASE o # "noSocket" /\ OpenClosedHandle("WAIT")
    BY <1>3, <1>7, OpenClosedHandleKeeps
  <1>8. CASE o # "noSocket" /\ OpenUndone("WAIT", NextId)
    BY <1>3, <1>8, OpenUndoneKeeps
  <1>9. CASE o # "noSocket" /\ OpenSucceeds("WAIT", si)
    <2>1. NewFd \in Fds
      BY <1>3, <1>9, NewFdIsFree
    <2>2. NextId \in Int
      BY NextIdType, SocketAssumption DEF SockInv, SockTypeOK
    <2>3. si \in SocketInfo /\ si.handle = NewFd /\ si.id = NextId
      BY <1>1, <2>1, <2>2 DEF Info, SocketInfo
    <2> HIDE DEF si
    <2> QED
      BY <1>3, <1>9, <2>3, OpenSucceedsKeeps
  <1> QED
    BY <1>2, <1>4, <1>5, <1>6, <1>7, <1>8, <1>9

\* A CONNECT that uses an entry again uses a live one of the table.
LEMMA ReuseInTable ==
  ASSUME SockInv, NEW p, NEW sport, NEW saddr, NEW dport,
         Reuse(p, sport, saddr, dport) # 0
  PROVE  Reuse(p, sport, saddr, dport) \in DOMAIN sock /\ IsAlive(Reuse(p, sport, saddr, dport))
PROOF
  <1> DEFINE c == ReuseCandidates(p, sport, dport)
  <1>1. c # {} /\ c \subseteq 1..Len(sock) /\ Len(sock) \in Nat
    BY DEF Reuse, ReuseCandidates, Alive, SockInv, SockTypeOK
  <1>2. Max(c) \in c
    BY <1>1, MaxIsGreatest
  <1>3. c \subseteq Alive
    BY DEF ReuseCandidates
  <1>4. Reuse(p, sport, saddr, dport) = Max(c)
    BY DEF Reuse
  <1> HIDE DEF c
  <1> QED
    BY <1>1, <1>2, <1>3, <1>4 DEF Alive

-----------------------------------------------------------------------------
(* The handlers *)

\* process_command_connect_req keeps the invariant.
LEMMA ConnectKeeps ==
  ASSUME SockInv, NEW p \in Protocols, NEW sport \in Ports, NEW saddr \in Addrs,
         NEW dport \in DPorts, NEW daddr \in DAddrs, NEW o, NEW parser \in BOOLEAN,
         Connect(p, sport, saddr, dport, daddr, o, parser)
  PROVE  SockInv'
PROOF
  <1> DEFINE i == Reuse(p, sport, saddr, dport)
             type == ConnectType(p)
  <1>1. type \in {"UDP", "RAW", "DATA"} /\ type \in Types
    BY DEF ConnectType, Types, DataTypes
  <1>2. Outcome(o)
    BY DEF Connect
  <1>3. CASE i # 0
    <2>1. kSocketCheckNewSocket(i, type, dport, daddr)
      BY <1>3 DEF Connect
    <2>2. i \in DOMAIN sock
      BY <1>3, ReuseInTable
    <2>3. sock[i].id \in Int
      BY <2>2, FieldTypes DEF SockInv, SockTypeOK
    <2> HIDE DEF i, type
    <2>4. ret' \in Results
      BY <1>1, <2>1, <2>3, OkType DEF kSocketCheckNewSocket
    <2> QED
      BY <2>1, <2>2, <2>4, RedirectKeeps DEF kSocketCheckNewSocket
  <1>4. CASE i = 0 /\ type = "RAW"
    BY <1>2, <1>4, OpenRawKeeps DEF Connect
  <1>5. CASE i = 0 /\ type # "RAW"
    <2>1. kSocketOpen(type, sport, saddr, dport, daddr, o, parser)
      BY <1>5 DEF Connect
    <2> HIDE DEF type
    <2> QED
      BY <1>1, <1>2, <1>5, <2>1, OpenKeeps
  <1> QED
    BY <1>3, <1>4, <1>5

\* process_command_wait_req keeps the invariant.
LEMMA WaitKeeps ==
  ASSUME SockInv, NEW p \in Protocols, NEW sport \in Ports, NEW saddr \in Addrs,
         NEW o, NEW parser \in BOOLEAN, Wait(p, sport, saddr, o, parser)
  PROVE  SockInv'
PROOF
  <1>1. \/ kSocketOpenWaitSocket("LISTEN_UDP", sport, saddr, o, parser)
        \/ kSocketOpenRaw("WAIT", saddr, 0, o, parser)
        \/ kSocketOpenWaitSocket("LISTEN_TCP", sport, saddr, o, parser)
    BY DEF Wait
  <1>2. Outcome(o)
    BY DEF Wait
  <1> QED
    BY <1>1, <1>2, OpenWaitKeeps, OpenRawKeeps

\* process_si_type_listen keeps the invariant.
LEMMA AcceptKeeps ==
  ASSUME SockInv, NEW i \in DOMAIN sock, NEW dport \in DPorts, NEW daddr \in DAddrs,
         NEW usable \in BOOLEAN, Accept(i, dport, daddr, usable)
  PROVE  SockInv'
PROOF
  <1> DEFINE si == Info(NextId, ChildType(sock[i].type), NewFd, sock[i].id,
                        sock[i].sport, sock[i].saddr, dport, daddr)
  <1>1. FreeFds # {} /\ ret' = ret /\ ret \in Results
    BY DEF Accept, SockInv, SockTypeOK
  <1>2. NewFd \in Fds /\ NewFd \notin openFds
    BY <1>1, NewFdIsFree
  <1>3. CASE ~usable
    BY <1>1, <1>3, LeakKeeps DEF Accept
  <1>4. CASE usable
    <2>1. Register(si)
      BY <1>4 DEF Accept
    <2>2. NextId \in Int
      BY NextIdType, SocketAssumption DEF SockInv, SockTypeOK
    <2>3. sock[i] \in SocketInfo
      BY DEF SockInv, SockTypeOK
    <2>4. ChildType(sock[i].type) \in Types
      BY DEF ChildType, Types, DataTypes
    <2>5. sock[i].id \in Int /\ sock[i].sport \in Ports \cup {0} /\ sock[i].saddr \in Addrs \cup {0}
      BY <2>3, FieldTypes
    <2>6. si \in SocketInfo /\ si.handle = NewFd /\ si.id = NextId
      BY <1>2, <2>2, <2>4, <2>5 DEF Info, SocketInfo
    <2> HIDE DEF si
    <2> QED
      BY <1>1, <1>2, <2>1, <2>6, RegisterKeeps
  <1> QED
    BY <1>3, <1>4

\* process_si_type_unixd keeps the invariant, also when accept() fails.
LEMMA UnixAcceptKeeps ==
  ASSUME SockInv, NEW accepted \in BOOLEAN, UnixAccept(accepted)
  PROVE  SockInv'
PROOF
  <1> DEFINE fd == IF accepted THEN NewFd ELSE BadFd
             si == Info(NextId, "UNIX_DATA", fd, 0, 0, 0, 0, 0)
  <1>1. Register(si) /\ ret' = ret
    BY DEF UnixAccept
  <1>2. fd \in Fds \cup {BadFd} /\ fd \notin openFds
    <2>1. BadFd \notin openFds
      BY SocketAssumption DEF BadFd, SockInv, SockTypeOK
    <2> QED
      BY <2>1, NewFdIsFree DEF UnixAccept
  <1>3. NextId \in Int
    BY NextIdType, SocketAssumption DEF SockInv, SockTypeOK
  <1>4. si \in SocketInfo /\ si.handle = fd /\ si.id = NextId
    <2> HIDE DEF fd
    <2> QED
      BY <1>2, <1>3 DEF Info, SocketInfo, Types, UnixTypes
  <1> HIDE DEF si, fd
  <1> QED
    BY <1>1, <1>2, <1>4, RegisterKeeps

\* process_si_type_udp keeps the invariant.
LEMMA UdpRecvKeeps ==
  ASSUME SockInv, NEW i \in DOMAIN sock, UdpRecv(i)
  PROVE  SockInv'
PROOF
  <1>1. sock[i] \in SocketInfo /\ ret' = ret /\ ret \in Results
    BY DEF UdpRecv, SockInv, SockTypeOK
  <1>2. sock[i].peer[1] \in DPorts \cup {0} /\ sock[i].peer[2] \in DAddrs \cup {0}
    BY <1>1, FieldTypes
  <1> QED
    BY <1>1, <1>2, RedirectKeeps DEF UdpRecv

\* The departure of a client keeps the invariant.
LEMMA DisconnectKeeps ==
  ASSUME SockInv, NEW i \in DOMAIN sock, Disconnect(i)
  PROVE  SockInv'
PROOF
  <1> DEFINE S == CloseSet(sock[i].id, 0) \cup CloseAll
  <1>1. CloseEntries(S) /\ ret' = ret
    BY DEF Disconnect
  <1>2. CloseSet(0, 0) = CloseAll
    BY DEF CloseSet
  <1>3. /\ S \in SUBSET DOMAIN sock /\ 1 \notin S
        /\ \A j \in S : IsAlive(j) /\ sock[j].handle \in openFds
    BY <1>2, CloseSetOK
  <1> HIDE DEF S
  <1> QED
    BY <1>1, <1>3, CloseEntriesKeeps

\* kSocketSend keeps the invariant.
LEMMA SendKeeps ==
  ASSUME SockInv, NEW id \in Int, NEW s \in SendOutcomes, kSocketSend(id, s)
  PROVE  SockInv'
PROOF
  <1> DEFINE i == kSocketGetSIBySocketId(id)
             refused == id < 1 \/ i = 0 \/ sock[i].type \notin {"DATA", "UDP", "RAW"}
  <1>1. UNCHANGED <<sock, sockId, readfds, openFds>>
    BY DEF kSocketSend
  <1>2. CASE refused
    BY <1>1, <1>2, NgType, OnlyRetKeeps DEF kSocketSend
  <1>3. CASE ~refused
    <2>1. i \in DOMAIN sock
      BY <1>3, WalkToRange DEF kSocketGetSIBySocketId, SockInv, SockTypeOK
    <2>2. sock[i].type \in Types /\ sock[i].handle \in Fds \cup {BadFd}
      BY <2>1, FieldTypes DEF SockInv, SockTypeOK
    <2>3. ret' = [fn |-> "SEND", type |-> sock[i].type, id |-> id,
                  ok |-> s # "fails" \/ sock[i].type = "RAW",
                  fd |-> IF s = "sent" THEN sock[i].handle ELSE BadFd]
      BY <1>3 DEF kSocketSend
    <2> HIDE DEF i
    <2>4. (s # "fails" \/ sock[i].type = "RAW") \in BOOLEAN
      OBVIOUS
    <2>5. (IF s = "sent" THEN sock[i].handle ELSE BadFd) \in Fds \cup {BadFd}
      BY <2>2
    <2>6. ret' \in Results
      BY <2>2, <2>3, <2>4, <2>5, SentType
    <2> QED
      BY <1>1, <2>6, OnlyRetKeeps
  <1> QED
    BY <1>2, <1>3

-----------------------------------------------------------------------------
(* The theorems *)

\* The table koid starts with satisfies the invariant.
LEMMA SockInitOK == SockInit => SockInv
PROOF
  <1> SUFFICES ASSUME SockInit PROVE SockInv
    OBVIOUS
  <1> DEFINE fd == Min(Fds)
             si == Info(1, "UNIX", fd, 0, 0, 0, 0, 0)
  <1>1. fd \in Fds /\ fd # BadFd
    <2>1. fd \in Fds
      BY MinIsLeast, SocketAssumption
    <2> HIDE DEF fd
    <2> QED
      BY <2>1, SocketAssumption DEF BadFd
  <1>2. sock = <<si>> /\ sockId = 1 /\ readfds = {fd} /\ openFds = {fd} /\ ret = Ng("INIT")
    BY DEF SockInit
  <1> HIDE DEF fd
  <1>3. /\ si \in SocketInfo
        /\ si.handle = fd /\ si.type = "UNIX" /\ si.status = "ALIVE"
    BY <1>1 DEF Info, SocketInfo, Types, UnixTypes
  <1> HIDE DEF si
  <1>4. SockTypeOK
    BY <1>1, <1>2, <1>3, NgType, SocketAssumption DEF SockTypeOK
  <1>5. DOMAIN sock = {1} /\ sock[1] = si
    BY <1>2
  <1> QED
    BY <1>1, <1>2, <1>3, <1>4, <1>5
    DEF SockInv, AliveHandlesDistinct, AliveAreServed, Alive, IsAlive

\* An operation on the table: a step of SockNext, or one for an id koid has given to nobody,
\* which clients can name as well.
SockStep ==
  \/ \E p \in Protocols, sp \in Ports, sa \in Addrs, dp \in DPorts, da \in DAddrs,
       o \in KernelOutcomes, parser \in BOOLEAN : Connect(p, sp, sa, dp, da, o, parser)
  \/ \E p \in Protocols, sp \in Ports, sa \in Addrs,
       o \in KernelOutcomes, parser \in BOOLEAN : Wait(p, sp, sa, o, parser)
  \/ \E i \in DOMAIN sock, dp \in DPorts, da \in DAddrs, usable \in BOOLEAN :
       Accept(i, dp, da, usable)
  \/ \E accepted \in BOOLEAN : UnixAccept(accepted)
  \/ \E i \in DOMAIN sock : UdpRecv(i)
  \/ \E id, garbage : kSocketClose(id, garbage)
  \/ \E i \in DOMAIN sock : Disconnect(i)
  \/ \E id \in Int, s \in SendOutcomes : kSocketSend(id, s)

\* The ids of the table, and those next to them, are integers.
LEMMA NextIsSockStep == SockInv /\ [SockNext]_sockVars => [SockStep]_sockVars
PROOF
  <1> SUFFICES ASSUME SockInv, SockNext PROVE SockStep
    OBVIOUS
  <1>1. sockId + 1 \in Int /\ \A i \in DOMAIN sock : sock[i].id \in Int
    BY FieldTypes, SocketAssumption DEF SockInv, SockTypeOK
  <1>2. KnownIds \subseteq Int
    BY <1>1 DEF KnownIds
  <1> QED
    BY <1>2 DEF SockNext, SockStep

\* Every operation on the table keeps the invariant.
LEMMA SockStepOK == SockInv /\ [SockStep]_sockVars => SockInv'
PROOF
  <1> SUFFICES ASSUME SockInv, [SockStep]_sockVars PROVE SockInv'
    OBVIOUS
  <1>1. ASSUME NEW p \in Protocols, NEW sp \in Ports, NEW sa \in Addrs, NEW dp \in DPorts,
               NEW da \in DAddrs, NEW o \in KernelOutcomes, NEW parser \in BOOLEAN,
               Connect(p, sp, sa, dp, da, o, parser)
        PROVE  SockInv'
    BY <1>1, ConnectKeeps
  <1>2. ASSUME NEW p \in Protocols, NEW sp \in Ports, NEW sa \in Addrs,
               NEW o \in KernelOutcomes, NEW parser \in BOOLEAN, Wait(p, sp, sa, o, parser)
        PROVE  SockInv'
    BY <1>2, WaitKeeps
  <1>3. ASSUME NEW i \in DOMAIN sock, NEW dp \in DPorts, NEW da \in DAddrs,
               NEW usable \in BOOLEAN, Accept(i, dp, da, usable)
        PROVE  SockInv'
    BY <1>3, AcceptKeeps
  <1>4. ASSUME NEW accepted \in BOOLEAN, UnixAccept(accepted)
        PROVE  SockInv'
    BY <1>4, UnixAcceptKeeps
  <1>5. ASSUME NEW i \in DOMAIN sock, UdpRecv(i)
        PROVE  SockInv'
    BY <1>5, UdpRecvKeeps
  <1>6. ASSUME NEW id, NEW garbage, kSocketClose(id, garbage)
        PROVE  SockInv'
    BY <1>6, CloseSetOK, CloseEntriesKeeps DEF kSocketClose
  <1>7. ASSUME NEW i \in DOMAIN sock, Disconnect(i)
        PROVE  SockInv'
    BY <1>7, DisconnectKeeps
  <1>8. ASSUME NEW id \in Int, NEW s \in SendOutcomes, kSocketSend(id, s)
        PROVE  SockInv'
    BY <1>8, SendKeeps
  <1>9. CASE UNCHANGED sockVars
    BY <1>9, OnlyRetKeeps DEF sockVars, SockInv, SockTypeOK
  <1> QED
    BY <1>1, <1>2, <1>3, <1>4, <1>5, <1>6, <1>7, <1>8, <1>9 DEF SockStep

\* The socket table is well formed in every state: the ids stay within a short, and
\* g_readfds and the results of the commands within their types.
THEOREM SockInvariance == SockSpec => []SockInv
PROOF
  <1> QED
    BY SockInitOK, NextIsSockStep, SockStepOK, PTL DEF SockSpec

\* Whatever is opened, refused, accepted, leaked or closed, two live sockets never share
\* a descriptor, although the kernel hands the descriptors of closed ones out again.
THEOREM HandlesDistinct == SockSpec => []AliveHandlesDistinct
PROOF
  <1>1. SockInv => AliveHandlesDistinct
    BY DEF SockInv
  <1> QED
    BY <1>1, SockInvariance, PTL

\* Every live socket keeps an open descriptor that select() waits on.
THEOREM AliveServed == SockSpec => []AliveAreServed
PROOF
  <1>1. SockInv => AliveAreServed
    BY DEF SockInv
  <1> QED
    BY <1>1, SockInvariance, PTL

\* No CLOSE, whatever its id, closes the command socket or takes it out of g_readfds.
THEOREM CommandSocketSurvives == SockSpec => []CommandSocketAlive
PROOF
  <1>1. SockInv => CommandSocketAlive
    BY DEF SockInv, CommandSocketAlive, AliveAreServed, Alive, IsAlive
  <1> QED
    BY <1>1, SockInvariance, PTL

-----------------------------------------------------------------------------
(* What a step does to the table *)

\* Entry i is given a new destination
Redirects ==
  /\ sockId' = sockId
  /\ \E i \in DOMAIN sock, dp \in DPorts \cup {0}, da \in DAddrs \cup {0} :
       sock' = [sock EXCEPT ![i].dport = dp, ![i].daddr = da]

\* The descriptor of a socket that was not opened is marked closed
Undoes ==
  /\ FreeFds # {} /\ sockId' \in {sockId, NextId}
  /\ sock' = kSocketMakeSocketStatusClose(NewFd)

\* An entry the openers and the handlers of listening sockets add: it has a descriptor that
\* was not open, unless accept() failed, and an accepted connection names a live socket.
NewEntry(si) ==
  /\ si \in SocketInfo /\ si.id = NextId /\ si.status = "ALIVE"
  /\ si.handle \notin openFds /\ (si.type # "UNIX_DATA" => si.handle # BadFd)
  /\ si.type = "DATA" => si.parent = 0 \/ \E i \in Alive : si.parent = sock[i].id

Enters(types) ==
  /\ sockId' = NextId /\ Len(sock) < MaxEntries
  /\ \E T, si : /\ T = sock \/ (FreeFds # {} /\ T = kSocketMakeSocketStatusClose(NewFd))
                /\ NewEntry(si) /\ si.type \in types
                /\ sock' = Append(T, si)

Closes ==
  \E id, garbage :
    \/ CloseEntries(CloseSet(id, garbage))
    \/ CloseEntries(CloseSet(id, garbage) \cup CloseAll)

\* One of these is what happens to the table, by what kinds of entries can be added.
TableOpens(types) ==
  /\ openFds \subseteq openFds'
  /\ UNCHANGED <<sock, sockId>> \/ Redirects \/ Undoes \/ Enters(types)

NetTypes == DataTypes \cup {"LISTEN_TCP"}

TableStep == TableOpens(Types) \/ Closes

\* A successful open enters the descriptor and the id it was given.
LEMMA OpenSucceedsStep ==
  ASSUME NEW fn, NEW si, FreeFds # {}, NewEntry(si), si.type \in NetTypes, si.handle = NewFd,
         OpenSucceeds(fn, si)
  PROVE  TableOpens(NetTypes)
PROOF
  BY DEF OpenSucceeds, TableOpens, Enters, NewEntry

\* Opening a socket for a client, undoing it or failing to
LEMMA OpenStep ==
  ASSUME SockInv, NEW o, Outcome(o), NEW type \in {"UDP", "DATA"}, NEW parser \in BOOLEAN,
         NEW sport \in Ports, NEW saddr \in Addrs, NEW dport \in DPorts, NEW daddr \in DAddrs,
         kSocketOpen(type, sport, saddr, dport, daddr, o, parser)
  PROVE  TableOpens(NetTypes)
PROOF
  <1> DEFINE unbound == o = "bindFails"
             inf == Info(NextId, type, NewFd, 0, IF unbound THEN 0 ELSE sport,
                         IF unbound THEN 0 ELSE saddr, dport, daddr)
             si == [inf EXCEPT !.peer = IF unbound THEN <<0, 0>> ELSE @]
  <1>1. \/ OpenFails("CONNECT")
        \/ o # "noSocket" /\ OpenUndone("CONNECT", sockId)
        \/ o # "noSocket" /\ OpenClosedHandle("CONNECT")
        \/ o # "noSocket" /\ OpenSucceeds("CONNECT", si)
    BY DEF kSocketOpen
  <1>2. o # "noSocket" => FreeFds # {}
    BY DEF Outcome
  <1>3. CASE o # "noSocket" /\ OpenSucceeds("CONNECT", si)
    <2>1. NewFd \in Fds /\ NewFd # BadFd /\ NewFd \notin openFds
      BY <1>2, <1>3, NewFdIsFree
    <2>2. NextId \in Int
      BY NextIdType, SocketAssumption DEF SockInv, SockTypeOK
    <2>3. /\ si \in SocketInfo /\ si.handle = NewFd /\ si.id = NextId /\ si.status = "ALIVE"
          /\ si.parent = 0 /\ si.type = type
      BY <2>1, <2>2 DEF Info, SocketInfo, Types, DataTypes
    <2> HIDE DEF si
    <2>4. NewEntry(si) /\ si.type \in NetTypes
      BY <2>1, <2>3 DEF NewEntry, NetTypes, DataTypes
    <2> QED
      BY <1>2, <1>3, <2>3, <2>4, OpenSucceedsStep
  <1> QED
    BY <1>1, <1>2, <1>3 DEF OpenFails, OpenUndone, OpenClosedHandle, TableOpens, Undoes

\* Opening a raw socket
LEMMA OpenRawStep ==
  ASSUME SockInv, NEW o, Outcome(o), NEW parser \in BOOLEAN, NEW fn \in {"CONNECT", "WAIT"},
         NEW saddr \in Addrs, NEW daddr \in DAddrs \cup {0},
         kSocketOpenRaw(fn, saddr, daddr, o, parser)
  PROVE  TableOpens(NetTypes)
PROOF
  <1> DEFINE si == Info(NextId, "RAW", NewFd, 0, 0, saddr, 0, daddr)
  <1>1. \/ OpenFails(fn)
        \/ o # "noSocket" /\ OpenUndone(fn, sockId)
        \/ o # "noSocket" /\ OpenSucceeds(fn, si)
    BY DEF kSocketOpenRaw
  <1>2. o # "noSocket" => FreeFds # {}
    BY DEF Outcome
  <1>3. CASE o # "noSocket" /\ OpenSucceeds(fn, si)
    <2>1. NewFd \in Fds /\ NewFd # BadFd /\ NewFd \notin openFds
      BY <1>2, <1>3, NewFdIsFree
    <2>2. NextId \in Int
      BY NextIdType, SocketAssumption DEF SockInv, SockTypeOK
    <2>3. /\ si \in SocketInfo /\ si.handle = NewFd /\ si.id = NextId /\ si.status = "ALIVE"
          /\ si.type = "RAW"
      BY <2>1, <2>2 DEF Info, SocketInfo, Types, DataTypes
    <2> HIDE DEF si
    <2>4. NewEntry(si) /\ si.type \in NetTypes
      BY <2>1, <2>3 DEF NewEntry, NetTypes, DataTypes
    <2> QED
      BY <1>2, <1>3, <2>3, <2>4, OpenSucceedsStep
  <1> QED
    BY <1>1, <1>2, <1>3 DEF OpenFails, OpenUndone, TableOpens, Undoes

\* Opening a listening socket
LEMMA OpenWaitStep ==
  ASSUME SockInv, NEW o, Outcome(o), NEW parser \in BOOLEAN,
         NEW type \in {"LISTEN_UDP", "LISTEN_TCP"}, NEW sport \in Ports, NEW saddr \in Addrs,
         kSocketOpenWaitSocket(type, sport, saddr, o, parser)
  PROVE  TableOpens(NetTypes)
PROOF
  <1> DEFINE si == Info(NextId, type, NewFd, 0, sport, saddr, 0, 0)
  <1>1. \/ UNCHANGED <<sock, sockId>> /\ openFds \subseteq openFds'
        \/ OpenFails("WAIT")
        \/ o # "noSocket" /\ OpenClosedHandle("WAIT")
        \/ o # "noSocket" /\ OpenUndone("WAIT", NextId)
        \/ o # "noSocket" /\ OpenSucceeds("WAIT", si)
    BY DEF kSocketOpenWaitSocket
  <1>2. o # "noSocket" => FreeFds # {}
    BY DEF Outcome
  <1>3. CASE o # "noSocket" /\ OpenSucceeds("WAIT", si)
    <2>1. NewFd \in Fds /\ NewFd # BadFd /\ NewFd \notin openFds
      BY <1>2, <1>3, NewFdIsFree
    <2>2. NextId \in Int /\ type \in Types
      BY NextIdType, SocketAssumption DEF SockInv, SockTypeOK, Types, DataTypes
    <2>3. /\ si \in SocketInfo /\ si.handle = NewFd /\ si.id = NextId /\ si.status = "ALIVE"
          /\ si.type = type
      BY <2>1, <2>2 DEF Info, SocketInfo
    <2> HIDE DEF si
    <2>4. NewEntry(si) /\ si.type \in NetTypes
      BY <2>1, <2>3 DEF NewEntry, NetTypes, DataTypes
    <2> QED
      BY <1>2, <1>3, <2>3, <2>4, OpenSucceedsStep
  <1> QED
    BY <1>1, <1>2, <1>3 DEF OpenFails, OpenUndone, OpenClosedHandle, TableOpens, Undoes

\* process_command_connect_req
LEMMA ConnectStep ==
  ASSUME SockInv, NEW p \in Protocols, NEW sport \in Ports, NEW saddr \in Addrs,
         NEW dport \in DPorts, NEW daddr \in DAddrs, NEW o, NEW parser \in BOOLEAN,
         Connect(p, sport, saddr, dport, daddr, o, parser)
  PROVE  TableOpens(NetTypes)
PROOF
  <1> DEFINE i == Reuse(p, sport, saddr, dport)
             type == ConnectType(p)
  <1>1. type \in {"UDP", "RAW", "DATA"}
    BY DEF ConnectType
  <1>2. Outcome(o)
    BY DEF Connect
  <1>3. CASE i # 0
    <2>1. kSocketCheckNewSocket(i, type, dport, daddr)
      BY <1>3 DEF Connect
    <2>2. i \in DOMAIN sock
      BY <1>3, ReuseInTable
    <2> HIDE DEF i, type
    <2> QED
      BY <2>1, <2>2 DEF kSocketCheckNewSocket, TableOpens, Redirects
  <1>4. CASE i = 0 /\ type = "RAW"
    BY <1>2, <1>4, OpenRawStep DEF Connect
  <1>5. CASE i = 0 /\ type # "RAW"
    <2>1. kSocketOpen(type, sport, saddr, dport, daddr, o, parser)
      BY <1>5 DEF Connect
    <2> HIDE DEF type
    <2> QED
      BY <1>1, <1>2, <1>5, <2>1, OpenStep
  <1> QED
    BY <1>3, <1>4, <1>5

\* process_si_type_listen: an accepted connection names the live socket it came in on.
LEMMA AcceptStep ==
  ASSUME SockInv, NEW i \in DOMAIN sock, NEW dport \in DPorts, NEW daddr \in DAddrs,
         NEW usable \in BOOLEAN, Accept(i, dport, daddr, usable)
  PROVE  TableOpens(NetTypes)
PROOF
  <1> DEFINE si == Info(NextId, ChildType(sock[i].type), NewFd, sock[i].id,
                        sock[i].sport, sock[i].saddr, dport, daddr)
  <1>1. FreeFds # {} /\ i \in Alive
    BY DEF Accept
  <1>2. /\ openFds \subseteq openFds'
        /\ \/ UNCHANGED <<sock, sockId>>
           \/ sockId' = NextId /\ Len(sock) < MaxEntries /\ sock' = Append(sock, si)
    BY DEF Accept, Register, Info
  <1>3. NewFd \in Fds /\ NewFd # BadFd /\ NewFd \notin openFds
    BY <1>1, NewFdIsFree
  <1>4. NextId \in Int
    BY NextIdType, SocketAssumption DEF SockInv, SockTypeOK
  <1>5. sock[i] \in SocketInfo
    BY DEF SockInv, SockTypeOK
  <1>6. ChildType(sock[i].type) \in Types
    BY DEF ChildType, Types, DataTypes
  <1>7. sock[i].id \in Int /\ sock[i].sport \in Ports \cup {0} /\ sock[i].saddr \in Addrs \cup {0}
    BY <1>5, FieldTypes
  <1>8. /\ si \in SocketInfo /\ si.handle = NewFd /\ si.id = NextId /\ si.status = "ALIVE"
        /\ si.parent = sock[i].id /\ si.type \in {"DATA", "UDP"}
    BY <1>3, <1>4, <1>6, <1>7 DEF Info, SocketInfo, ChildType
  <1> HIDE DEF si
  <1>9. NewEntry(si) /\ si.type \in NetTypes
    BY <1>1, <1>3, <1>8 DEF NewEntry, NetTypes, DataTypes
  <1> QED
    BY <1>2, <1>9 DEF TableOpens, Enters

\* process_si_type_unixd
LEMMA UnixAcceptStep ==
  ASSUME SockInv, NEW accepted \in BOOLEAN, UnixAccept(accepted)
  PROVE  TableOpens({"UNIX_DATA"})
PROOF
  <1> DEFINE fd == IF accepted THEN NewFd ELSE BadFd
             si == Info(NextId, "UNIX_DATA", fd, 0, 0, 0, 0, 0)
  <1>1. /\ openFds \subseteq openFds'
        /\ \/ UNCHANGED <<sock, sockId>>
           \/ sockId' = NextId /\ Len(sock) < MaxEntries /\ sock' = Append(sock, si)
    BY DEF UnixAccept, Register, Info
  <1>2. fd \in Fds \cup {BadFd} /\ fd \notin openFds
    <2>1. BadFd \notin openFds
      BY SocketAssumption DEF BadFd, SockInv, SockTypeOK
    <2> QED
      BY <2>1, NewFdIsFree DEF UnixAccept
  <1>3. NextId \in Int
    BY NextIdType, SocketAssumption DEF SockInv, SockTypeOK
  <1>4. /\ si \in SocketInfo /\ si.id = NextId /\ si.status = "ALIVE" /\ si.type = "UNIX_DATA"
        /\ si.handle = fd
    <2> HIDE DEF fd
    <2> QED
      BY <1>2, <1>3 DEF Info, SocketInfo, Types, UnixTypes
  <1> HIDE DEF si, fd
  <1>5. NewEntry(si)
    BY <1>2, <1>4 DEF NewEntry
  <1> QED
    BY <1>1, <1>4, <1>5 DEF TableOpens, Enters

\* The kinds do not matter to what the table keeps.
LEMMA OpensIsTableStep ==
  ASSUME NEW types, types \subseteq Types, TableOpens(types)
  PROVE  TableStep
PROOF
  BY DEF TableStep, TableOpens, Enters

\* Every step is a step of the table.
LEMMA StepIsTableStep == SockInv /\ [SockStep]_sockVars => TableStep
PROOF
  <1> SUFFICES ASSUME SockInv, [SockStep]_sockVars PROVE TableStep
    OBVIOUS
  <1>0. NetTypes \subseteq Types /\ {"UNIX_DATA"} \subseteq Types
    BY DEF NetTypes, Types, UnixTypes, DataTypes
  <1>1. ASSUME NEW p \in Protocols, NEW sp \in Ports, NEW sa \in Addrs, NEW dp \in DPorts,
               NEW da \in DAddrs, NEW o \in KernelOutcomes, NEW parser \in BOOLEAN,
               Connect(p, sp, sa, dp, da, o, parser)
        PROVE  TableStep
    BY <1>0, <1>1, ConnectStep, OpensIsTableStep
  <1>2. ASSUME NEW p \in Protocols, NEW sp \in Ports, NEW sa \in Addrs,
               NEW o \in KernelOutcomes, NEW parser \in BOOLEAN, Wait(p, sp, sa, o, parser)
        PROVE  TableStep
    <2>1. \/ kSocketOpenWaitSocket("LISTEN_UDP", sp, sa, o, parser)
          \/ kSocketOpenRaw("WAIT", sa, 0, o, parser)
          \/ kSocketOpenWaitSocket("LISTEN_TCP", sp, sa, o, parser)
      BY <1>2 DEF Wait
    <2>2. Outcome(o)
      BY <1>2 DEF Wait
    <2> QED
      BY <1>0, <2>1, <2>2, OpenWaitStep, OpenRawStep, OpensIsTableStep
  <1>3. ASSUME NEW i \in DOMAIN sock, NEW dp \in DPorts, NEW da \in DAddrs,
               NEW usable \in BOOLEAN, Accept(i, dp, da, usable)
        PROVE  TableStep
    BY <1>0, <1>3, AcceptStep, OpensIsTableStep
  <1>4. ASSUME NEW accepted \in BOOLEAN, UnixAccept(accepted)
        PROVE  TableStep
    BY <1>0, <1>4, UnixAcceptStep, OpensIsTableStep
  <1>5. ASSUME NEW i \in DOMAIN sock, UdpRecv(i)
        PROVE  TableStep
    <2>1. sock[i].peer[1] \in DPorts \cup {0} /\ sock[i].peer[2] \in DAddrs \cup {0}
      BY FieldTypes DEF SockInv, SockTypeOK
    <2> QED
      BY <1>5, <2>1 DEF UdpRecv, TableStep, TableOpens, Redirects
  <1>6. ASSUME NEW id, NEW garbage, kSocketClose(id, garbage)
        PROVE  TableStep
    BY <1>6 DEF kSocketClose, TableStep, Closes
  <1>7. ASSUME NEW i \in DOMAIN sock, Disconnect(i)
        PROVE  TableStep
    BY <1>7 DEF Disconnect, TableStep, Closes
  <1>8. ASSUME NEW id, NEW s, kSocketSend(id, s)
        PROVE  TableStep
    BY <1>8 DEF kSocketSend, TableStep, TableOpens
  <1>9. CASE UNCHANGED sockVars
    BY <1>9 DEF sockVars, TableStep, TableOpens
  <1> QED
    BY <1>1, <1>2, <1>3, <1>4, <1>5, <1>6, <1>7, <1>8, <1>9 DEF SockStep

\* A step trims the table, and may add one entry after that.
LEMMA TableStepTrims ==
  ASSUME SockInv, TableStep
  PROVE  \E T : /\ Trimmed(T)
                /\ \/ sock' = T
                   \/ Len(sock) < MaxEntries /\ \E si : NewEntry(si) /\ sock' = Append(T, si)
PROOF
  <1>1. CASE UNCHANGED <<sock, sockId>>
    BY <1>1, TrimmedSelf
  <1>2. CASE Redirects
    BY <1>2, RedirectTrims DEF Redirects
  <1>3. FreeFds # {} => Trimmed(kSocketMakeSocketStatusClose(NewFd))
    BY NewFdIsFree, MarkCloseTrims
  <1>4. CASE Undoes
    BY <1>3, <1>4 DEF Undoes
  <1>5. CASE Enters(Types)
    <2>1. PICK T, si : /\ T = sock \/ (FreeFds # {} /\ T = kSocketMakeSocketStatusClose(NewFd))
                       /\ NewEntry(si)
                       /\ sock' = Append(T, si)
      BY <1>5 DEF Enters
    <2>2. Trimmed(T)
      BY <1>3, <2>1, TrimmedSelf
    <2>3. Len(sock) < MaxEntries
      BY <1>5 DEF Enters
    <2> QED
      BY <2>1, <2>2, <2>3
  <1>6. CASE Closes
    <2>1. PICK id, garbage : \/ CloseEntries(CloseSet(id, garbage))
                             \/ CloseEntries(CloseSet(id, garbage) \cup CloseAll)
      BY <1>6 DEF Closes
    <2>2. CloseSet(id, garbage) \in SUBSET DOMAIN sock
      BY CloseSetOK
    <2>3. CloseAll \in SUBSET DOMAIN sock
      BY DEF CloseAll, Closable, Alive
    <2>4. CloseSet(id, garbage) \cup CloseAll \in SUBSET DOMAIN sock
      BY <2>2, <2>3
    <2>5. Trimmed(sock')
      BY <2>1, <2>2, <2>4, CloseEntriesTrims
    <2> QED
      BY <2>5
  <1> QED
    BY <1>1, <1>2, <1>4, <1>5, <1>6 DEF TableStep, TableOpens

\* What ClosedForGood says of a step
LEMMA ClosedStaysClosed ==
  ASSUME SockInv, TableStep
  PROVE  \A i \in DOMAIN sock :
           /\ i \in DOMAIN sock'
           /\ sock'[i].id = sock[i].id /\ sock'[i].handle = sock[i].handle
           /\ ~IsAlive(i) => sock'[i].status = "CLOSE"
PROOF
  <1>1. PICK T : /\ Trimmed(T)
                 /\ sock' = T \/ \E si : NewEntry(si) /\ sock' = Append(T, si)
    BY TableStepTrims
  <1>2. /\ T \in Seq(SocketInfo) /\ DOMAIN T = DOMAIN sock
        /\ \A i \in DOMAIN sock :
             /\ T[i].id = sock[i].id /\ T[i].handle = sock[i].handle
             /\ T[i].status = sock[i].status \/ T[i].status = "CLOSE"
    BY <1>1 DEF Trimmed
  <1>3. \A i \in DOMAIN T : i \in DOMAIN sock' /\ sock'[i] = T[i]
    <2>1. CASE sock' = T
      BY <2>1
    <2>2. ASSUME NEW si, NewEntry(si), sock' = Append(T, si)
          PROVE  \A i \in DOMAIN T : i \in DOMAIN sock' /\ sock'[i] = T[i]
      BY <1>2, <2>2 DEF NewEntry
    <2> QED
      BY <1>1, <2>1, <2>2
  <1>4. \A i \in DOMAIN sock : sock[i] \in SocketInfo
    BY DEF SockInv, SockTypeOK
  <1>5. \A i \in DOMAIN sock : sock[i].status \in {"ALIVE", "CLOSE"}
    BY <1>4 DEF SocketInfo
  <1> QED
    BY <1>2, <1>3, <1>5 DEF IsAlive

\* A socket koid has closed is never revived, and no entry loses its place, its id or its
\* descriptor: what a client or a timer still knows of it cannot become another socket's.
THEOREM ClosedForGoodHolds == SockSpec => ClosedForGood
PROOF
  <1>1. SockInv /\ [SockNext]_sockVars =>
          [\A i \in DOMAIN sock :
             /\ i \in DOMAIN sock'
             /\ sock'[i].id = sock[i].id /\ sock'[i].handle = sock[i].handle
             /\ ~IsAlive(i) => sock'[i].status = "CLOSE"]_sockVars
    BY NextIsSockStep, StepIsTableStep, ClosedStaysClosed
  <1> QED
    BY <1>1, SockInvariance, PTL DEF SockSpec, ClosedForGood

\* There is a live socket with the id of a successful CONNECT's answer.
AnswersLive ==
  ret'.fn = "CONNECT" /\ ret'.ok =>
    \E i \in DOMAIN sock' : sock'[i].id = ret'.id /\ sock'[i].status = "ALIVE"

\* An open that succeeds answers the id of the entry it has added.
LEMMA OpenAnswersLive ==
  ASSUME SockInv, NEW fn, NEW si, FreeFds # {}, si \in SocketInfo, si.handle = NewFd,
         si.status = "ALIVE", OpenSucceeds(fn, si)
  PROVE  AnswersLive
PROOF
  <1> DEFINE T == kSocketMakeSocketStatusClose(si.handle)
  <1>1. T \in Seq(SocketInfo)
    BY NewFdIsFree, MarkCloseTrims DEF Trimmed
  <1>2. sock' = Append(T, si) /\ ret'.id = si.id
    BY DEF OpenSucceeds, Ok
  <1> HIDE DEF T
  <1>3. Len(T) + 1 \in DOMAIN sock' /\ sock'[Len(T) + 1] = si
    BY <1>1, <1>2
  <1> QED
    BY <1>2, <1>3 DEF AnswersLive

\* process_command_connect_req answers the id of a live socket, new or used again.
LEMMA ConnectAnswers ==
  ASSUME SockInv, NEW p \in Protocols, NEW sport \in Ports, NEW saddr \in Addrs,
         NEW dport \in DPorts, NEW daddr \in DAddrs, NEW o, NEW parser \in BOOLEAN,
         Connect(p, sport, saddr, dport, daddr, o, parser)
  PROVE  AnswersLive
PROOF
  <1> DEFINE i == Reuse(p, sport, saddr, dport)
             type == ConnectType(p)
  <1>1. Outcome(o)
    BY DEF Connect
  <1>2. o # "noSocket" => FreeFds # {} /\ NewFd \in Fds
    BY <1>1, NewFdIsFree DEF Outcome
  <1>3. NextId \in Int
    BY NextIdType, SocketAssumption DEF SockInv, SockTypeOK
  <1>4. CASE i # 0
    <2>1. kSocketCheckNewSocket(i, type, dport, daddr)
      BY <1>4 DEF Connect
    <2>2. i \in DOMAIN sock /\ IsAlive(i)
      BY <1>4, ReuseInTable
    <2> HIDE DEF i, type
    <2>3. /\ sock' = [sock EXCEPT ![i].dport = dport, ![i].daddr = daddr]
          /\ ret'.id = sock[i].id
      BY <2>1 DEF kSocketCheckNewSocket, Ok
    <2>4. Trimmed(sock') /\ \A j \in DOMAIN sock : sock'[j].status = sock[j].status
      BY <2>2, <2>3, RedirectTrims
    <2> QED
      BY <2>2, <2>3, <2>4 DEF AnswersLive, Trimmed, IsAlive
  <1>5. CASE i = 0 /\ type = "RAW"
    <2> DEFINE si == Info(NextId, "RAW", NewFd, 0, 0, saddr, 0, daddr)
    <2>1. \/ ret' = Ng("CONNECT")
          \/ o # "noSocket" /\ OpenSucceeds("CONNECT", si)
      BY <1>5 DEF Connect, kSocketOpenRaw, OpenFails, OpenUndone
    <2>2. CASE o # "noSocket" /\ OpenSucceeds("CONNECT", si)
      <3>1. si \in SocketInfo /\ si.handle = NewFd /\ si.status = "ALIVE"
        BY <1>2, <1>3, <2>2 DEF Info, SocketInfo, Types, DataTypes
      <3> HIDE DEF si
      <3> QED
        BY <1>2, <2>2, <3>1, OpenAnswersLive
    <2> QED
      BY <2>1, <2>2 DEF AnswersLive, Ng
  <1>6. CASE i = 0 /\ type # "RAW"
    <2> DEFINE unbound == o = "bindFails"
               inf == Info(NextId, type, NewFd, 0, IF unbound THEN 0 ELSE sport,
                           IF unbound THEN 0 ELSE saddr, dport, daddr)
               si == [inf EXCEPT !.peer = IF unbound THEN <<0, 0>> ELSE @]
    <2>1. \/ ret' = Ng("CONNECT")
          \/ o # "noSocket" /\ OpenSucceeds("CONNECT", si)
      BY <1>6 DEF Connect, kSocketOpen, OpenFails, OpenUndone, OpenClosedHandle
    <2>2. CASE o # "noSocket" /\ OpenSucceeds("CONNECT", si)
      <3>1. type \in Types
        BY DEF ConnectType, Types, DataTypes
      <3>2. si \in SocketInfo /\ si.handle = NewFd /\ si.status = "ALIVE"
        <4> HIDE DEF type
        <4> QED
          BY <1>2, <1>3, <2>2, <3>1 DEF Info, SocketInfo
      <3> HIDE DEF si
      <3> QED
        BY <1>2, <2>2, <3>2, OpenAnswersLive
    <2> QED
      BY <2>1, <2>2 DEF AnswersLive, Ng
  <1> QED
    BY <1>4, <1>5, <1>6

\* No other operation changes what the last CONNECT has answered.
LEMMA StepAnswersLive ==
  ASSUME SockInv, SockStep, ret' # ret
  PROVE  AnswersLive
PROOF
  <1>1. ASSUME NEW p \in Protocols, NEW sp \in Ports, NEW sa \in Addrs, NEW dp \in DPorts,
               NEW da \in DAddrs, NEW o \in KernelOutcomes, NEW parser \in BOOLEAN,
               Connect(p, sp, sa, dp, da, o, parser)
        PROVE  AnswersLive
    BY <1>1, ConnectAnswers
  <1>2. ASSUME NEW p \in Protocols, NEW sp \in Ports, NEW sa \in Addrs,
               NEW o \in KernelOutcomes, NEW parser \in BOOLEAN, Wait(p, sp, sa, o, parser)
        PROVE  ret'.fn = "WAIT"
    <2>1. \/ kSocketOpenWaitSocket("LISTEN_UDP", sp, sa, o, parser)
          \/ kSocketOpenRaw("WAIT", sa, 0, o, parser)
          \/ kSocketOpenWaitSocket("LISTEN_TCP", sp, sa, o, parser)
      BY <1>2 DEF Wait
    <2>2. ret' = Ng("WAIT") \/ \E type, id : ret' = Ok("WAIT", type, id)
      BY <2>1 DEF kSocketOpenWaitSocket, kSocketOpenRaw, OpenFails, OpenUndone,
                  OpenClosedHandle, OpenSucceeds
    <2> QED
      BY <2>2 DEF Ok, Ng
  <1>3. ASSUME NEW id, NEW s, kSocketSend(id, s)
        PROVE  ret'.fn = "SEND"
    BY <1>3 DEF kSocketSend, Ng
  <1> QED
    BY <1>1, <1>2, <1>3
    DEF SockStep, Accept, UnixAccept, UdpRecv, kSocketClose, Disconnect, AnswersLive

\* The id a CONNECT is answered with is that of a live socket, in every table: also when
\* the socket is an old one used again, and when an id has been given back before.
THEOREM ConnectAnswersLiveHolds == SockSpec => ConnectAnswersLive
PROOF
  <1>1. SockInv /\ [SockNext]_sockVars =>
          [ret' # ret /\ ret'.fn = "CONNECT" /\ ret'.ok =>
             \E i \in DOMAIN sock' : sock'[i].id = ret'.id /\ sock'[i].status = "ALIVE"]_sockVars
    BY NextIsSockStep, StepAnswersLive DEF AnswersLive, sockVars
  <1> QED
    BY <1>1, SockInvariance, PTL DEF SockSpec, ConnectAnswersLive

-----------------------------------------------------------------------------
(* g_readfds *)

\* What an operation does to the descriptor sets keeps g_readfds open.
LEMMA DescriptorSteps ==
  ASSUME WatchedAreOpen, NEW fn, NEW si, NEW id, NEW S
  PROVE  /\ OpenFails(fn) => WatchedAreOpen'
         /\ OpenSucceeds(fn, si) => WatchedAreOpen'
         /\ OpenUndone(fn, id) => WatchedAreOpen'
         /\ Register(si) => WatchedAreOpen'
         /\ CloseEntries(S) => WatchedAreOpen'
PROOF
  BY DEF WatchedAreOpen, OpenFails, OpenSucceeds, OpenUndone, Register, CloseEntries

\* A step in which no setsockopt() fails keeps g_readfds open.
LEMMA WatchedStep ==
  ASSUME WatchedAreOpen, "sockoptFails" \notin KernelOutcomes, [SockStep]_sockVars
  PROVE  WatchedAreOpen'
PROOF
  <1>1. ASSUME NEW p, NEW sp, NEW sa, NEW dp, NEW da, NEW o \in KernelOutcomes, NEW parser,
               Connect(p, sp, sa, dp, da, o, parser)
        PROVE  WatchedAreOpen'
    <2>1. CASE Reuse(p, sp, sa, dp) # 0
      BY <1>1, <2>1 DEF Connect, kSocketCheckNewSocket, WatchedAreOpen
    <2>2. CASE kSocketOpenRaw("CONNECT", sa, da, o, parser)
      BY <2>2, DescriptorSteps DEF kSocketOpenRaw
    <2>3. CASE kSocketOpen(ConnectType(p), sp, sa, dp, da, o, parser)
      BY <2>3, DescriptorSteps DEF kSocketOpen
    <2> QED
      BY <1>1, <2>1, <2>2, <2>3 DEF Connect
  <1>2. ASSUME NEW p, NEW sp, NEW sa, NEW o \in KernelOutcomes, NEW parser,
               Wait(p, sp, sa, o, parser)
        PROVE  WatchedAreOpen'
    <2>1. ASSUME NEW type, kSocketOpenWaitSocket(type, sp, sa, o, parser)
          PROVE  WatchedAreOpen'
      BY <2>1, DescriptorSteps DEF kSocketOpenWaitSocket, WatchedAreOpen
    <2>2. CASE kSocketOpenRaw("WAIT", sa, 0, o, parser)
      BY <2>2, DescriptorSteps DEF kSocketOpenRaw
    <2> QED
      BY <1>2, <2>1, <2>2 DEF Wait
  <1>3. ASSUME NEW i, NEW dp, NEW da, NEW usable, Accept(i, dp, da, usable)
        PROVE  WatchedAreOpen'
    BY <1>3, DescriptorSteps DEF Accept, WatchedAreOpen
  <1>4. ASSUME NEW accepted, UnixAccept(accepted)
        PROVE  WatchedAreOpen'
    BY <1>4, DescriptorSteps DEF UnixAccept
  <1>5. ASSUME NEW id, NEW garbage, kSocketClose(id, garbage)
        PROVE  WatchedAreOpen'
    BY <1>5, DescriptorSteps DEF kSocketClose
  <1>6. ASSUME NEW i, Disconnect(i)
        PROVE  WatchedAreOpen'
    BY <1>6, DescriptorSteps DEF Disconnect
  <1>7. ASSUME UNCHANGED <<readfds, openFds>>
        PROVE  WatchedAreOpen'
    BY <1>7 DEF WatchedAreOpen
  <1> QED
    BY <1>1, <1>2, <1>3, <1>4, <1>5, <1>6, <1>7 DEF SockStep, UdpRecv, kSocketSend, sockVars

\* As long as setsockopt() does not fail, whatever else fails, no descriptor stays in
\* g_readfds once it is closed, and select() never fails with EBADF.
THEOREM WatchedAreOpenHolds ==
  ASSUME "sockoptFails" \notin KernelOutcomes
  PROVE  SockSpec => []WatchedAreOpen
PROOF
  <1>1. SockInit => WatchedAreOpen
    BY DEF SockInit, WatchedAreOpen
  <1>2. WatchedAreOpen /\ [SockStep]_sockVars => WatchedAreOpen'
    BY WatchedStep
  <1> QED
    BY <1>1, <1>2, NextIsSockStep, SockInvariance, PTL DEF SockSpec

-----------------------------------------------------------------------------
(* Listening sockets and the connections they have accepted *)

\* As long as the counter has not wrapped round, ids grow along the table, which is no
\* longer than the counter is large: an id names one entry, and no walk runs off the end.
IdsGrow ==
  /\ \A i \in DOMAIN sock : i <= sock[i].id /\ sock[i].id <= sockId
  /\ \A i, j \in DOMAIN sock : i < j => sock[i].id < sock[j].id

\* A connection is registered with the descriptor it was accepted on.
DataHasHandle == \A i \in Alive : sock[i].type = "DATA" => sock[i].handle # BadFd

ChildInv == SockInv /\ IdsGrow /\ DataHasHandle /\ ChildrenDieWithParent

\* T is the table with some destinations changed.
Quiet(T) == Trimmed(T) /\ \A i \in DOMAIN sock : T[i].status = sock[i].status

\* The table is never longer than a walk.
LEMMA TableFits ==
  ASSUME SockInv, IdsGrow
  PROVE  Len(sock) \in Nat /\ Len(sock) <= sockId /\ sockId <= SOCKET_MAXNUM /\ sockId \in Int
PROOF
  <1>1. sock \in Seq(SocketInfo) /\ sockId \in -(SOCKET_MAXNUM + 1)..SOCKET_MAXNUM
    BY DEF SockInv, SockTypeOK
  <1>2. Len(sock) \in Nat /\ Len(sock) \in DOMAIN sock
    BY <1>1 DEF SockInv
  <1>3. sock[Len(sock)].id \in Int
    BY <1>1, <1>2, FieldTypes
  <1> QED
    BY <1>1, <1>2, <1>3, SocketAssumption DEF IdsGrow

\* kSocketMakeSocketStatusClose of a new descriptor finds closed entries only.
LEMMA MarkCloseQuiet ==
  ASSUME SockInv, IdsGrow, FreeFds # {}
  PROVE  Quiet(kSocketMakeSocketStatusClose(NewFd))
PROOF
  <1> DEFINE S == {j \in DOMAIN sock : sock[j].handle = NewFd}
             i == WalkTo(S)
             seen == {j \in S : j <= SOCKET_MAXNUM}
             T == kSocketMakeSocketStatusClose(NewFd)
  <1>1. NewFd \in Fds /\ NewFd \notin openFds /\ NewFd # BadFd
    BY NewFdIsFree
  <1>2. Trimmed(T)
    BY <1>1, MarkCloseTrims
  <1>3. Len(sock) \in Nat /\ Len(sock) <= SOCKET_MAXNUM /\ sock \in Seq(SocketInfo)
    BY TableFits, SocketAssumption DEF SockInv, SockTypeOK
  <1>4. S \subseteq Nat
    BY <1>3
  <1>5. i = 0 \/ i \in S
    <2>1. seen # {} => Min(seen) \in seen
      BY <1>4, MinIsLeast
    <2>2. ~(Len(sock) > SOCKET_MAXNUM)
      BY <1>3, SocketAssumption
    <2> QED
      BY <2>1, <2>2 DEF WalkTo
  <1>6. CASE i = 0
    BY <1>2, <1>6 DEF kSocketMakeSocketStatusClose, Quiet
  <1>7. CASE i # 0
    <2>1. i \in DOMAIN sock /\ sock[i].handle = NewFd
      BY <1>5, <1>7
    <2>2. sock[i] \in SocketInfo
      BY <1>3, <2>1
    <2>3. sock[i].status = "CLOSE"
      <3>1. sock[i].status \in {"ALIVE", "CLOSE"}
        BY <2>2 DEF SocketInfo
      <3> QED
        BY <1>1, <2>1, <3>1 DEF SockInv, AliveAreServed, Alive, IsAlive
    <2>4. T = [sock EXCEPT ![i].status = "CLOSE"]
      BY <1>7 DEF kSocketMakeSocketStatusClose
    <2> HIDE DEF i, T
    <2>5. \A j \in DOMAIN sock : T[j] = IF j = i THEN [sock[i] EXCEPT !.status = "CLOSE"] ELSE sock[j]
      BY <1>3, <2>1, <2>4
    <2>6. [sock[i] EXCEPT !.status = "CLOSE"].status = "CLOSE"
      BY <2>2 DEF SocketInfo
    <2>7. \A j \in DOMAIN sock : T[j].status = sock[j].status
      BY <2>3, <2>5, <2>6
    <2> QED
      BY <1>2, <2>7 DEF Quiet, T
  <1> QED
    BY <1>6, <1>7

\* Unless it closes sockets, a step changes destinations and may add an entry.
LEMMA OpeningStep ==
  ASSUME SockInv, IdsGrow, NEW types, TableOpens(types)
  PROVE  \E T : /\ Quiet(T)
                /\ \/ sock' = T /\ sockId' \in {sockId, NextId}
                   \/ sockId' = NextId /\ \E si : /\ NewEntry(si) /\ si.type \in types
                                            /\ sock' = Append(T, si)
PROOF
  <1>1. Quiet(sock)
    BY TrimmedSelf DEF Quiet
  <1>2. CASE UNCHANGED <<sock, sockId>>
    BY <1>1, <1>2
  <1>3. CASE Redirects
    <2>1. Quiet(sock')
      BY <1>3, RedirectTrims DEF Redirects, Quiet
    <2> QED
      BY <1>3, <2>1 DEF Redirects
  <1>4. CASE Undoes
    BY <1>4, MarkCloseQuiet DEF Undoes
  <1>5. CASE Enters(types)
    <2>1. PICK T, si : /\ T = sock \/ (FreeFds # {} /\ T = kSocketMakeSocketStatusClose(NewFd))
                       /\ NewEntry(si) /\ si.type \in types
                       /\ sock' = Append(T, si)
      BY <1>5 DEF Enters
    <2>2. Quiet(T)
      BY <1>1, <2>1, MarkCloseQuiet
    <2> QED
      BY <1>5, <2>1, <2>2 DEF Enters
  <1> QED
    BY <1>2, <1>3, <1>4, <1>5 DEF TableOpens

\* A close that closes a listening socket closes every accepted connection.
LEMMA CloseTakesChildren ==
  ASSUME ChildInv, NEW id, NEW g, NEW S, S = CloseSet(id, g) \/ S = CloseSet(id, g) \cup CloseAll,
         NEW j \in S, sock[j].type = "LISTEN_TCP",
         NEW i \in Alive, sock[i].type = "DATA"
  PROVE  i \in S
PROOF
  <1>1. Len(sock) \in Nat /\ Len(sock) <= sockId /\ sockId <= SOCKET_MAXNUM /\ sockId \in Int
    BY TableFits DEF ChildInv
  <1>2. i \in 1..Len(sock)
    BY DEF Alive, ChildInv, SockInv, SockTypeOK
  <1>3. i \in Closable
    BY DEF Closable, UnixTypes, ChildInv, SockInv, DataHasHandle, AliveAreServed
  <1>4. i <= sockId /\ i <= SOCKET_MAXNUM
    BY <1>1, <1>2, SocketAssumption
  <1>5. i \in CloseAll
    BY <1>3, <1>4 DEF CloseAll
  <1>6. i \in CloseListener(id, g)
    BY <1>3, <1>4 DEF CloseListener
  <1>7. CASE j \notin CloseSet(id, g)
    BY <1>5, <1>7
  <1>8. CASE j \in CloseSet(id, g)
    <2> DEFINE k == kSocketGetSIBySocketId(id)
    <2>1. CASE id = 0
      BY <1>5, <1>8, <2>1 DEF CloseSet
    <2>2. CASE id # 0 /\ k = 0
      BY <1>8, <2>2 DEF CloseSet
    <2>3. CASE id # 0 /\ k # 0 /\ sock[k].type = "LISTEN_TCP"
      BY <1>6, <1>8, <2>3 DEF CloseSet
    <2>4. CASE id # 0 /\ k # 0 /\ sock[k].type # "LISTEN_TCP"
      <3>1. j \in CloseOne(id)
        BY <1>8, <2>4 DEF CloseSet
      <3>2. j = k
        BY <2>4, <3>1 DEF CloseOne, kSocketGetSIBySocketId
      <3> QED
        BY <2>4, <3>2
    <2> QED
      BY <2>1, <2>2, <2>3, <2>4
  <1> QED
    BY <1>7, <1>8

\* A close keeps the invariant.
LEMMA ClosingKeepsChildren ==
  ASSUME ChildInv, SockInv', Closes
  PROVE  ChildInv'
PROOF
  <1>1. PICK id, g : \/ CloseEntries(CloseSet(id, g))
                     \/ CloseEntries(CloseSet(id, g) \cup CloseAll)
    BY DEF Closes
  <1>2. PICK S : /\ S = CloseSet(id, g) \/ S = CloseSet(id, g) \cup CloseAll
                 /\ CloseEntries(S)
    BY <1>1
  <1>3. S \in SUBSET DOMAIN sock
    <2>1. CloseSet(id, g) \in SUBSET DOMAIN sock
      BY CloseSetOK DEF ChildInv
    <2>2. CloseAll \in SUBSET DOMAIN sock
      BY DEF CloseAll, Closable, Alive
    <2> QED
      BY <1>2, <2>1, <2>2
  <1>4. /\ Trimmed(sock')
        /\ \A i \in S : sock'[i].status = "CLOSE"
        /\ \A i \in DOMAIN sock \ S : sock'[i] = sock[i]
    BY <1>2, <1>3, CloseEntriesTrims DEF ChildInv
  <1>5. sockId' = sockId
    BY <1>2 DEF CloseEntries
  <1>6. IdsGrow'
    BY <1>4, <1>5 DEF ChildInv, IdsGrow, Trimmed
  <1>7. DataHasHandle'
    BY <1>4 DEF ChildInv, DataHasHandle, Trimmed, Alive, IsAlive
  <1>8. ASSUME NEW i \in DOMAIN sock', NEW j \in DOMAIN sock', i \in Alive',
               sock'[i].type = "DATA", sock'[i].parent = sock'[j].id,
               sock'[j].type = "LISTEN_TCP", j \notin Alive'
        PROVE  FALSE
    <2>1. /\ i \in DOMAIN sock /\ j \in DOMAIN sock /\ i \notin S
          /\ sock[i].type = "DATA" /\ sock[i].parent = sock[j].id /\ sock[j].type = "LISTEN_TCP"
      BY <1>4, <1>8 DEF Trimmed, Alive, IsAlive
    <2>2. i \in Alive
      BY <1>4, <1>8, <2>1 DEF Alive, IsAlive
    <2>3. j \in Alive
      BY <2>1, <2>2 DEF ChildInv, ChildrenDieWithParent
    <2>4. j \in S
      BY <1>4, <1>8, <2>1, <2>3 DEF Alive, IsAlive
    <2> QED
      BY <1>2, <2>1, <2>2, <2>4, CloseTakesChildren
  <1>9. ChildrenDieWithParent'
    BY <1>8 DEF ChildrenDieWithParent
  <1> QED
    BY <1>6, <1>7, <1>9 DEF ChildInv

\* An entry added without wrapping round keeps the invariant.
LEMMA OpeningKeepsChildren ==
  ASSUME ChildInv, SockInv', NEW types, TableOpens(types), sockId' > 0
  PROVE  ChildInv'
PROOF
  <1>1. PICK T : /\ Quiet(T)
                 /\ \/ sock' = T /\ sockId' \in {sockId, NextId}
                    \/ sockId' = NextId /\ \E si : NewEntry(si) /\ sock' = Append(T, si)
    BY OpeningStep DEF ChildInv
  <1>2. Len(sock) \in Nat /\ Len(sock) <= sockId /\ sockId <= SOCKET_MAXNUM /\ sockId \in Int
    BY TableFits DEF ChildInv
  <1>3. sockId' = NextId => sockId' = sockId + 1
    BY <1>2, SocketAssumption DEF NextId
  <1>4. /\ T \in Seq(SocketInfo) /\ DOMAIN T = DOMAIN sock /\ DOMAIN sock = 1..Len(sock)
        /\ \A i \in DOMAIN sock :
             /\ T[i].id = sock[i].id /\ T[i].type = sock[i].type /\ T[i].handle = sock[i].handle
             /\ T[i].parent = sock[i].parent /\ T[i].status = sock[i].status
    BY <1>1 DEF Quiet, Trimmed, ChildInv, SockInv, SockTypeOK
  <1>5. \A i \in DOMAIN sock : sock[i].id \in Int
    BY FieldTypes DEF ChildInv, SockInv, SockTypeOK
  <1>6. CASE sock' = T
    <2>0. /\ sockId' = sockId \/ sockId' = sockId + 1
          /\ DOMAIN sock' = DOMAIN sock /\ \A i \in DOMAIN sock : sock'[i].id = sock[i].id
      BY <1>1, <1>3, <1>4, <1>6
    <2>1. IdsGrow'
      BY <1>2, <1>4, <1>5, <2>0 DEF ChildInv, IdsGrow
    <2>2. DataHasHandle' /\ ChildrenDieWithParent'
      BY <1>4, <1>6 DEF ChildInv, DataHasHandle, ChildrenDieWithParent, Alive, IsAlive
    <2> QED
      BY <2>1, <2>2 DEF ChildInv
  <1>7. ASSUME sockId' = NextId, NEW si, NewEntry(si), sock' = Append(T, si)
        PROVE  ChildInv'
    <2> DEFINE n == Len(sock) + 1
    <2>1. Len(T) = Len(sock)
      BY <1>2, <1>4
    <2>2. /\ DOMAIN sock' = 1..n /\ sock'[n] = si
          /\ \A i \in DOMAIN sock : i \in DOMAIN sock' /\ i < n /\ sock'[i] = T[i]
          /\ \A i \in DOMAIN sock' : i \in DOMAIN sock \/ i = n
      BY <1>2, <1>4, <1>7, <2>1 DEF NewEntry
    <2>3. /\ si.id = sockId + 1 /\ si.status = "ALIVE"
          /\ si.type = "DATA" => si.handle # BadFd
          /\ si.type = "DATA" => si.parent = 0 \/ \E i \in Alive : si.parent = sock[i].id
      BY <1>3, <1>7 DEF NewEntry
    <2>4. IdsGrow'
      BY <1>2, <1>3, <1>4, <1>5, <1>7, <2>2, <2>3 DEF ChildInv, IdsGrow
    <2>5. DataHasHandle'
      BY <1>4, <2>2, <2>3 DEF ChildInv, DataHasHandle, Alive, IsAlive
    <2>6. ASSUME NEW i \in DOMAIN sock', NEW j \in DOMAIN sock', i \in Alive',
                 sock'[i].type = "DATA", sock'[i].parent = sock'[j].id,
                 sock'[j].type = "LISTEN_TCP", j \notin Alive'
          PROVE  FALSE
      <3>1. j \in DOMAIN sock /\ j \notin Alive /\ sock[j].type = "LISTEN_TCP"
            /\ sock'[j].id = sock[j].id
        BY <1>4, <2>2, <2>3, <2>6 DEF Alive, IsAlive
      <3>2. CASE i \in DOMAIN sock
        <4>1. i \in Alive /\ sock[i].type = "DATA" /\ sock[i].parent = sock[j].id
          BY <1>4, <2>2, <2>6, <3>1, <3>2 DEF Alive, IsAlive
        <4> QED
          BY <3>1, <3>2, <4>1 DEF ChildInv, ChildrenDieWithParent
      <3>3. CASE i = n
        <4>1. si.type = "DATA" /\ si.parent = sock[j].id
          BY <2>2, <2>6, <3>1, <3>3
        <4>2. sock[j].id # 0
          BY <1>4, <1>5, <3>1 DEF ChildInv, IdsGrow
        <4>3. PICK k \in Alive : sock[k].id = sock[j].id
          BY <2>3, <4>1, <4>2
        <4>4. k = j
          BY <1>4, <1>5, <3>1, <4>3 DEF ChildInv, IdsGrow, Alive
        <4> QED
          BY <3>1, <4>4
      <3> QED
        BY <2>2, <3>2, <3>3
    <2>7. ChildrenDieWithParent'
      BY <2>6 DEF ChildrenDieWithParent
    <2> QED
      BY <2>4, <2>5, <2>7 DEF ChildInv
  <1> QED
    BY <1>1, <1>6, <1>7

\* Every operation keeps it, unless the counter has wrapped round.
LEMMA ChildStep == ChildInv /\ SockInv' /\ [SockStep]_sockVars /\ sockId' > 0 => ChildInv'
PROOF
  BY StepIsTableStep, ClosingKeepsChildren, OpeningKeepsChildren DEF ChildInv, TableStep

\* The table koid starts with satisfies it.
LEMMA ChildInit == SockInit => ChildInv
PROOF
  <1>1. SockInit => IdsGrow /\ DataHasHandle /\ ChildrenDieWithParent
    BY DEF SockInit, Info, IdsGrow, DataHasHandle, ChildrenDieWithParent, Alive, IsAlive
  <1> QED
    BY <1>1, SockInitOK DEF ChildInv

\* As long as the id counter has not wrapped round, which only the opening of a raw socket
\* makes it do, the connections a listening socket has accepted are closed with it.  After
\* that they are not: CloseListener stops at the entry whose place is the counter's value.
THEOREM ChildrenDieHolds == SockSpec /\ [](sockId > 0) => []ChildrenDieWithParent
PROOF
  <1>1. ChildInv /\ SockInv' /\ [SockStep]_sockVars /\ (sockId > 0)' => ChildInv'
    BY ChildStep
  <1>2. ChildInv => ChildrenDieWithParent
    BY DEF ChildInv
  <1> QED
    BY <1>1, <1>2, ChildInit, NextIsSockStep, SockInvariance, PTL DEF SockSpec

\* Only a raw socket makes the counter wrap round.
LEMMA NoRawStep ==
  ASSUME "ICMP" \notin Protocols, SockInv, sockId > 0, [SockStep]_sockVars
  PROVE  sockId' > 0
PROOF
  <1>1. sockId \in Int /\ (sockId # SOCKET_MAXNUM => NextId > 0)
    BY SocketAssumption DEF NextId, SockInv, SockTypeOK
  <1>2. ASSUME NEW p \in Protocols, NEW sp, NEW sa, NEW dp, NEW da, NEW o, NEW parser,
               Connect(p, sp, sa, dp, da, o, parser)
        PROVE  sockId' > 0
    <2>1. ConnectType(p) # "RAW"
      BY DEF ConnectType
    <2>2. \/ sockId' = sockId
          \/ kSocketOpen(ConnectType(p), sp, sa, dp, da, o, parser)
      BY <1>2, <2>1 DEF Connect, kSocketCheckNewSocket
    <2>3. CASE kSocketOpen(ConnectType(p), sp, sa, dp, da, o, parser)
      <3>1. sockId' = sockId \/ (sockId # SOCKET_MAXNUM /\ sockId' = NextId)
        BY <2>3 DEF kSocketOpen, OpenFails, OpenUndone, OpenClosedHandle, OpenSucceeds, Info
      <3> QED
        BY <1>1, <3>1
    <2> QED
      BY <2>2, <2>3
  <1>3. ASSUME NEW p \in Protocols, NEW sp, NEW sa, NEW o, NEW parser, Wait(p, sp, sa, o, parser)
        PROVE  sockId' > 0
    <2>1. \E type : kSocketOpenWaitSocket(type, sp, sa, o, parser)
      BY <1>3 DEF Wait
    <2>2. sockId' = sockId \/ (sockId # SOCKET_MAXNUM /\ sockId' = NextId)
      BY <2>1 DEF kSocketOpenWaitSocket, OpenFails, OpenUndone, OpenClosedHandle,
                  OpenSucceeds, Info
    <2> QED
      BY <1>1, <2>2
  <1>4. ASSUME NEW si, Register(si), si.id = NextId
        PROVE  sockId' > 0
    BY <1>1, <1>4 DEF Register
  <1>5. ASSUME NEW i, NEW dp, NEW da, NEW usable, Accept(i, dp, da, usable)
        PROVE  sockId' > 0
    BY <1>4, <1>5 DEF Accept, Info
  <1>6. ASSUME NEW accepted, UnixAccept(accepted)
        PROVE  sockId' > 0
    BY <1>4, <1>6 DEF UnixAccept, Info
  <1> QED
    BY <1>2, <1>3, <1>5, <1>6
    DEF SockStep, UdpRecv, kSocketClose, Disconnect, CloseEntries, kSocketSend, sockVars

\* Without raw sockets the counter never wraps round, whatever the clients open.
THEOREM NoRawNoWrap ==
  ASSUME "ICMP" \notin Protocols
  PROVE  SockSpec => [](sockId > 0)
PROOF
  <1>1. SockInit => sockId > 0
    BY DEF SockInit
  <1>2. SockInv /\ sockId > 0 /\ [SockStep]_sockVars => (sockId > 0)'
    BY NoRawStep
  <1> QED
    BY <1>1, <1>2, NextIsSockStep, SockInvariance, PTL DEF SockSpec
=============================================================================
