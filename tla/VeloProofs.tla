------------------------------ MODULE VeloProofs ------------------------------
(***************************************************************************)
(* velo, for every set of commands and every interleaving of its main      *)
(* program with its SIGCHLD handler: the handler never waits for nothing,  *)
(* and no request for a command is answered twice or before it ended.      *)
(*                                                                         *)
(* The two are independent.  The first counts signals against zombies.     *)
(* The second follows a command on its way: asked for, forked, in cmdSet_, *)
(* answered, each once and in this order.                                  *)
(***************************************************************************)
EXTENDS Velo, SequenceTheorems, TLAPS

EndedStates == {"ended ok", "ended failed"}
ZombieStates == {"zombie ok", "zombie failed"}

\* A signal that comes while the handler runs stands for a second zombie: wait() takes
\* one, and the handler runs again.
SignalsHaveZombies ==
  /\ pending \/ handling => Zombies # {}
  /\ pending /\ handling => \E c, d \in Zombies : c # d

-----------------------------------------------------------------------------
\* An EXECUTE request velo has not read is the only one for its command, which has been
\* asked for and has no process yet.
RequestsAreFresh ==
  \A k \in DOMAIN down :
    /\ down[k].reqno \in asked
    /\ down[k].kind = "exec" =>
         /\ proc[down[k].reqno] = "none"
         /\ \A j \in DOMAIN down : down[j].kind = "exec" /\ down[j].reqno = down[k].reqno => j = k
    /\ down[k].kind = "cancel" => down[k].reqno \in cancels

\* cmdSet_, found empty, is so while the flag is looked at.
NoneKnownAtFlag == place = "flag" => cmdSet = {}

\* Only commands asked for have a process, and those velo knows of have one.
KnownHaveProcess ==
  /\ \A c \in Commands : proc[c] # "none" => c \in asked
  /\ \A c \in cmdSet \cup ({forked, found} \ {0}) : proc[c] # "none"
  /\ forked \notin cmdSet

\* velo has forgotten a command that is answered.
AnsweredAreForgotten ==
  \A c \in Commands : AnswersTo(c) # {} => proc[c] # "none" /\ c \notin cmdSet /\ c # forked

\* The cancel velo is at has not been answered; the command itself may have been.
CancelIsOpen ==
  found # 0 => found \in cancels /\ \A k \in AnswersTo(found) : ~ByCancel(k)

OnceInv ==
  /\ VeloTypeOK
  /\ NoneKnownAtFlag
  /\ RequestsAreFresh
  /\ KnownHaveProcess
  /\ AnsweredAreForgotten
  /\ CancelIsOpen
  /\ AnsweredPerRequest

-----------------------------------------------------------------------------
\* Nothing is asked for after a command that is cancelled.
CancelsTheLast == \A c \in Cancelled, d \in Commands : d <= c

\* No EXECUTE request follows a CANCEL request.
CancelsComeLast ==
  /\ cancels \subseteq Cancelled
  /\ \A k \in DOMAIN down : down[k].kind = "cancel" =>
       /\ down[k].reqno \in cancels
       /\ \A j \in DOMAIN down : j > k => down[j].kind # "exec"

\* A process that wait() has not taken is that of a command velo knows.
UnreapedAreKnown ==
  \A c \in Commands : proc[c] \in {"running"} \cup ZombieStates => c \in cmdSet \/ c = forked

\* No command will be forked any more.
NoMoreForks ==
  /\ forked = 0
  /\ \A k \in DOMAIN down : down[k].kind # "exec"
  /\ \E c \in asked : \A d \in Commands : d <= c

\* The command velo is about to kill is the last one.
FoundIsLast == found # 0 => NoMoreForks

\* The flag set by childEnd() is about the child expandRun() is about to note, unless
\* cmdSet_ keeps an ended command, which prevents that the flag is looked at, or it is
\* about to be cleared.
FlagIsAboutForked ==
  findFailed => \/ forked # 0 /\ proc[forked] \in EndedStates
                \/ \E d \in cmdSet : proc[d] \in EndedStates
                \/ place = "clear"
                \/ NoMoreForks

EndedInv ==
  /\ OnceInv
  /\ CancelsComeLast
  /\ UnreapedAreKnown
  /\ FoundIsLast
  /\ FlagIsAboutForked
  /\ AnsweredEnded

-----------------------------------------------------------------------------
(* Types *)

Requests == [kind : {"exec", "cancel"}, reqno : Commands]
Responses == [kind : {"exec", "cancel"}, reqno : Commands \cup {eCmdExec}, result : {-2, -1, 0, 1}]

\* What the dispatcher takes off the connection, and what it leaves on it.
LEMMA NextRequest ==
  ASSUME VeloTypeOK, NEW kind, NextIs(kind)
  PROVE  /\ ~pending /\ ~handling /\ place = "dispatcher"
         /\ 1 \in DOMAIN down /\ Head(down) = down[1]
         /\ down[1].reqno \in Commands /\ down[1].kind = kind
         /\ down' \in Seq(Requests)
         /\ DOMAIN down' = {k \in Nat \ {0} : k + 1 \in DOMAIN down}
         /\ \A k \in DOMAIN down' : down'[k] = down[k + 1] /\ down'[k].reqno \in Commands
PROOF
  <1>1. down \in Seq(Requests) /\ down # <<>> /\ down' = Tail(down)
    BY DEF NextIs, VeloTypeOK, Requests
  <1>2. /\ Head(down) = down[1] /\ 1 \in DOMAIN down
        /\ Tail(down) \in Seq(Requests) /\ Len(Tail(down)) = Len(down) - 1
        /\ \A k \in 1..Len(Tail(down)) : Tail(down)[k] = down[k + 1]
        /\ Len(down) \in Nat
    BY <1>1, EmptySeq, HeadTailProperties
  <1>3. DOMAIN down' = {k \in Nat \ {0} : k + 1 \in DOMAIN down}
    BY <1>1, <1>2
  <1>4. \A k \in DOMAIN down : down[k] \in Requests
    BY <1>1
  <1> QED
    BY <1>1, <1>2, <1>3, <1>4 DEF NextIs, MainRuns, Requests

\* The responses keep their kind when one is added.
LEMMA ReportType ==
  ASSUME VeloTypeOK, NEW kind \in {"exec", "cancel"}, NEW c \in Commands \cup {eCmdExec},
         NEW result \in {-2, -1, 0, 1}, report(kind, c, result), answers' = answers
  PROVE  \A s \in {up', answers'} : s \in Seq(Responses)
PROOF
  <1>1. up \in Seq(Responses) /\ answers \in Seq(Responses)
    BY DEF VeloTypeOK, Responses
  <1>2. Response(kind, c, result) \in Responses
    BY DEF Response, Responses
  <1>3. up' \in Seq(Responses)
    BY <1>1, <1>2, AppendProperties DEF report
  <1> QED
    BY <1>1, <1>3

\* Requests and responses, processes and sets keep their types.
LEMMA VeloTypeStep ==
  ASSUME VeloTypeOK, [VeloNext]_veloVars
  PROVE  VeloTypeOK'
PROOF
  <1> USE VeloAssumption
  <1>0. VeloTypeOK <=> /\ down \in Seq(Requests)
                       /\ \A s \in {up, answers} : s \in Seq(Responses)
                       /\ cancels \subseteq asked /\ asked \subseteq Commands
                       /\ place \in Places
                       /\ forked \in IF place \in {"count", "flag", "add"} THEN Commands ELSE {0}
                       /\ found \in IF place = "kill" THEN Commands ELSE {0}
                       /\ proc \in [Commands -> ProcStates]
                       /\ pending \in BOOLEAN /\ handling \in BOOLEAN /\ findFailed \in BOOLEAN
                       /\ cmdSet \subseteq Commands /\ refused \subseteq Commands
    BY DEF VeloTypeOK, Requests, Responses
  <1>1. ASSUME NEW c \in Commands, cmdexecRequest(c) PROVE VeloTypeOK'
    <2>1. Request("exec", c) \in Requests
      BY DEF Request, Requests
    <2>2. down' \in Seq(Requests)
      BY <1>0, <1>1, <2>1, AppendProperties DEF cmdexecRequest
    <2> QED
      BY <1>1, <2>2, <1>0 DEF cmdexecRequest, VeloTypeOK, Requests
  <1>2. ASSUME NEW c \in Commands, cmdcancelRequest(c) PROVE VeloTypeOK'
    <2>1. Request("cancel", c) \in Requests
      BY DEF Request, Requests
    <2>2. down' \in Seq(Requests)
      BY <1>0, <1>2, <2>1, AppendProperties DEF cmdcancelRequest
    <2> QED
      BY <1>2, <2>2, <1>0 DEF cmdcancelRequest, VeloTypeOK, Requests
  <1>3. ASSUME NEW c \in Commands, ProcessEnds(c) PROVE VeloTypeOK'
    BY <1>3 DEF ProcessEnds, VeloTypeOK, ProcStates
  <1>4. CASE cmdConfirm
    <2>1. Head(up) \in Responses /\ Tail(up) \in Seq(Responses)
      BY <1>0, <1>4, HeadTailProperties DEF cmdConfirm
    <2>2. up' \in Seq(Responses) /\ answers' \in Seq(Responses)
      BY <1>0, <1>4, <2>1, AppendProperties DEF cmdConfirm
    <2> QED
      BY <1>4, <2>2 DEF cmdConfirm, VeloTypeOK, Responses
  <1>5. CASE Vfork
    BY <1>5, NextRequest DEF Vfork, VeloTypeOK, Requests, ProcStates, Places
  <1>6. CASE VforkFails
    <2>1. \A s \in {up', answers'} : s \in Seq(Responses)
      BY <1>6, ReportType DEF VforkFails
    <2> QED
      BY <1>6, <2>1, NextRequest DEF VforkFails, VeloTypeOK, Requests, Responses
  <1>7. CASE CountCommands \/ ClearFlag \/ addCmd
    BY <1>7, <1>0 DEF CountCommands, ClearFlag, addCmd, VeloTypeOK, Places
  <1>7a. CASE LookAtFlag
    <2>1. \A s \in {up', answers'} : s \in Seq(Responses)
      BY <1>0, <1>7a, ReportType DEF LookAtFlag
    <2> QED
      BY <1>7a, <2>1 DEF LookAtFlag, VeloTypeOK, Responses, Places
  <1>8. CASE findPid
    BY <1>8, NextRequest DEF findPid, VeloTypeOK, Requests, Places
  <1>8a. CASE killFound
    <2>1. \A s \in {up', answers'} : s \in Seq(Responses)
      BY <1>0, <1>8a, ReportType DEF killFound
    <2>2. /\ proc' = proc \/ proc' = [proc EXCEPT ![found] = "zombie failed"]
          /\ pending' \in BOOLEAN /\ cmdSet' \subseteq Commands
      BY <1>8a DEF killFound, VeloTypeOK
    <2> QED
      BY <1>8a, <2>1, <2>2 DEF killFound, VeloTypeOK, Responses, ProcStates, Places
  <1>9. CASE SignalDelivered
    BY <1>9 DEF SignalDelivered, VeloTypeOK
  <1>10. ASSUME NEW c \in Commands, childEnd(c) PROVE VeloTypeOK'
    <2>1. \A s \in {up', answers'} : s \in Seq(Responses)
      BY <1>0, <1>10, ReportType DEF childEnd, Outcome
    <2>2. proc' \in [Commands -> ProcStates]
      BY <1>10 DEF childEnd, Reaped, VeloTypeOK, ProcStates
    <2> QED
      BY <1>10, <2>1, <2>2 DEF childEnd, VeloTypeOK, Responses
  <1>11. CASE UNCHANGED veloVars
    BY <1>11 DEF veloVars, VeloTypeOK
  <1> QED
    BY <1>1, <1>2, <1>3, <1>4, <1>5, <1>6, <1>7, <1>7a, <1>8, <1>8a, <1>9, <1>10, <1>11 DEF VeloNext, VeloStep

-----------------------------------------------------------------------------
(* The handler finds a child *)

\* Every step keeps a zombie for each signal.
LEMMA SignalsStep ==
  ASSUME VeloTypeOK, SignalsHaveZombies, [VeloNext]_veloVars
  PROVE  SignalsHaveZombies'
PROOF
  <1> USE DEF SignalsHaveZombies, Zombies
  <1>1. ASSUME NEW c \in Commands, cmdexecRequest(c) PROVE SignalsHaveZombies'
    BY <1>1 DEF cmdexecRequest
  <1>2. ASSUME NEW c \in Commands, cmdcancelRequest(c) PROVE SignalsHaveZombies'
    BY <1>2 DEF cmdcancelRequest
  <1>3. ASSUME NEW c \in Commands, ProcessEnds(c) PROVE SignalsHaveZombies'
    <2>1. Zombies' = Zombies \cup {c} /\ c \notin Zombies /\ handling' = handling
      BY <1>3 DEF ProcessEnds, VeloTypeOK
    <2> QED
      BY <2>1
  <1>4. CASE cmdConfirm
    BY <1>4 DEF cmdConfirm
  <1>5. CASE Vfork
    <2>1. ~pending /\ ~handling /\ ~handling'
      BY <1>5 DEF Vfork, NextIs, MainRuns
    <2>2. down[1].reqno \in Commands /\ Head(down) = down[1]
      BY <1>5, NextRequest DEF Vfork
    <2>3. pending' => down[1].reqno \in Zombies'
      BY <1>5, <2>1, <2>2 DEF Vfork, VeloTypeOK
    <2> QED
      BY <2>1, <2>3
  <1>6. CASE VforkFails
    BY <1>6 DEF VforkFails
  <1>7. CASE CountCommands \/ ClearFlag \/ addCmd \/ findPid
    <2>1. proc' = proc /\ pending' = pending /\ handling' = handling
      BY <1>7 DEF CountCommands, ClearFlag, addCmd, findPid
    <2> QED
      BY <2>1
  <1>7a. CASE LookAtFlag
    BY <1>7a DEF LookAtFlag
  <1>8. CASE killFound
    <2>1. ~pending /\ ~handling /\ ~handling'
      BY <1>8 DEF killFound, MainRuns
    <2>2. pending' => found \in Commands /\ found \in Zombies'
      BY <1>8, <2>1 DEF killFound, VeloTypeOK
    <2> QED
      BY <2>1, <2>2
  <1>9. CASE SignalDelivered
    BY <1>9 DEF SignalDelivered
  <1>10. ASSUME NEW c \in Commands, childEnd(c) PROVE SignalsHaveZombies'
    <2>1. /\ ~handling' /\ pending' = pending /\ handling
          /\ Zombies' = Zombies \ {c}
      BY <1>10 DEF childEnd, Reaped, VeloTypeOK
    <2> HIDE DEF Zombies
    <2>2. pending => \E d \in Zombies : d # c
      BY <2>1
    <2> QED
      BY <2>1, <2>2
  <1>11. CASE UNCHANGED veloVars
    BY <1>11 DEF veloVars
  <1> QED
    BY <1>1, <1>2, <1>3, <1>4, <1>5, <1>6, <1>7, <1>7a, <1>8, <1>9, <1>10, <1>11 DEF VeloNext, VeloStep

\* The initial state: no command, no signal.
LEMMA VeloTypeInit == VeloInit => VeloTypeOK /\ SignalsHaveZombies
PROOF
  <1> SUFFICES ASSUME VeloInit PROVE VeloTypeOK /\ SignalsHaveZombies
    OBVIOUS
  <1>1. \A R : <<>> \in Seq(R)
    OBVIOUS
  <1> QED
    BY <1>1 DEF VeloInit, VeloTypeOK, SignalsHaveZombies, ProcStates, Places

\* The types of the server's state.
THEOREM VeloTypes == VeloSpec => []VeloTypeOK
PROOF
  BY VeloTypeInit, VeloTypeStep, PTL DEF VeloSpec

\* The handler of SIGCHLD always finds a child: velo neither blocks in wait() nor exits.
THEOREM WaitFindsChildHolds == VeloSpec => []WaitFindsChild
PROOF
  <1>1. VeloTypeOK /\ SignalsHaveZombies /\ [VeloNext]_veloVars => SignalsHaveZombies'
    BY SignalsStep
  <1>2. SignalsHaveZombies => WaitFindsChild
    BY DEF SignalsHaveZombies, WaitFindsChild
  <1> QED
    BY <1>1, <1>2, VeloTypeInit, VeloTypes, PTL DEF VeloSpec

-----------------------------------------------------------------------------
(* Responses *)

\* cmdConfirm moves a response from one end of the connection to the other.
LEMMA ConfirmKeepsGiven == VeloTypeOK /\ cmdConfirm => Given' = Given
PROOF
  <1> SUFFICES ASSUME VeloTypeOK, cmdConfirm PROVE Given' = Given
    OBVIOUS
  <1>1. up \in Seq(Responses) /\ answers \in Seq(Responses) /\ up # <<>>
    BY DEF VeloTypeOK, Responses, cmdConfirm
  <1>2. /\ Head(up) \in Responses /\ Tail(up) \in Seq(Responses)
        /\ Len(Tail(up)) = Len(up) - 1 /\ Len(up) \in Nat /\ Len(answers) \in Nat
        /\ \A k \in 1..Len(Tail(up)) : Tail(up)[k] = up[k + 1]
        /\ Head(up) = up[1]
    BY <1>1, HeadTailProperties, EmptySeq
  <1>3. Append(answers, Head(up)) \o Tail(up) = answers \o up
    BY <1>1, <1>2
  <1> QED
    BY <1>3 DEF Given, cmdConfirm

\* The places of the responses to a command, when one is added to a sequence of them.
LEMMA PlacesAfterAppend ==
  ASSUME NEW s \in Seq(Responses), NEW r \in Responses, NEW d
  PROVE  /\ Append(s, r)[Len(s) + 1] = r /\ Len(s) + 1 \in Nat
         /\ \A k \in DOMAIN s : Append(s, r)[k] = s[k] /\ k < Len(s) + 1 /\ k \in Nat
         /\ {k \in DOMAIN Append(s, r) : Append(s, r)[k].reqno = d} =
              {k \in DOMAIN s : s[k].reqno = d} \cup (IF r.reqno = d THEN {Len(s) + 1} ELSE {})
PROOF
  <1>1. /\ Append(s, r)[Len(s) + 1] = r /\ Len(s) \in Nat
        /\ DOMAIN s = 1..Len(s) /\ DOMAIN Append(s, r) = 1..(Len(s) + 1)
        /\ \A k \in 1..Len(s) : Append(s, r)[k] = s[k]
    BY AppendProperties
  <1> QED
    BY <1>1

\* A report adds one response behind all the others.
LEMMA ReportExtends ==
  ASSUME VeloTypeOK, NEW kind \in {"exec", "cancel"}, NEW c \in Commands \cup {eCmdExec},
         NEW result \in {-2, -1, 0, 1}, report(kind, c, result), answers' = answers
  PROVE  /\ Given'[Len(Given) + 1].kind = kind /\ Given'[Len(Given) + 1].result = result
         /\ Len(Given) + 1 \in Nat
         /\ \A k \in DOMAIN Given : Given'[k] = Given[k] /\ k < Len(Given) + 1 /\ k \in Nat
         /\ \A d : AnswersTo(d)' = AnswersTo(d) \cup (IF d = c THEN {Len(Given) + 1} ELSE {})
PROOF
  <1> DEFINE r == Response(kind, c, result)
  <1>1. up \in Seq(Responses) /\ answers \in Seq(Responses) /\ r \in Responses
    BY DEF VeloTypeOK, Responses, Response
  <1>2. Given' = answers \o Append(up, r) /\ Given = answers \o up
    BY DEF Given, report
  <1>3. r.kind = kind /\ r.reqno = c /\ r.result = result
    BY DEF Response
  <1> HIDE DEF r
  <1>4. Given' = Append(Given, r) /\ Given \in Seq(Responses)
    BY <1>1, <1>2
  <1>5. ASSUME NEW d
        PROVE  AnswersTo(d)' = AnswersTo(d) \cup (IF d = c THEN {Len(Given) + 1} ELSE {})
    <2>1. {k \in DOMAIN Append(Given, r) : Append(Given, r)[k].reqno = d} =
            {k \in DOMAIN Given : Given[k].reqno = d} \cup (IF r.reqno = d THEN {Len(Given) + 1} ELSE {})
      BY <1>1, <1>4, PlacesAfterAppend
    <2> QED
      BY <1>3, <1>4, <2>1 DEF AnswersTo
  <1> QED
    BY <1>1, <1>3, <1>4, <1>5, PlacesAfterAppend

\* A process goes on: it does not vanish, and its status stays.
ProcessesGoOn ==
  \A d \in Commands  : /\ proc[d] # "none" => proc'[d] # "none"
                       /\ proc[d] = "ended ok" => proc'[d] = "ended ok"

\* velo does not take up again a command that is answered.
StayForgotten(c) ==
  AnswersTo(c) # {} => /\ c \in cmdSet' => c \in cmdSet
                       /\ c = forked' => c = forked

\* What the answers to command d must be like.
AnsweredRight(d) ==
  /\ \A j, k \in AnswersTo(d) :
       /\ ByCancel(j) = ByCancel(k) => j = k
       /\ ByCancel(k) => d \in cancels /\ j <= k
       /\ Given[k].kind = "exec" => proc[d] = "ended ok"
  /\ AnswersTo(d) # {} => proc[d] # "none" /\ d \notin cmdSet /\ d # forked

\* The answers to each command are right, when those to every one are.
LEMMA AllAnsweredRight ==
  /\ AnsweredPerRequest /\ AnsweredAreForgotten <=> \A d \in Commands : AnsweredRight(d)
  /\ AnsweredPerRequest' /\ AnsweredAreForgotten' <=> \A d \in Commands : AnsweredRight(d)'
PROOF
  BY DEF AnsweredPerRequest, AnsweredAreForgotten, AnsweredRight

\* The answers to a command that is given none stay right.
LEMMA UnansweredStaysRight ==
  ASSUME NEW d \in Commands, AnsweredRight(d), AnswersTo(d)' = AnswersTo(d),
         \A k \in AnswersTo(d) : Given'[k] = Given[k],
         ProcessesGoOn, StayForgotten(d), cancels \subseteq cancels'
  PROVE  AnsweredRight(d)'
PROOF
  <1>1. \A k \in AnswersTo(d) : ByCancel(k)' <=> ByCancel(k)
    BY DEF ByCancel
  <1>2. AnswersTo(d) # {} => /\ proc[d] # "none" => proc'[d] # "none"
                             /\ proc[d] = "ended ok" => proc'[d] = "ended ok"
                             /\ d \in cmdSet' => d \in cmdSet
                             /\ d = forked' => d = forked
    BY DEF ProcessesGoOn, StayForgotten
  <1>3. ASSUME NEW j \in AnswersTo(d)', NEW k \in AnswersTo(d)'
        PROVE  /\ ByCancel(j)' = ByCancel(k)' => j = k
               /\ ByCancel(k)' => d \in cancels' /\ j <= k
               /\ Given'[k].kind = "exec" => proc'[d] = "ended ok"
    <2>1. j \in AnswersTo(d) /\ k \in AnswersTo(d)
      BY <1>3
    <2>2. /\ ByCancel(j) = ByCancel(k) => j = k
          /\ ByCancel(k) => d \in cancels /\ j <= k
          /\ Given[k].kind = "exec" => proc[d] = "ended ok"
      BY <2>1 DEF AnsweredRight
    <2>3. (ByCancel(j)' <=> ByCancel(j)) /\ (ByCancel(k)' <=> ByCancel(k)) /\ Given'[k] = Given[k]
      BY <1>1, <2>1
    <2>4. /\ ByCancel(j) \in BOOLEAN /\ ByCancel(k) \in BOOLEAN
          /\ ByCancel(j)' \in BOOLEAN /\ ByCancel(k)' \in BOOLEAN
      BY DEF ByCancel
    <2> QED
      BY <1>2, <2>1, <2>2, <2>3, <2>4
  <1>4. AnswersTo(d)' # {} => proc'[d] # "none" /\ d \notin cmdSet' /\ d # forked'
    BY <1>2 DEF AnsweredRight
  <1> QED
    BY <1>3, <1>4 DEF AnsweredRight

\* velo goes on with the cancel it is at, is through with it, or takes one for a command
\* that is not answered.
CancelGoesOn ==
  \/ found' \in {0, found}
  \/ found' \in cancels' /\ AnswersTo(found') = {}

\* A step that gives no response, and leaves the commands that are answered alone.
LEMMA QuietKeepsOnce ==
  ASSUME AnsweredPerRequest, AnsweredAreForgotten, CancelIsOpen, Given' = Given,
         ProcessesGoOn, \A d \in Commands : StayForgotten(d),
         cancels \subseteq cancels', CancelGoesOn
  PROVE  AnsweredPerRequest' /\ AnsweredAreForgotten' /\ CancelIsOpen'
PROOF
  <1>1. /\ \A d : AnswersTo(d)' = AnswersTo(d)
        /\ \A k : ByCancel(k)' <=> ByCancel(k)
    BY DEF AnswersTo, ByCancel
  <1>2. \A d \in Commands : AnsweredRight(d)'
    BY <1>1, AllAnsweredRight, UnansweredStaysRight
  <1>3. CancelIsOpen'
    <2> SUFFICES ASSUME found' # 0
                 PROVE  found' \in cancels' /\ \A k \in AnswersTo(found)' : ~ByCancel(k)'
      BY DEF CancelIsOpen
    <2>1. found' = found \/ (found' \in cancels' /\ AnswersTo(found') = {})
      BY DEF CancelGoesOn
    <2>2. AnswersTo(found)' = AnswersTo(found')
      BY DEF AnswersTo
    <2>3. CASE found' = found
      BY <1>1, <2>1, <2>3 DEF CancelIsOpen
    <2>4. CASE found' \in cancels' /\ AnswersTo(found') = {}
      BY <2>2, <2>4
    <2> QED
      BY <2>1, <2>3, <2>4
  <1> QED
    BY <1>2, <1>3, AllAnsweredRight

\* The result of a cancel is none of those childEnd() and a failed vfork() report.
LEMMA Results == -2 # -1 /\ \A r \in {0, 1} : r # -1
PROOF
  OBVIOUS

\* A response is not behind itself.
LEMMA SamePlace == \A k \in Nat : k <= k
PROOF
  OBVIOUS

\* A step that answers a command, and forgets it: the command was not answered, or it is
\* the one being cancelled and the answer is to the cancel.
LEMMA ReportKeepsOnce ==
  ASSUME VeloTypeOK, AnsweredPerRequest, AnsweredAreForgotten, CancelIsOpen,
         NEW kind \in {"exec", "cancel"}, NEW c \in Commands \cup {eCmdExec},
         NEW result \in {-2, -1, 0, 1}, report(kind, c, result), answers' = answers,
         c \in Commands => /\ AnswersTo(c) = {} \/ result = -1
                           /\ proc'[c] # "none" /\ c \notin cmdSet' /\ c # forked'
                           /\ kind = "exec" => result # -1 /\ proc'[c] = "ended ok",
         result = -1 => c = found /\ found # 0 /\ found' = 0,
         found' = found \/ found' = 0, cancels' = cancels,
         ProcessesGoOn, \A d \in Commands \ {c} : StayForgotten(d)
  PROVE  /\ AnsweredPerRequest' /\ AnsweredAreForgotten' /\ CancelIsOpen'
         /\ \A d \in Commands \ {c} : AnswersTo(d)' = AnswersTo(d)
PROOF
  <1> PICK n : n = Len(Given) + 1
    OBVIOUS
  <1>1. /\ Given'[n].kind = kind /\ Given'[n].result = result /\ n \in Nat
        /\ \A k \in DOMAIN Given : Given'[k] = Given[k] /\ k < n /\ k \in Nat
        /\ \A d : AnswersTo(d)' = AnswersTo(d) \cup (IF d = c THEN {n} ELSE {})
    BY ReportExtends
  <1>c. n \in Nat
    BY <1>1
  <1>2. \A d : d # c => AnswersTo(d)' = AnswersTo(d)
    BY <1>1
  <1>a. \A d : AnswersTo(d) \subseteq DOMAIN Given
    BY DEF AnswersTo
  <1>b. /\ ByCancel(n)' <=> result = -1
        /\ \A k \in DOMAIN Given : ByCancel(k)' <=> ByCancel(k)
    BY <1>1 DEF ByCancel
  <1>3. ASSUME NEW d \in Commands PROVE AnsweredRight(d)'
    <2>1. CASE d = c /\ AnswersTo(c) = {}
      <3>1. /\ AnswersTo(d)' = {n} /\ Given'[n].kind = kind
            /\ result = -1 => d \in cancels'
            /\ proc'[d] # "none" /\ d \notin cmdSet' /\ d # forked'
            /\ kind = "exec" => proc'[d] = "ended ok"
        BY <1>1, <2>1 DEF CancelIsOpen
      <3>2. /\ ByCancel(n)' => d \in cancels' /\ n <= n
            /\ Given'[n].kind = "exec" => proc'[d] = "ended ok"
        BY <1>1, <1>b, <1>c, <3>1, SamePlace
      <3> QED
        BY <3>1, <3>2 DEF AnsweredRight
    <2>2. CASE d = c /\ AnswersTo(c) # {}
      <3>1. /\ result = -1 /\ c = found /\ d \in cancels' /\ kind # "exec"
            /\ \A k \in AnswersTo(d) : ~ByCancel(k)
            /\ proc'[d] # "none" /\ d \notin cmdSet' /\ d # forked'
        BY <2>2 DEF CancelIsOpen
      <3>2. /\ AnswersTo(d)' = AnswersTo(d) \cup {n} /\ ByCancel(n)'
            /\ \A k \in AnswersTo(d) : k < n /\ k \in Nat /\ ~ByCancel(k)' /\ Given'[k] = Given[k]
        BY <1>1, <1>a, <1>b, <2>2, <3>1
      <3>3. /\ \A j, k \in AnswersTo(d) : ByCancel(j) = ByCancel(k) => j = k
            /\ \A k \in AnswersTo(d) : Given[k].kind = "exec" => proc[d] = "ended ok"
        BY DEF AnsweredPerRequest
      <3>4. \A j, k \in AnswersTo(d) : j = k
        BY <3>1, <3>3 DEF ByCancel
      <3>5. ASSUME NEW j \in AnswersTo(d)', NEW k \in AnswersTo(d)'
            PROVE  /\ ByCancel(j)' = ByCancel(k)' => j = k
                   /\ ByCancel(k)' => d \in cancels' /\ j <= k
                   /\ Given'[k].kind = "exec" => proc'[d] = "ended ok"
        <4>1. j = n \/ j \in AnswersTo(d)
          BY <3>2
        <4>2. k = n \/ k \in AnswersTo(d)
          BY <3>2
        <4>3. proc[d] = "ended ok" => proc'[d] = "ended ok"
          BY DEF ProcessesGoOn
        <4>4. CASE k = n
          <5>1. Given'[k].kind # "exec" /\ ByCancel(k)' /\ j <= k
            BY <1>1, <3>1, <3>2, <4>1, <4>4
          <5>2. ByCancel(j)' => j = k
            BY <3>2, <4>1, <4>4
          <5> QED
            BY <3>1, <5>1, <5>2
        <4>5. CASE k \in AnswersTo(d)
          <5>1. ~ByCancel(k)' /\ (Given'[k].kind = "exec" => proc'[d] = "ended ok")
            BY <3>2, <3>3, <4>3, <4>5
          <5>2. ~ByCancel(j)' => j = k
            BY <3>2, <3>4, <4>1, <4>5
          <5> QED
            BY <5>1, <5>2 DEF ByCancel
        <4> QED
          BY <4>2, <4>4, <4>5
      <3> QED
        BY <3>1, <3>5 DEF AnsweredRight
    <2>3. CASE d # c
      <3>1. /\ AnswersTo(d)' = AnswersTo(d) /\ AnsweredRight(d) /\ StayForgotten(d)
            /\ \A k \in AnswersTo(d) : Given'[k] = Given[k]
        BY <1>1, <1>2, <1>a, <2>3, AllAnsweredRight
      <3> QED
        BY <3>1, UnansweredStaysRight
    <2> QED
      BY <2>1, <2>2, <2>3
  <1>4. CancelIsOpen'
    <2> SUFFICES ASSUME found' # 0
                 PROVE  found' \in cancels' /\ \A k \in AnswersTo(found)' : ~ByCancel(k)'
      BY DEF CancelIsOpen
    <2>1. found' = found /\ result # -1 /\ found \in cancels /\ \A k \in AnswersTo(found) : ~ByCancel(k)
      BY DEF CancelIsOpen
    <2>2. AnswersTo(found)' = AnswersTo(found) \cup (IF found = c THEN {n} ELSE {})
      <3>1. AnswersTo(found)' = {k \in DOMAIN Given' : Given'[k].reqno = found}
        BY <2>1 DEF AnswersTo
      <3>2. \A d : {k \in DOMAIN Given' : Given'[k].reqno = d} =
                     AnswersTo(d) \cup (IF d = c THEN {n} ELSE {})
        BY <1>1 DEF AnswersTo
      <3> QED
        BY <3>1, <3>2
    <2>3. ASSUME NEW k \in AnswersTo(found)' PROVE ~ByCancel(k)'
      <3>1. k = n \/ k \in AnswersTo(found)
        BY <2>2
      <3> QED
        BY <1>a, <1>b, <2>1, <3>1
    <2> QED
      BY <2>1, <2>3
  <1> QED
    BY <1>2, <1>3, <1>4, AllAnsweredRight

-----------------------------------------------------------------------------
(* No request is answered twice *)

\* A step that leaves the requests, and the processes of those not read, alone.
LEMMA QuietKeepsFresh ==
  ASSUME RequestsAreFresh, down' = down, asked' = asked, cancels' = cancels,
         \A c \in Commands : proc[c] = "none" => proc'[c] = "none",
         \A k \in DOMAIN down : down[k].reqno \in Commands
  PROVE  RequestsAreFresh'
PROOF
  BY DEF RequestsAreFresh

\* velo takes a request: the others are still fresh, if only its command gets a process.
LEMMA NextKeepsFresh ==
  ASSUME VeloTypeOK, RequestsAreFresh, NEW kind \in {"exec", "cancel"}, NextIs(kind), asked' = asked,
         cancels' = cancels,
         \A c \in Commands : proc[c] = "none" =>
           proc'[c] = "none" \/ (kind = "exec" /\ c = down[1].reqno)
  PROVE  RequestsAreFresh'
PROOF
  <1>1. /\ DOMAIN down' = {k \in Nat \ {0} : k + 1 \in DOMAIN down}
        /\ \A k \in DOMAIN down' : down'[k] = down[k + 1]
        /\ 1 \in DOMAIN down /\ down[1].kind = kind
        /\ \A k \in DOMAIN down' : down'[k].reqno \in Commands
    BY NextRequest
  <1>3. ASSUME NEW k \in DOMAIN down', down'[k].kind = "exec"
        PROVE  /\ proc'[down'[k].reqno] = "none"
               /\ \A j \in DOMAIN down' :
                    down'[j].kind = "exec" /\ down'[j].reqno = down'[k].reqno => j = k
    <2>1. k + 1 \in DOMAIN down /\ k + 1 # 1 /\ down[k + 1] = down'[k] /\ k \in Nat
      BY <1>1
    <2>2. proc[down'[k].reqno] = "none"
      BY <1>3, <2>1 DEF RequestsAreFresh
    <2>3. kind = "exec" => down'[k].reqno # down[1].reqno
      BY <1>1, <1>3, <2>1 DEF RequestsAreFresh
    <2>4. ASSUME NEW j \in DOMAIN down', down'[j].kind = "exec", down'[j].reqno = down'[k].reqno
          PROVE  j = k
      <3>1. j + 1 \in DOMAIN down /\ down[j + 1] = down'[j] /\ j \in Nat
        BY <1>1
      <3>2. j + 1 = k + 1
        BY <1>3, <2>1, <2>4, <3>1 DEF RequestsAreFresh
      <3> QED
        BY <2>1, <3>1, <3>2
    <2> QED
      BY <1>1, <2>2, <2>3, <2>4
  <1>4. ASSUME NEW k \in DOMAIN down'
        PROVE  /\ down'[k].reqno \in asked'
               /\ down'[k].kind = "cancel" => down'[k].reqno \in cancels'
    BY <1>1 DEF RequestsAreFresh
  <1> QED
    BY <1>3, <1>4 DEF RequestsAreFresh

\* A request is added behind the others; an EXECUTE request for a new command.
LEMMA RequestKeepsFresh ==
  ASSUME VeloTypeOK, RequestsAreFresh, NEW kind \in {"exec", "cancel"}, NEW c \in Commands,
         down' = Append(down, Request(kind, c)), asked' = asked \cup {c}, proc' = proc,
         kind = "exec" => c \notin asked /\ proc[c] = "none" /\ cancels' = cancels,
         kind = "cancel" => cancels' = cancels \cup {c}
  PROVE  RequestsAreFresh'
PROOF
  <1> DEFINE n == Len(down) + 1
             r == Request(kind, c)
  <1>1. r \in Requests /\ r.kind = kind /\ r.reqno = c /\ down \in Seq(Requests)
    BY DEF Request, Requests, VeloTypeOK
  <1> HIDE DEF r
  <1>2. /\ DOMAIN down = 1..Len(down) /\ DOMAIN down' = 1..n /\ Len(down) \in Nat
        /\ down'[n] = r /\ \A k \in 1..Len(down) : down'[k] = down[k]
    BY <1>1, AppendProperties DEF r
  <1>3. ASSUME NEW k \in DOMAIN down', k # n
        PROVE  k \in DOMAIN down /\ down'[k] = down[k]
    BY <1>2, <1>3
  <1>4. kind = "exec" => \A k \in DOMAIN down : down[k].reqno # c
    BY DEF RequestsAreFresh
  <1> HIDE DEF n
  <1>5. ASSUME NEW k \in DOMAIN down'
        PROVE  /\ down'[k].reqno \in asked'
               /\ down'[k].kind = "cancel" => down'[k].reqno \in cancels'
    BY <1>1, <1>2, <1>3 DEF RequestsAreFresh
  <1>6. ASSUME NEW k \in DOMAIN down', down'[k].kind = "exec"
        PROVE  /\ proc'[down'[k].reqno] = "none"
               /\ \A j \in DOMAIN down' :
                    down'[j].kind = "exec" /\ down'[j].reqno = down'[k].reqno => j = k
    <2>1. CASE k = n
      BY <1>1, <1>2, <1>3, <1>4, <1>6, <2>1
    <2>2. CASE k # n
      <3>1. k \in DOMAIN down /\ down[k] = down'[k]
        BY <1>3, <2>2
      <3>2. \A j \in DOMAIN down' :
              down'[j].kind = "exec" /\ down'[j].reqno = down'[k].reqno => j # n
        BY <1>1, <1>2, <1>4, <3>1
      <3> QED
        BY <1>3, <1>6, <3>1, <3>2 DEF RequestsAreFresh
    <2> QED
      BY <2>1, <2>2
  <1> QED
    BY <1>5, <1>6 DEF RequestsAreFresh

\* Only addCmd() adds to cmdSet_.
LEMMA NoneKnownAtFlagStep ==
  ASSUME NoneKnownAtFlag, [VeloNext]_veloVars
  PROVE  NoneKnownAtFlag'
PROOF
  <1> USE DEF NoneKnownAtFlag
  <1>1. ASSUME NEW c \in Commands, childEnd(c) PROVE cmdSet' \subseteq cmdSet /\ place' = place
    BY <1>1 DEF childEnd
  <1>2. CASE Vfork \/ CountCommands \/ LookAtFlag \/ ClearFlag \/ addCmd \/ killFound
    BY <1>2 DEF Vfork, CountCommands, LookAtFlag, ClearFlag, addCmd, killFound
  <1>3. CASE findPid
    BY <1>3 DEF findPid
  <1>4. CASE place' = place /\ cmdSet' \subseteq cmdSet
    BY <1>4
  <1> QED
    BY <1>1, <1>2, <1>3, <1>4 DEF VeloNext, VeloStep, cmdexecRequest, cmdcancelRequest, ProcessEnds,
       cmdConfirm, VforkFails, SignalDelivered, veloVars

\* Every step of velo and of the manager's side keeps a command on its way.
LEMMA OnceStep ==
  ASSUME eCmdExec \notin Commands, OnceInv, [VeloNext]_veloVars
  PROVE  OnceInv'
PROOF
  <1> USE VeloAssumption
  <1> USE DEF OnceInv
  <1>0. VeloTypeOK' /\ NoneKnownAtFlag'
    BY VeloTypeStep, NoneKnownAtFlagStep
  <1>t. /\ proc \in [Commands -> ProcStates] /\ cmdSet \subseteq Commands
        /\ forked \in Commands \cup {0} /\ found \in Commands \cup {0}
        /\ 0 \notin Commands /\ down \in Seq(Requests)
        /\ \A k \in DOMAIN down : down[k].reqno \in Commands
    <2>1. down \in Seq(Requests)
      BY DEF VeloTypeOK, Requests
    <2>2. ASSUME NEW k \in DOMAIN down PROVE down[k].reqno \in Commands
      <3>1. down[k] \in Requests
        BY <2>1
      <3> QED
        BY <3>1 DEF Requests
    <2> QED
      BY <2>1, <2>2 DEF VeloTypeOK
  <1> USE DEF StayForgotten, CancelGoesOn
  <1>1. ASSUME NEW c \in Commands, cmdexecRequest(c) PROVE OnceInv'
    <2>1. c \notin asked /\ proc[c] = "none"
      BY <1>1 DEF cmdexecRequest, KnownHaveProcess
    <2>2. RequestsAreFresh'
      BY <1>1, <2>1, RequestKeepsFresh DEF cmdexecRequest
    <2>3. KnownHaveProcess'
      BY <1>1 DEF cmdexecRequest, KnownHaveProcess
    <2>4. Given' = Given /\ ProcessesGoOn
      BY <1>1 DEF cmdexecRequest, Given, ProcessesGoOn
    <2>5. AnsweredPerRequest' /\ AnsweredAreForgotten' /\ CancelIsOpen'
      BY <1>1, <2>4, QuietKeepsOnce DEF cmdexecRequest
    <2> QED
      BY <1>0, <2>2, <2>3, <2>5
  <1>2. ASSUME NEW c \in Commands, cmdcancelRequest(c) PROVE OnceInv'
    <2>1. asked' = asked \cup {c}
      BY <1>2 DEF cmdcancelRequest
    <2>2. RequestsAreFresh'
      BY <1>2, <2>1, RequestKeepsFresh DEF cmdcancelRequest
    <2>3. KnownHaveProcess'
      BY <1>2 DEF cmdcancelRequest, KnownHaveProcess
    <2>4. Given' = Given /\ ProcessesGoOn
      BY <1>2 DEF cmdcancelRequest, Given, ProcessesGoOn
    <2>5. AnsweredPerRequest' /\ AnsweredAreForgotten' /\ CancelIsOpen'
      BY <1>2, <2>4, QuietKeepsOnce DEF cmdcancelRequest
    <2> QED
      BY <1>0, <2>2, <2>3, <2>5
  <1>3. ASSUME NEW c \in Commands, ProcessEnds(c) PROVE OnceInv'
    <2>1. /\ \A d \in Commands : d # c => proc'[d] = proc[d]
          /\ proc[c] = "running" /\ proc'[c] \in ZombieStates
      BY <1>3, <1>t DEF ProcessEnds, ZombieStates
    <2>2. RequestsAreFresh'
      BY <1>3, <1>t, <2>1, QuietKeepsFresh DEF ProcessEnds
    <2>3. KnownHaveProcess'
      BY <1>3, <1>t, <2>1 DEF ProcessEnds, KnownHaveProcess, ZombieStates
    <2>4. Given' = Given /\ ProcessesGoOn
      BY <1>3, <2>1 DEF ProcessEnds, Given, ProcessesGoOn, ZombieStates
    <2>5. AnsweredPerRequest' /\ AnsweredAreForgotten' /\ CancelIsOpen'
      BY <1>3, <2>4, QuietKeepsOnce DEF ProcessEnds
    <2> QED
      BY <1>0, <2>2, <2>3, <2>5
  <1>4. CASE cmdConfirm
    <2>1. RequestsAreFresh' /\ KnownHaveProcess'
      BY <1>4 DEF cmdConfirm, RequestsAreFresh, KnownHaveProcess
    <2>2. Given' = Given /\ ProcessesGoOn
      BY <1>4, ConfirmKeepsGiven DEF cmdConfirm, ProcessesGoOn
    <2>3. AnsweredPerRequest' /\ AnsweredAreForgotten' /\ CancelIsOpen'
      BY <1>4, <2>2, QuietKeepsOnce DEF cmdConfirm
    <2> QED
      BY <1>0, <2>1, <2>3
  <1>5. CASE Vfork
    <2> DEFINE c == down[1].reqno
    <2>1. /\ c \in Commands /\ 1 \in DOMAIN down /\ down[1].kind = "exec" /\ NextIs("exec")
          /\ Head(down) = down[1]
      BY <1>5, NextRequest DEF Vfork
    <2>2. c \in asked /\ proc[c] = "none"
      BY <2>1 DEF RequestsAreFresh
    <2>3. /\ forked' = c /\ \A d \in Commands : d # c => proc'[d] = proc[d]
          /\ proc'[c] # "none" /\ asked' = asked /\ cmdSet' = cmdSet
          /\ cancels' = cancels /\ found' = found
      BY <1>5, <1>t, <2>1 DEF Vfork
    <2>4. RequestsAreFresh'
      <3>1. \A d \in Commands : proc[d] = "none" => proc'[d] = "none" \/ d = down[1].reqno
        BY <2>3
      <3> QED
        BY <2>1, <2>3, <3>1, NextKeepsFresh
    <2> HIDE DEF c
    <2>5. c \notin cmdSet /\ AnswersTo(c) = {}
      BY <2>1, <2>2 DEF KnownHaveProcess, AnsweredAreForgotten
    <2>6. KnownHaveProcess'
      BY <1>t, <2>1, <2>2, <2>3, <2>5 DEF KnownHaveProcess
    <2>7. Given' = Given /\ ProcessesGoOn
      BY <1>5, <2>2, <2>3 DEF Vfork, Given, ProcessesGoOn
    <2>8. AnsweredPerRequest' /\ AnsweredAreForgotten' /\ CancelIsOpen'
      <3>1. cancels' = cancels /\ found' = found
        BY <1>5 DEF Vfork
      <3> QED
        BY <2>3, <2>5, <2>7, <3>1, QuietKeepsOnce
    <2> QED
      BY <1>0, <2>4, <2>6, <2>8
  <1>6. CASE VforkFails
    <2>1. RequestsAreFresh' /\ ProcessesGoOn
      <3>1. NextIs("exec") /\ asked' = asked /\ proc' = proc /\ cancels' = cancels
        BY <1>6 DEF VforkFails
      <3> QED
        BY <3>1, NextKeepsFresh DEF ProcessesGoOn
    <2>2. KnownHaveProcess'
      BY <1>6 DEF VforkFails, KnownHaveProcess
    <2>3. AnsweredPerRequest' /\ AnsweredAreForgotten' /\ CancelIsOpen'
      BY <1>6, <2>1, Results, ReportKeepsOnce DEF VforkFails
    <2> QED
      BY <1>0, <2>1, <2>2, <2>3
  <1>7. CASE CountCommands \/ ClearFlag \/ addCmd
    <2>1. /\ Given' = Given /\ proc' = proc /\ down' = down /\ asked' = asked
          /\ cancels' = cancels /\ found' = found
      BY <1>7 DEF CountCommands, ClearFlag, addCmd, Given
    <2>2. /\ RequestsAreFresh' /\ ProcessesGoOn
      BY <2>1 DEF RequestsAreFresh, ProcessesGoOn
    <2>3. \/ forked' = forked /\ cmdSet' = cmdSet
          \/ forked \in Commands /\ cmdSet' = cmdSet \cup {forked} /\ forked' = 0
      BY <1>7 DEF CountCommands, ClearFlag, addCmd, VeloTypeOK
    <2>4. KnownHaveProcess'
      BY <1>t, <2>1, <2>3 DEF KnownHaveProcess
    <2>5. forked \in Commands => AnswersTo(forked) = {}
      BY DEF AnsweredAreForgotten
    <2>6. AnsweredPerRequest' /\ AnsweredAreForgotten' /\ CancelIsOpen'
      BY <1>t, <2>1, <2>2, <2>3, <2>5, QuietKeepsOnce
    <2> QED
      BY <1>0, <2>2, <2>4, <2>6
  <1>7a. CASE LookAtFlag
    <2>1. /\ RequestsAreFresh' /\ ProcessesGoOn
      BY <1>7a DEF LookAtFlag, RequestsAreFresh, ProcessesGoOn
    <2>2. /\ forked \in Commands /\ proc[forked] # "none" /\ AnswersTo(forked) = {}
          /\ forked \notin cmdSet
      BY <1>7a, <1>t DEF LookAtFlag, KnownHaveProcess, AnsweredAreForgotten, VeloTypeOK
    <2>3. /\ cmdSet' = cmdSet /\ proc' = proc /\ cancels' = cancels /\ found' = found
          /\ answers' = answers /\ found = 0 /\ forked' \in {0, forked} /\ asked' = asked
      BY <1>7a DEF LookAtFlag, VeloTypeOK
    <2>4. KnownHaveProcess'
      BY <1>t, <2>3 DEF KnownHaveProcess
    <2>5. CASE findFailed
      <3>1. report("cancel", forked, 0) /\ forked' = 0
        BY <1>7a, <2>5 DEF LookAtFlag
      <3>2. AnsweredPerRequest' /\ AnsweredAreForgotten' /\ CancelIsOpen'
        BY <1>t, <2>1, <2>2, <2>3, <3>1, Results, ReportKeepsOnce
      <3> QED
        BY <1>0, <2>1, <2>4, <3>2
    <2>6. CASE ~findFailed
      <3>1. Given' = Given /\ forked' = forked
        BY <1>7a, <2>6 DEF LookAtFlag, Given
      <3>2. AnsweredPerRequest' /\ AnsweredAreForgotten' /\ CancelIsOpen'
        BY <2>1, <2>3, <3>1, QuietKeepsOnce
      <3> QED
        BY <1>0, <2>1, <2>4, <3>2
    <2> QED
      BY <2>5, <2>6
  <1>8. CASE findPid
    <2> DEFINE c == down[1].reqno
    <2>1. /\ c \in Commands /\ NextIs("cancel") /\ Head(down).reqno = c
          /\ 1 \in DOMAIN down /\ down[1].kind = "cancel"
      BY <1>8, NextRequest DEF findPid
    <2>2. c \in cancels
      BY <2>1 DEF RequestsAreFresh
    <2> HIDE DEF c
    <2>3. /\ asked' = asked /\ cancels' = cancels /\ proc' = proc /\ cmdSet' = cmdSet
          /\ forked' = forked /\ Given' = Given
          /\ found' = found \/ (c \in cmdSet /\ found' = c)
      BY <1>8, <2>1 DEF findPid, Given
    <2>4. RequestsAreFresh' /\ ProcessesGoOn
      BY <2>1, <2>3, NextKeepsFresh DEF ProcessesGoOn
    <2>5. KnownHaveProcess'
      BY <2>3 DEF KnownHaveProcess
    <2>6. c \in cmdSet => AnswersTo(c) = {}
      BY <2>1 DEF AnsweredAreForgotten
    <2>7. c \in cmdSet /\ found' = c => AnswersTo(found') = {}
      BY <2>6
    <2>8. AnsweredPerRequest' /\ AnsweredAreForgotten' /\ CancelIsOpen'
      BY <2>2, <2>3, <2>4, <2>7, QuietKeepsOnce
    <2> QED
      BY <1>0, <2>4, <2>5, <2>8
  <1>8a. CASE killFound
    <2>1. found \in Commands /\ found # 0 /\ found' = 0 /\ forked = 0
      BY <1>8a, <1>t DEF killFound, VeloTypeOK
    <2>2. /\ down' = down /\ asked' = asked /\ cancels' = cancels /\ answers' = answers
          /\ forked' = forked
          /\ \/ up' = up /\ cmdSet' = cmdSet /\ proc' = proc
             \/ /\ up' = up /\ cmdSet' = cmdSet /\ proc[found] = "running"
                /\ proc' = [proc EXCEPT ![found] = "zombie failed"]
             \/ report("cancel", found, -1) /\ cmdSet' = cmdSet \ {found} /\ proc' = proc
      BY <1>8a DEF killFound
    <2>3. proc[found] # "none"
      BY <2>1 DEF KnownHaveProcess
    <2>4. ProcessesGoOn /\ \A d \in Commands : proc[d] = "none" => proc'[d] = "none"
      BY <1>t, <2>1, <2>2 DEF ProcessesGoOn
    <2>5. RequestsAreFresh'
      BY <1>t, <2>2, <2>4, QuietKeepsFresh
    <2>6. KnownHaveProcess'
      BY <1>t, <2>1, <2>2, <2>4 DEF KnownHaveProcess, ProcessesGoOn
    <2>7. CASE up' = up /\ cmdSet' = cmdSet
      <3>1. Given' = Given
        BY <2>2, <2>7 DEF Given
      <3>2. AnsweredPerRequest' /\ AnsweredAreForgotten' /\ CancelIsOpen'
        BY <2>1, <2>2, <2>4, <2>7, <3>1, QuietKeepsOnce
      <3> QED
        BY <1>0, <2>5, <2>6, <3>2
    <2>8. CASE report("cancel", found, -1) /\ cmdSet' = cmdSet \ {found} /\ proc' = proc
      <3>1. proc'[found] # "none" /\ found \notin cmdSet' /\ found # forked'
        BY <2>1, <2>2, <2>3, <2>8
      <3>2. \A d \in Commands \ {found} : StayForgotten(d)
        BY <2>2, <2>8
      <3>3. AnsweredPerRequest' /\ AnsweredAreForgotten' /\ CancelIsOpen'
        BY <2>1, <2>2, <2>4, <2>8, <3>1, <3>2, ReportKeepsOnce
      <3> QED
        BY <1>0, <2>5, <2>6, <3>3
    <2> QED
      BY <2>2, <2>7, <2>8
  <1>9. CASE SignalDelivered
    <2>1. RequestsAreFresh' /\ KnownHaveProcess' /\ Given' = Given /\ ProcessesGoOn
      BY <1>9 DEF SignalDelivered, RequestsAreFresh, KnownHaveProcess, Given, ProcessesGoOn
    <2>2. AnsweredPerRequest' /\ AnsweredAreForgotten' /\ CancelIsOpen'
      BY <1>9, <2>1, QuietKeepsOnce DEF SignalDelivered
    <2> QED
      BY <1>0, <2>1, <2>2
  <1>10. ASSUME NEW c \in Commands, childEnd(c) PROVE OnceInv'
    <2>1. /\ proc[c] \in ZombieStates
          /\ proc'[c] = IF proc[c] = "zombie ok" THEN "ended ok" ELSE "ended failed"
          /\ \A d \in Commands : d # c => proc'[d] = proc[d]
          /\ down' = down /\ asked' = asked /\ answers' = answers /\ forked' = forked
          /\ cancels' = cancels /\ found' = found
      BY <1>10, <1>t DEF childEnd, Zombies, ZombieStates, Reaped
    <2>2. \/ c \in cmdSet /\ cmdSet' = cmdSet \ {c}
             /\ \E r \in {0, 1} : report(Outcome(c), c, r)
          \/ c \notin cmdSet /\ cmdSet' = cmdSet /\ up' = up
      BY <1>10 DEF childEnd
    <2>3. ProcessesGoOn
      BY <2>1 DEF ProcessesGoOn, ZombieStates
    <2>4. \A d \in Commands : proc[d] = "none" => proc'[d] = "none"
      BY <2>1 DEF ZombieStates
    <2>5. RequestsAreFresh'
      BY <1>t, <2>1, <2>4, QuietKeepsFresh
    <2>6. KnownHaveProcess'
      BY <1>t, <2>1, <2>2, <2>3, <2>4 DEF KnownHaveProcess, ProcessesGoOn
    <2>7. CASE c \in cmdSet
      <3>1. PICK r \in {0, 1} : report(Outcome(c), c, r)
        BY <2>2, <2>7
      <3>2. cmdSet' = cmdSet \ {c}
        BY <2>2, <2>7
      <3>3. /\ AnswersTo(c) = {} /\ proc'[c] # "none" /\ c \notin cmdSet' /\ c # forked'
            /\ Outcome(c) \in {"exec", "cancel"}
            /\ Outcome(c) = "exec" => proc'[c] = "ended ok"
        BY <2>1, <2>7, <3>2 DEF KnownHaveProcess, AnsweredAreForgotten, Outcome
      <3>4. AnsweredPerRequest' /\ AnsweredAreForgotten' /\ CancelIsOpen'
        BY <2>1, <2>3, <3>1, <3>2, <3>3, Results, ReportKeepsOnce
      <3> QED
        BY <1>0, <2>5, <2>6, <3>4
    <2>8. CASE c \notin cmdSet
      <3>1. Given' = Given
        BY <2>1, <2>2, <2>8 DEF Given
      <3>2. AnsweredPerRequest' /\ AnsweredAreForgotten' /\ CancelIsOpen'
        BY <2>1, <2>2, <2>3, <2>8, <3>1, QuietKeepsOnce
      <3> QED
        BY <1>0, <2>5, <2>6, <3>2
    <2> QED
      BY <2>7, <2>8
  <1>11. CASE UNCHANGED veloVars
    <2>1. RequestsAreFresh' /\ KnownHaveProcess' /\ Given' = Given /\ ProcessesGoOn
      BY <1>11 DEF veloVars, RequestsAreFresh, KnownHaveProcess, Given, ProcessesGoOn
    <2>2. AnsweredPerRequest' /\ AnsweredAreForgotten' /\ CancelIsOpen'
      BY <1>11, <2>1, QuietKeepsOnce DEF veloVars
    <2> QED
      BY <1>0, <2>1, <2>2
  <1> QED
    BY <1>1, <1>2, <1>3, <1>4, <1>5, <1>6, <1>7, <1>7a, <1>8, <1>8a, <1>9, <1>10, <1>11 DEF VeloNext, VeloStep

\* Nothing is asked for or answered at the start.
LEMMA OnceInit == VeloInit => OnceInv
PROOF
  <1> SUFFICES ASSUME VeloInit PROVE OnceInv
    OBVIOUS
  <1>1. Given = <<>> /\ VeloTypeOK
    BY VeloTypeInit DEF VeloInit, Given
  <1>2. \A c : AnswersTo(c) = {}
    BY <1>1 DEF AnswersTo
  <1> QED
    BY <1>1, <1>2 DEF VeloInit, OnceInv, NoneKnownAtFlag, RequestsAreFresh, KnownHaveProcess,
       AnsweredAreForgotten, CancelIsOpen, AnsweredPerRequest

\* An EXECUTE request is answered at most once and a CANCEL request at most once, after
\* the answer to what it cancels, and a command is reported as executed only when it ended
\* with status 0, wherever the signal comes and whichever commands are cancelled, as long
\* as no command has the number that the report of a failed vfork() carries.
THEOREM AnsweredPerRequestHolds ==
  ASSUME eCmdExec \notin Commands
  PROVE  VeloSpec => []AnsweredPerRequest
PROOF
  <1>1. OnceInv /\ [VeloNext]_veloVars => OnceInv'
    BY OnceStep
  <1>2. OnceInv => AnsweredPerRequest
    BY DEF OnceInv
  <1> QED
    BY <1>1, <1>2, OnceInit, PTL DEF VeloSpec

-----------------------------------------------------------------------------
(* No command is answered before it ended *)

\* Nothing is asked for after the command that is cancelled, so no EXECUTE request comes
\* behind a CANCEL request.
LEMMA CancelsStep ==
  ASSUME CancelsTheLast, OnceInv, CancelsComeLast, [VeloNext]_veloVars
  PROVE  CancelsComeLast'
PROOF
  <1> USE VeloAssumption
  <1>t. /\ down \in Seq(Requests) /\ cancels \subseteq asked /\ asked \subseteq Commands
        /\ Len(down) \in Nat /\ DOMAIN down = 1..Len(down)
    BY DEF OnceInv, VeloTypeOK, Requests
  <1>a. ASSUME NEW kind \in {"exec", "cancel"}, NEW c \in Commands,
               down' = Append(down, Request(kind, c))
        PROVE  /\ DOMAIN down' = 1..(Len(down) + 1)
               /\ \A k \in DOMAIN down : down'[k] = down[k]
               /\ down'[Len(down) + 1].kind = kind /\ down'[Len(down) + 1].reqno = c
    <2> DEFINE r == Request(kind, c)
    <2>1. r \in Requests /\ r.kind = kind /\ r.reqno = c
      BY DEF Request, Requests
    <2> HIDE DEF r
    <2>2. down' = Append(down, r)
      BY <1>a DEF r
    <2> QED
      BY <1>t, <2>1, <2>2, AppendProperties
  <1>b. ASSUME NEW kind \in {"exec", "cancel"}, NextIs(kind), cancels' = cancels
        PROVE  CancelsComeLast'
    <2>1. /\ DOMAIN down' = {k \in Nat \ {0} : k + 1 \in DOMAIN down}
          /\ \A k \in DOMAIN down' : down'[k] = down[k + 1]
      BY <1>b, NextRequest DEF OnceInv
    <2>2. ASSUME NEW k \in DOMAIN down', down'[k].kind = "cancel"
          PROVE  /\ down'[k].reqno \in cancels'
                 /\ \A j \in DOMAIN down' : j > k => down'[j].kind # "exec"
      <3>1. k + 1 \in DOMAIN down /\ down[k + 1].kind = "cancel" /\ k \in Nat
        BY <2>1, <2>2
      <3>2. down'[k].reqno \in cancels'
        BY <1>b, <2>1, <3>1 DEF CancelsComeLast
      <3>3. ASSUME NEW j \in DOMAIN down', j > k
            PROVE  down'[j].kind # "exec"
        <4>1. j + 1 \in DOMAIN down /\ down'[j] = down[j + 1] /\ j + 1 > k + 1
          BY <2>1, <3>1, <3>3
        <4> QED
          BY <3>1, <4>1 DEF CancelsComeLast
      <3> QED
        BY <3>2, <3>3
    <2> QED
      BY <1>b, <2>2 DEF CancelsComeLast
  <1>1. ASSUME NEW c \in Commands, cmdexecRequest(c) PROVE CancelsComeLast'
    <2>1. ASSUME NEW k \in DOMAIN down PROVE down[k].kind # "cancel"
      <3>1. SUFFICES ASSUME down[k].kind = "cancel" PROVE FALSE
        OBVIOUS
      <3>2. down[k].reqno \in Cancelled /\ down[k].reqno \in asked
        BY <1>t, <3>1 DEF CancelsComeLast
      <3>3. down[k].reqno < c /\ c <= down[k].reqno
        BY <1>1, <3>2 DEF cmdexecRequest, CancelsTheLast
      <3>4. down[k].reqno \in Commands
        BY <1>t, <3>2
      <3>5. down[k].reqno \in Nat /\ c \in Nat
        BY <3>4
      <3> QED
        BY <3>3, <3>5
    <2>2. down' = Append(down, Request("exec", c)) /\ cancels' = cancels
      BY <1>1 DEF cmdexecRequest
    <2>3. /\ DOMAIN down' = 1..(Len(down) + 1)
          /\ \A k \in DOMAIN down : down'[k] = down[k]
          /\ down'[Len(down) + 1].kind = "exec"
      BY <1>a, <2>2
    <2>4. \A k \in DOMAIN down' : down'[k].kind # "cancel"
      BY <1>t, <2>1, <2>3
    <2> QED
      BY <2>2, <2>4 DEF CancelsComeLast
  <1>2. ASSUME NEW c \in Commands, cmdcancelRequest(c) PROVE CancelsComeLast'
    <2>1. /\ down' = Append(down, Request("cancel", c))
          /\ cancels' = cancels \cup {c} /\ c \in Cancelled
      BY <1>2 DEF cmdcancelRequest
    <2>2. /\ DOMAIN down' = 1..(Len(down) + 1)
          /\ \A k \in DOMAIN down : down'[k] = down[k]
          /\ down'[Len(down) + 1].kind = "cancel" /\ down'[Len(down) + 1].reqno = c
      BY <1>a, <2>1
    <2>3. ASSUME NEW k \in DOMAIN down', down'[k].kind = "cancel"
          PROVE  /\ down'[k].reqno \in cancels'
                 /\ \A j \in DOMAIN down' : j > k => down'[j].kind # "exec"
      <3>1. CASE k = Len(down) + 1
        BY <1>t, <2>1, <2>2, <3>1
      <3>2. CASE k # Len(down) + 1
        <4>1. k \in DOMAIN down /\ down[k].kind = "cancel" /\ down'[k] = down[k]
          BY <1>t, <2>2, <2>3, <3>2
        <4>2. /\ down[k].reqno \in cancels
              /\ \A j \in DOMAIN down : j > k => down[j].kind # "exec"
          BY <4>1 DEF CancelsComeLast
        <4>3. ASSUME NEW j \in DOMAIN down', j > k PROVE down'[j].kind # "exec"
          <5>1. j = Len(down) + 1 \/ (j \in DOMAIN down /\ down'[j] = down[j])
            BY <1>t, <2>2
          <5> QED
            BY <2>2, <4>2, <4>3, <5>1
        <4> QED
          BY <2>1, <4>1, <4>2, <4>3
      <3> QED
        BY <3>1, <3>2
    <2> QED
      BY <2>1, <2>3 DEF CancelsComeLast
  <1>3. CASE Vfork \/ VforkFails \/ findPid
    BY <1>3, <1>b DEF Vfork, VforkFails, findPid
  <1>4. CASE down' = down /\ cancels' = cancels
    BY <1>4 DEF CancelsComeLast
  <1>5. \/ \E c \in Commands : cmdexecRequest(c) \/ cmdcancelRequest(c)
        \/ Vfork \/ VforkFails \/ findPid
        \/ down' = down /\ cancels' = cancels
    BY DEF VeloNext, VeloStep, ProcessEnds, cmdConfirm, CountCommands, LookAtFlag, ClearFlag,
       addCmd, killFound, SignalDelivered, childEnd, veloVars
  <1> QED
    BY <1>1, <1>2, <1>3, <1>4, <1>5

\* While velo forks no more, the flag does no harm; and what makes it so is not undone.
LEMMA NoMoreForksStep ==
  ASSUME OnceInv, NoMoreForks, [VeloNext]_veloVars
  PROVE  NoMoreForks'
PROOF
  <1> USE VeloAssumption DEF NoMoreForks
  <1>t. /\ down \in Seq(Requests) /\ asked \subseteq Commands
        /\ Len(down) \in Nat /\ DOMAIN down = 1..Len(down)
    BY DEF OnceInv, VeloTypeOK, Requests
  <1>1. ASSUME NEW c \in Commands, cmdexecRequest(c) PROVE FALSE
    <2>1. PICK d \in asked : \A e \in Commands : e <= d
      OBVIOUS
    <2>2. d < c /\ c <= d
      BY <1>1, <2>1 DEF cmdexecRequest
    <2>3. d \in Commands
      BY <1>t
    <2>4. d \in Nat /\ c \in Nat
      BY <2>3
    <2> QED
      BY <2>2, <2>4
  <1>2. ASSUME NEW c \in Commands, cmdcancelRequest(c) PROVE NoMoreForks'
    <2> DEFINE r == Request("cancel", c)
    <2>1. r \in Requests /\ r.kind = "cancel"
      BY DEF Request, Requests
    <2>2. down' = Append(down, r)
      BY <1>2 DEF cmdcancelRequest
    <2> HIDE DEF r
    <2>3. \A k \in DOMAIN down' : down'[k] = r \/ (k \in DOMAIN down /\ down'[k] = down[k])
      BY <1>t, <2>1, <2>2, AppendProperties
    <2>4. \A k \in DOMAIN down' : down'[k].kind # "exec"
      BY <2>1, <2>3
    <2> QED
      BY <1>2, <2>4 DEF cmdcancelRequest
  <1>3. CASE Vfork \/ VforkFails
    <2>1. NextIs("exec")
      BY <1>3 DEF Vfork, VforkFails
    <2> QED
      BY <2>1, NextRequest DEF OnceInv
  <1>4. CASE findPid
    <2>1. NextIs("cancel") /\ forked' = forked /\ asked' = asked
      BY <1>4 DEF findPid
    <2>2. \A k \in DOMAIN down' : k + 1 \in DOMAIN down /\ down'[k] = down[k + 1]
      BY <2>1, NextRequest DEF OnceInv
    <2> QED
      BY <2>1, <2>2
  <1>5. CASE down' = down /\ asked' = asked /\ forked' = forked
    BY <1>5
  <1>6. CASE LookAtFlag \/ addCmd
    <2>1. down' = down /\ asked' = asked /\ forked' \in {0, forked}
      BY <1>6 DEF LookAtFlag, addCmd
    <2> QED
      BY <2>1
  <1> QED
    BY <1>1, <1>2, <1>3, <1>4, <1>5, <1>6 DEF VeloNext, VeloStep, ProcessEnds, cmdConfirm,
       CountCommands, ClearFlag, killFound, SignalDelivered, childEnd, veloVars

\* When velo takes a CANCEL request, nothing is asked for any more.
LEMMA NoForksAfterCancel ==
  ASSUME CancelsTheLast, OnceInv, CancelsComeLast, NextIs("cancel"),
         forked' = forked, asked' = asked
  PROVE  NoMoreForks'
PROOF
  <1> DEFINE c == down[1].reqno
  <1>1. /\ c \in Commands /\ 1 \in DOMAIN down /\ down[1].kind = "cancel" /\ place = "dispatcher"
        /\ \A k \in DOMAIN down' : k \in Nat \ {0} /\ k + 1 \in DOMAIN down /\ down'[k] = down[k + 1]
    BY NextRequest DEF OnceInv
  <1>2. forked = 0
    BY <1>1 DEF OnceInv, VeloTypeOK
  <1>3. c \in cancels /\ \A j \in DOMAIN down : j > 1 => down[j].kind # "exec"
    BY <1>1 DEF CancelsComeLast
  <1>4. c \in asked /\ \A d \in Commands : d <= c
    BY <1>3 DEF CancelsComeLast, CancelsTheLast, OnceInv, VeloTypeOK
  <1>5. \A k \in DOMAIN down' : down'[k].kind # "exec"
    BY <1>1, <1>3
  <1> QED
    BY <1>2, <1>4, <1>5 DEF NoMoreForks

\* velo is at a cancel only when nothing is asked for any more.
LEMMA FoundIsLastStep ==
  ASSUME CancelsTheLast, OnceInv, CancelsComeLast, FoundIsLast, [VeloNext]_veloVars
  PROVE  FoundIsLast'
PROOF
  <1> USE DEF FoundIsLast
  <1>1. CASE findPid
    <2>1. NextIs("cancel") /\ forked' = forked /\ asked' = asked
      BY <1>1 DEF findPid
    <2> QED
      BY <2>1, NoForksAfterCancel
  <1>2. CASE found' \in {0, found}
    BY <1>2, NoMoreForksStep
  <1>3. findPid \/ found' \in {0, found}
    BY DEF VeloNext, VeloStep, cmdexecRequest, cmdcancelRequest, ProcessEnds, cmdConfirm, Vfork,
       VforkFails, CountCommands, LookAtFlag, ClearFlag, addCmd, killFound, SignalDelivered,
       childEnd, veloVars
  <1> QED
    BY <1>1, <1>2, <1>3

\* The flag is never about a child that still runs.
LEMMA FlagStep ==
  ASSUME OnceInv, UnreapedAreKnown, FoundIsLast, FlagIsAboutForked, [VeloNext]_veloVars
  PROVE  FlagIsAboutForked'
PROOF
  <1> USE VeloAssumption DEF EndedStates
  <1>t. /\ proc \in [Commands -> ProcStates] /\ cmdSet \subseteq Commands
        /\ forked \in Commands \cup {0}
    BY DEF OnceInv, VeloTypeOK
  <1>0. CASE NoMoreForks
    BY <1>0, NoMoreForksStep DEF FlagIsAboutForked
  <1>n. ASSUME ~NoMoreForks, findFailed' => findFailed, forked' = forked, cmdSet' = cmdSet,
               place' = place,
               \A c \in Commands : proc[c] \in EndedStates => proc'[c] \in EndedStates
        PROVE  FlagIsAboutForked'
    BY <1>n, <1>t DEF FlagIsAboutForked
  <1> SUFFICES ASSUME ~NoMoreForks PROVE FlagIsAboutForked'
    BY <1>0
  <1>1. ASSUME NEW c \in Commands, cmdexecRequest(c) PROVE FlagIsAboutForked'
    BY <1>1, <1>n DEF cmdexecRequest
  <1>2. ASSUME NEW c \in Commands, cmdcancelRequest(c) PROVE FlagIsAboutForked'
    BY <1>2, <1>n DEF cmdcancelRequest
  <1>3. ASSUME NEW c \in Commands, ProcessEnds(c) PROVE FlagIsAboutForked'
    <2>1. \A d \in Commands : proc[d] \in EndedStates => proc'[d] \in EndedStates
      BY <1>3, <1>t DEF ProcessEnds
    <2> QED
      BY <1>3, <1>n, <2>1 DEF ProcessEnds
  <1>4. CASE cmdConfirm
    BY <1>4, <1>n DEF cmdConfirm
  <1>5. CASE Vfork
    <2>1. /\ NextIs("exec") /\ 1 \in DOMAIN down /\ down[1].kind = "exec"
          /\ Head(down) = down[1] /\ down[1].reqno \in Commands /\ place = "dispatcher"
      BY <1>5, NextRequest DEF Vfork, OnceInv
    <2>a. forked = 0
      BY <2>1 DEF OnceInv, VeloTypeOK
    <2>2. proc[down[1].reqno] = "none"
      BY <2>1 DEF OnceInv, RequestsAreFresh
    <2>3. \A d \in Commands : proc[d] \in EndedStates => proc'[d] = proc[d]
      BY <1>5, <1>t, <2>1, <2>2 DEF Vfork
    <2>4. findFailed => \E d \in cmdSet : proc[d] \in EndedStates
      BY <2>1, <2>a DEF FlagIsAboutForked
    <2>5. findFailed' = findFailed /\ cmdSet' = cmdSet
      BY <1>5 DEF Vfork
    <2> QED
      BY <1>t, <2>3, <2>4, <2>5 DEF FlagIsAboutForked
  <1>6. CASE VforkFails
    BY <1>6, <1>n DEF VforkFails
  <1>7. CASE CountCommands
    BY <1>7 DEF CountCommands, FlagIsAboutForked
  <1>7a. CASE LookAtFlag
    BY <1>7a DEF LookAtFlag, FlagIsAboutForked
  <1>7b. CASE ClearFlag
    BY <1>7b DEF ClearFlag, FlagIsAboutForked
  <1>7c. CASE addCmd
    <2>1. /\ forked \in Commands /\ proc' = proc /\ findFailed' = findFailed
          /\ place # "clear" /\ cmdSet' = cmdSet \cup {forked}
      BY <1>7c DEF addCmd, OnceInv, VeloTypeOK
    <2> QED
      BY <2>1 DEF FlagIsAboutForked
  <1>8. CASE findPid
    BY <1>8 DEF findPid, NextIs, FlagIsAboutForked
  <1>8a. CASE killFound
    <2>1. found # 0
      BY <1>8a DEF killFound, OnceInv, VeloTypeOK
    <2> QED
      BY <2>1 DEF FoundIsLast
  <1>9. CASE SignalDelivered
    BY <1>9, <1>n DEF SignalDelivered
  <1>10. ASSUME NEW c \in Commands, childEnd(c) PROVE FlagIsAboutForked'
    <2>1. /\ proc[c] \in ZombieStates /\ proc'[c] \in EndedStates
          /\ \A d \in Commands : d # c => proc'[d] = proc[d]
          /\ forked' = forked /\ place' = place
      BY <1>10, <1>t DEF childEnd, Zombies, ZombieStates, Reaped
    <2>2. CASE c \in cmdSet
      <3>1. cmdSet' = cmdSet \ {c} /\ findFailed' = findFailed
        BY <1>10, <2>2 DEF childEnd
      <3> QED
        BY <1>t, <2>1, <3>1 DEF FlagIsAboutForked, ZombieStates
    <2>3. CASE c \notin cmdSet
      <3>1. c = forked
        BY <2>1, <2>3 DEF UnreapedAreKnown
      <3> QED
        BY <2>1, <3>1 DEF FlagIsAboutForked
    <2> QED
      BY <2>2, <2>3
  <1>11. CASE UNCHANGED veloVars
    BY <1>11, <1>n DEF veloVars
  <1> QED
    BY <1>1, <1>2, <1>3, <1>4, <1>5, <1>6, <1>7, <1>7a, <1>7b, <1>7c, <1>8, <1>8a, <1>9, <1>10, <1>11 DEF VeloNext, VeloStep

\* A process that runs, or that wait() has not taken, is that of a command velo knows, and
\* a command that is answered has ended.
LEMMA KnownStep ==
  ASSUME eCmdExec \notin Commands, OnceInv, UnreapedAreKnown, FlagIsAboutForked,
         AnsweredEnded, [VeloNext]_veloVars
  PROVE  UnreapedAreKnown' /\ AnsweredEnded'
PROOF
  <1> USE VeloAssumption DEF EndedStates, ZombieStates
  <1> DEFINE Over(c) == proc[c] \in ZombieStates \cup EndedStates
  <1>t. /\ VeloTypeOK /\ proc \in [Commands -> ProcStates] /\ cmdSet \subseteq Commands
        /\ forked \in Commands \cup {0} /\ found \in Commands \cup {0} /\ 0 \notin Commands
    BY DEF OnceInv, VeloTypeOK
  <1>0. \A c \in Commands : Over(c) <=> c \in Ended
    BY DEF Ended
  <1>a. ASSUME Given' = Given, \A c \in Commands : Over(c) => Over(c)'
        PROVE  AnsweredEnded'
    BY <1>a, <1>0 DEF AnsweredEnded, AnswersTo, Ended
  <1>b. ASSUME NEW kind \in {"exec", "cancel"}, NEW c \in Commands \cup {eCmdExec},
               NEW result \in {-2, -1, 0, 1}, report(kind, c, result), answers' = answers,
               c \in Commands => Over(c)', \A d \in Commands : Over(d) => Over(d)'
        PROVE  AnsweredEnded'
    <2>a. VeloTypeOK /\ report(kind, c, result) /\ answers' = answers
      BY <1>t, <1>b
    <2>0. \A e : AnswersTo(e)' = AnswersTo(e) \cup (IF e = c THEN {Len(Given) + 1} ELSE {})
      BY <2>a, ReportExtends
    <2>1. ASSUME NEW d, d # c PROVE AnswersTo(d)' = AnswersTo(d)
      <3>1. AnswersTo(d)' = AnswersTo(d) \cup (IF d = c THEN {Len(Given) + 1} ELSE {})
        BY <2>0
      <3> QED
        BY <2>1, <3>1
    <2>2. ASSUME NEW d \in Commands, AnswersTo(d)' # {} PROVE d \in Ended'
      <3>1. Over(d)'
        BY <1>0, <1>b, <2>1, <2>2 DEF AnsweredEnded
      <3> QED
        BY <3>1 DEF Ended
    <2> QED
      BY <2>2 DEF AnsweredEnded
  <1>c. ASSUME proc' = proc, forked' = forked, cmdSet' = cmdSet, Given' = Given
        PROVE  UnreapedAreKnown' /\ AnsweredEnded'
    BY <1>c, <1>a DEF UnreapedAreKnown
  <1>1. ASSUME NEW c \in Commands, cmdexecRequest(c) PROVE UnreapedAreKnown' /\ AnsweredEnded'
    BY <1>1, <1>c DEF cmdexecRequest, Given
  <1>2. ASSUME NEW c \in Commands, cmdcancelRequest(c) PROVE UnreapedAreKnown' /\ AnsweredEnded'
    BY <1>2, <1>c DEF cmdcancelRequest, Given
  <1>3. ASSUME NEW c \in Commands, ProcessEnds(c) PROVE UnreapedAreKnown' /\ AnsweredEnded'
    <2>1. /\ proc[c] = "running" /\ Over(c)' /\ \A d \in Commands : d # c => proc'[d] = proc[d]
          /\ forked' = forked /\ cmdSet' = cmdSet /\ Given' = Given
      BY <1>3, <1>t DEF ProcessEnds, Given
    <2>2. \A d \in Commands : Over(d) => Over(d)'
      BY <2>1
    <2> QED
      BY <1>a, <2>1, <2>2 DEF UnreapedAreKnown
  <1>4. CASE cmdConfirm
    BY <1>4, <1>t, <1>c, ConfirmKeepsGiven DEF cmdConfirm
  <1>5. CASE Vfork
    <2>1. /\ NextIs("exec") /\ 1 \in DOMAIN down /\ down[1].kind = "exec"
          /\ Head(down) = down[1] /\ down[1].reqno \in Commands /\ place = "dispatcher"
      BY <1>5, <1>t, NextRequest DEF Vfork
    <2>a. forked = 0
      BY <2>1, <1>t DEF VeloTypeOK
    <2>2. proc[down[1].reqno] = "none"
      BY <2>1 DEF OnceInv, RequestsAreFresh
    <2>3. /\ \A d \in Commands : d # down[1].reqno => proc'[d] = proc[d]
          /\ forked' = down[1].reqno /\ cmdSet' = cmdSet /\ Given' = Given
      BY <1>5, <1>t, <2>1 DEF Vfork, Given
    <2>4. \A d \in Commands : Over(d) => Over(d)'
      BY <2>2, <2>3
    <2>5. UnreapedAreKnown'
      BY <2>1, <2>a, <2>3 DEF UnreapedAreKnown
    <2> QED
      BY <1>a, <2>3, <2>4, <2>5
  <1>6. CASE VforkFails
    <2>1. UnreapedAreKnown'
      BY <1>6 DEF VforkFails, UnreapedAreKnown
    <2>2. report("exec", eCmdExec, -2) /\ answers' = answers /\ proc' = proc
      BY <1>6 DEF VforkFails
    <2>3. AnsweredEnded'
      BY <1>b, <2>2
    <2> QED
      BY <2>1, <2>3
  <1>7. CASE CountCommands \/ ClearFlag \/ findPid
    BY <1>7, <1>c DEF CountCommands, ClearFlag, findPid, Given
  <1>7a. CASE LookAtFlag
    <2>1. /\ place = "flag" /\ forked \in Commands /\ cmdSet = {} /\ proc' = proc
          /\ cmdSet' = cmdSet /\ answers' = answers
      BY <1>7a, <1>t DEF LookAtFlag, VeloTypeOK, OnceInv, NoneKnownAtFlag
    <2>2. CASE findFailed
      <3>1. proc[forked] \in EndedStates
        BY <1>t, <2>1, <2>2 DEF FlagIsAboutForked, NoMoreForks
      <3>2. report("cancel", forked, 0) /\ forked' = 0
        BY <1>7a, <2>2 DEF LookAtFlag
      <3>3. UnreapedAreKnown'
        BY <2>1, <3>1, <3>2 DEF UnreapedAreKnown
      <3>4. AnsweredEnded'
        BY <1>b, <2>1, <3>1, <3>2
      <3> QED
        BY <3>3, <3>4
    <2>3. CASE ~findFailed
      <3>1. forked' = forked /\ Given' = Given
        BY <1>7a, <2>3 DEF LookAtFlag, Given
      <3> QED
        BY <1>c, <2>1, <3>1
    <2> QED
      BY <2>2, <2>3
  <1>7b. CASE addCmd
    <2>1. forked \in Commands /\ proc' = proc /\ cmdSet' = cmdSet \cup {forked} /\ Given' = Given
      BY <1>7b, <1>t DEF addCmd, VeloTypeOK, Given
    <2>2. UnreapedAreKnown'
      BY <2>1 DEF UnreapedAreKnown
    <2> QED
      BY <1>a, <2>1, <2>2
  <1>8. CASE killFound
    <2>1. found \in Commands
      BY <1>8, <1>t DEF killFound, VeloTypeOK
    <2>2. /\ forked' = forked /\ answers' = answers
          /\ \/ proc' = proc /\ cmdSet' = cmdSet /\ up' = up
             \/ /\ proc[found] \in EndedStates /\ cmdSet' = cmdSet \ {found} /\ proc' = proc
                /\ report("cancel", found, -1)
             \/ /\ proc[found] = "running" /\ cmdSet' = cmdSet /\ up' = up
                /\ proc' = [proc EXCEPT ![found] = "zombie failed"]
      BY <1>8 DEF killFound
    <2>3. CASE proc' = proc /\ cmdSet' = cmdSet /\ up' = up
      BY <1>c, <2>2, <2>3 DEF Given
    <2>4. CASE /\ proc[found] \in EndedStates /\ cmdSet' = cmdSet \ {found} /\ proc' = proc
               /\ report("cancel", found, -1)
      <3>1. UnreapedAreKnown'
        BY <2>2, <2>4 DEF UnreapedAreKnown
      <3>2. AnsweredEnded'
        BY <1>b, <2>1, <2>2, <2>4
      <3> QED
        BY <3>1, <3>2
    <2>5. CASE /\ proc[found] = "running" /\ cmdSet' = cmdSet /\ up' = up
               /\ proc' = [proc EXCEPT ![found] = "zombie failed"]
      <3>1. \A d \in Commands : Over(d) => Over(d)'
        BY <1>t, <2>1, <2>5
      <3>2. UnreapedAreKnown'
        BY <1>t, <2>1, <2>2, <2>5 DEF UnreapedAreKnown
      <3>3. Given' = Given
        BY <2>2, <2>5 DEF Given
      <3> QED
        BY <1>a, <3>1, <3>2, <3>3
    <2> QED
      BY <2>2, <2>3, <2>4, <2>5
  <1>9. CASE SignalDelivered
    BY <1>9, <1>c DEF SignalDelivered, Given
  <1>10. ASSUME NEW c \in Commands, childEnd(c) PROVE UnreapedAreKnown' /\ AnsweredEnded'
    <2>1. /\ proc[c] \in ZombieStates /\ proc'[c] \in EndedStates
          /\ \A d \in Commands : d # c => proc'[d] = proc[d]
          /\ forked' = forked /\ answers' = answers /\ cmdSet' \subseteq cmdSet
          /\ cmdSet \ {c} \subseteq cmdSet'
      BY <1>10, <1>t DEF childEnd, Zombies, Reaped
    <2>2. \A d \in Commands : Over(d) => Over(d)'
      BY <2>1
    <2>3. UnreapedAreKnown'
      BY <2>1 DEF UnreapedAreKnown
    <2>4. CASE c \in cmdSet
      <3>1. PICK r \in {0, 1} : report(Outcome(c), c, r)
        BY <1>10, <2>4 DEF childEnd
      <3>2. Outcome(c) \in {"exec", "cancel"}
        BY DEF Outcome
      <3>3. AnsweredEnded'
        BY <1>b, <2>1, <2>2, <3>1, <3>2
      <3> QED
        BY <2>3, <3>3
    <2>5. CASE c \notin cmdSet
      <3>1. Given' = Given
        BY <1>10, <2>5 DEF childEnd, Given
      <3> QED
        BY <1>a, <2>2, <2>3, <3>1
    <2> QED
      BY <2>4, <2>5
  <1>11. CASE UNCHANGED veloVars
    BY <1>11, <1>c DEF veloVars, Given
  <1> QED
    BY <1>1, <1>2, <1>3, <1>4, <1>5, <1>6, <1>7, <1>7a, <1>7b, <1>8, <1>9, <1>10, <1>11 DEF VeloNext, VeloStep

\* No request is answered twice, and no command before it ended, as long as nothing is
\* asked for after a command that is cancelled, and no command has the number that the
\* report of a failed vfork() carries.
THEOREM AnsweredOnceEndedHolds ==
  ASSUME CancelsTheLast, eCmdExec \notin Commands
  PROVE  VeloSpec => []AnsweredOnceEnded
PROOF
  <1>1. VeloInit => EndedInv
    <2> SUFFICES ASSUME VeloInit PROVE EndedInv
      OBVIOUS
    <2>1. \A c : AnswersTo(c) = {}
      BY DEF VeloInit, AnswersTo, Given
    <2> QED
      BY <2>1, OnceInit DEF VeloInit, EndedInv, CancelsComeLast, UnreapedAreKnown, ZombieStates,
         FoundIsLast, FlagIsAboutForked, AnsweredEnded
  <1>2. EndedInv /\ [VeloNext]_veloVars => EndedInv'
    BY OnceStep, CancelsStep, FoundIsLastStep, FlagStep, KnownStep DEF EndedInv
  <1>3. EndedInv => AnsweredOnceEnded
    BY DEF EndedInv, OnceInv, AnsweredOnceEnded
  <1> QED
    BY <1>1, <1>2, <1>3, PTL DEF VeloSpec
=============================================================================
