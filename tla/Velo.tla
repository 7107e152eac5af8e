-------------------------------- MODULE Velo --------------------------------
(***************************************************************************)
(* velo, the command server of vel (lib/Tg/TeServer.cc), and the way of a  *)
(* command to it and back.  vela forwards an EXECUTE request of the        *)
(* manager on one connection (down); velo runs the command in a child      *)
(* process and answers on the same connection (up) when the child ended,   *)
(* or, if that came too early, when it would have noted the child.         *)
(*                                                                         *)
(* velo has one thread, and a handler of SIGCHLD that interrupts it.  A    *)
(* signal that is pending is delivered before the interrupted code goes    *)
(* on, is blocked while the handler runs, and is not counted: two children *)
(* that end before it is delivered raise it once.  vfork() suspends the    *)
(* parent until the child called exec or exit.                             *)
(*                                                                         *)
(* What the main program reads of the state it shares with the handler     *)
(* and what it does upon it are separate steps; place is where it is, and  *)
(* forked and found are the locals it holds there.                         *)
(*                                                                         *)
(* A command is named by its request number, its process by the command.   *)
(***************************************************************************)
EXTENDS Integers, Sequences, FiniteSets, SequencesExt

CONSTANTS Commands,         \* the request numbers of the commands
          Cancelled,        \* those the manager's side also cancels, once
          MaxOutstanding,   \* bound on the commands not answered
          MaxVforkFailures  \* bound on failing vfork() calls

ASSUME VeloAssumption ==
  /\ Commands \subseteq Nat \ {0}
  /\ Cancelled \subseteq Commands
  /\ MaxOutstanding \in Nat
  /\ MaxVforkFailures \in Nat

VARIABLES down,       \* requests on their way to velo
          up,         \* responses on their way back
          asked,      \* the commands requested
          answers,    \* the responses that arrived, in order
          cancels,    \* the commands a cancel was sent for
          place,      \* what the main program does next
          forked,     \* v of expandRun(), a command forked for and not noted; 0: none
          found,      \* e of cmdCancelRequest(), a command to be killed; 0: none
          proc,       \* the processes
          pending,    \* SIGCHLD is pending
          handling,   \* childEnd() was entered and has not called wait() yet
          cmdSet,     \* cmdSet_
          findFailed, \* is_find_reqno_failure
          refused     \* the commands vfork() failed for

veloVars == <<down, up, asked, answers, cancels, place, forked, found, proc,
              pending, handling, cmdSet, findFailed, refused>>

\* The main program waits for a request; is about to call noOfElements(),
\* get_find_reqno_failure(), addCmd() or set_find_reqno_failure(0); to kill()
Places == {"dispatcher", "count", "flag", "add", "clear", "kill"}

\* A process ends with status 0 or not, and stays a zombie until wait() takes it
ProcStates == {"none", "running", "zombie ok", "zombie failed", "ended ok",
               "ended failed"}
Zombies == {c \in Commands : proc[c] \in {"zombie ok", "zombie failed"}}
Ended == {c \in Commands : proc[c] \in {"zombie ok", "zombie failed",
                                        "ended ok", "ended failed"}}

\* eCmdExec_, which is what cmdExecRequest() passes as the request number
eCmdExec == 19

Request(kind, c) == [kind |-> kind, reqno |-> c]
Response(kind, c, result) == [kind |-> kind, reqno |-> c, result |-> result]

\* All the responses given, in order, and the places of those to command c
Given == answers \o up
AnswersTo(c) == {k \in DOMAIN Given : Given[k].reqno = c}

VeloInit ==
  /\ down = <<>> /\ up = <<>> /\ asked = {} /\ answers = <<>> /\ cancels = {}
  /\ place = "dispatcher" /\ forked = 0 /\ found = 0
  /\ proc = [c \in Commands |-> "none"]
  /\ pending = FALSE /\ handling = FALSE
  /\ cmdSet = {} /\ findFailed = FALSE /\ refused = {}

-----------------------------------------------------------------------------
(* The manager's side: EXECUTE and CANCEL requests that vela passes on, and *)
(* the responses vela reports back.                                         *)

Outstanding == {c \in asked \ refused : AnswersTo(c) = {}}

cmdexecRequest(c) ==
  /\ \A a \in asked : a < c
  /\ Cardinality(Outstanding) < MaxOutstanding
  /\ asked' = asked \cup {c}
  /\ down' = Append(down, Request("exec", c))
  /\ UNCHANGED <<up, answers, cancels, place, forked, found, proc, pending,
                 handling, cmdSet, findFailed, refused>>

cmdcancelRequest(c) ==
  /\ c \in (asked \cap Cancelled) \ cancels
  /\ cancels' = cancels \cup {c}
  /\ down' = Append(down, Request("cancel", c))
  /\ UNCHANGED <<up, asked, answers, place, forked, found, proc, pending,
                 handling, cmdSet, findFailed, refused>>

\* TeClient::cmdExecConfirm and cmdCancelConfirm
cmdConfirm ==
  /\ up # <<>>
  /\ answers' = Append(answers, Head(up))
  /\ up' = Tail(up)
  /\ UNCHANGED <<down, asked, cancels, place, forked, found, proc, pending,
                 handling, cmdSet, findFailed, refused>>

-----------------------------------------------------------------------------
(* velo.  Its main program goes on only while no signal waits to be handled *)

report(kind, c, result) == up' = Append(up, Response(kind, c, result))

MainRuns == ~pending /\ ~handling

\* The next request, and velo is back in its dispatcher
NextIs(kind) ==
  /\ MainRuns /\ place = "dispatcher"
  /\ down # <<>> /\ Head(down).kind = kind
  /\ down' = Tail(down)

\* vfork(): the parent goes on once the child runs the command, or gave up
\* because execvp() failed (its report goes to a closed descriptor)
Vfork ==
  /\ NextIs("exec")
  /\ forked' = Head(down).reqno /\ place' = "count"
  /\ \/ /\ proc' = [proc EXCEPT ![Head(down).reqno] = "running"]
        /\ UNCHANGED pending
     \/ /\ proc' = [proc EXCEPT ![Head(down).reqno] = "zombie failed"]
        /\ pending' = TRUE
  /\ UNCHANGED <<up, asked, answers, cancels, found, handling, cmdSet, findFailed,
                 refused>>

VforkFails ==
  /\ NextIs("exec")
  /\ Cardinality(refused) < MaxVforkFailures
  /\ refused' = refused \cup {Head(down).reqno}
  /\ report("exec", eCmdExec, -2)
  /\ UNCHANGED <<asked, answers, cancels, place, forked, found, proc, pending,
                 handling, cmdSet, findFailed>>

\* expandRun() in the parent: is the child the only one the failure of childEnd()
\* to find a process can be about?
CountCommands ==
  /\ MainRuns /\ place = "count"
  /\ place' = IF cmdSet = {} THEN "flag" ELSE "add"
  /\ UNCHANGED <<down, up, asked, answers, cancels, forked, found, proc, pending,
                 handling, cmdSet, findFailed, refused>>

\* A mutant: the failure childEnd() noted is not looked at
LookAtFlagNot ==
  /\ MainRuns /\ place = "flag"
  /\ place' = "add"
  /\ UNCHANGED <<down, up, asked, answers, cancels, forked, found, proc, pending,
                 handling, cmdSet, findFailed, refused>>

\* If there was such a failure, the child is answered for and not noted
LookAtFlag ==
  /\ MainRuns /\ place = "flag"
  /\ IF findFailed
       THEN /\ report("cancel", forked, 0)
            /\ forked' = 0 /\ place' = "clear"
       ELSE /\ place' = "add"
            /\ UNCHANGED <<up, forked>>
  /\ UNCHANGED <<down, asked, answers, cancels, found, proc, pending, handling,
                 cmdSet, findFailed, refused>>

\* A mutant: the flag stays set after the response
ClearFlagNot ==
  /\ MainRuns /\ place = "clear"
  /\ place' = "dispatcher"
  /\ UNCHANGED <<down, up, asked, answers, cancels, forked, found, proc, pending,
                 handling, cmdSet, findFailed, refused>>

ClearFlag ==
  /\ MainRuns /\ place = "clear"
  /\ findFailed' = FALSE /\ place' = "dispatcher"
  /\ UNCHANGED <<down, up, asked, answers, cancels, forked, found, proc, pending,
                 handling, cmdSet, refused>>

addCmd ==
  /\ MainRuns /\ place = "add"
  /\ cmdSet' = cmdSet \cup {forked}
  /\ forked' = 0 /\ place' = "dispatcher"
  /\ UNCHANGED <<down, up, asked, answers, cancels, found, proc, pending, handling,
                 findFailed, refused>>

\* cmdCancelRequest(): a command velo does not know is left alone
findPid ==
  /\ NextIs("cancel")
  /\ LET c == Head(down).reqno
     IN IF c \in cmdSet THEN found' = c /\ place' = "kill"
                        ELSE UNCHANGED <<found, place>>
  /\ UNCHANGED <<up, asked, answers, cancels, forked, proc, pending, handling,
                 cmdSet, findFailed, refused>>

\* kill() fails only for a process that wait() took, before or since velo looked for
\* the command, and does nothing to a zombie
killFound ==
  /\ MainRuns /\ place = "kill"
  /\ found' = 0 /\ place' = "dispatcher"
  /\ \/ /\ proc[found] \in {"zombie ok", "zombie failed"}
        /\ UNCHANGED <<up, proc, pending, cmdSet>>
     \/ /\ proc[found] \in {"ended ok", "ended failed"}
        /\ report("cancel", found, -1)
        /\ cmdSet' = cmdSet \ {found}
        /\ UNCHANGED <<proc, pending>>
     \/ /\ proc[found] = "running"
        /\ proc' = [proc EXCEPT ![found] = "zombie failed"]
        /\ pending' = TRUE
        /\ UNCHANGED <<up, cmdSet>>
  /\ UNCHANGED <<down, asked, answers, cancels, forked, handling, findFailed, refused>>

\* A command ends by itself
ProcessEnds(c) ==
  /\ proc[c] = "running"
  /\ \E z \in {"zombie ok", "zombie failed"} : proc' = [proc EXCEPT ![c] = z]
  /\ pending' = TRUE
  /\ UNCHANGED <<down, up, asked, answers, cancels, place, forked, found, handling,
                 cmdSet, findFailed, refused>>

SignalDelivered ==
  /\ pending /\ ~handling
  /\ pending' = FALSE
  /\ handling' = TRUE
  /\ UNCHANGED <<down, up, asked, answers, cancels, place, forked, found, proc,
                 cmdSet, findFailed, refused>>

\* What childEnd() reports about a process, and the process after wait()
Outcome(c) == IF proc[c] = "zombie ok" THEN "exec" ELSE "cancel"

Reaped(c) == [proc EXCEPT ![c] = IF @ = "zombie ok" THEN "ended ok" ELSE "ended failed"]

\* A mutant: all the zombies are taken, as a loop around wait() would do
childEndAll(c) ==
  /\ handling /\ c \in Zombies
  /\ handling' = FALSE
  /\ proc' = [d \in Commands |-> IF d \in Zombies THEN Reaped(d)[d] ELSE proc[d]]
  /\ up' = up \o SetToSeq({Response(Outcome(d), d, 0) : d \in Zombies \cap cmdSet})
  /\ cmdSet' = cmdSet \ Zombies
  /\ findFailed' = (findFailed \/ Zombies \ cmdSet # {})
  /\ UNCHANGED <<down, asked, answers, cancels, place, forked, found, pending,
                 refused>>

\* childEnd(): wait() takes one of the zombies, whichever the kernel chooses
childEnd(c) ==
  /\ handling /\ c \in Zombies
  /\ handling' = FALSE
  /\ proc' = Reaped(c)
  /\ IF c \in cmdSet
       THEN /\ \E r \in IF proc[c] = "zombie ok" THEN {0} ELSE {0, 1} :
                 report(Outcome(c), c, r)
            /\ cmdSet' = cmdSet \ {c}
            /\ UNCHANGED findFailed
       ELSE /\ findFailed' = TRUE
            /\ UNCHANGED <<up, cmdSet>>
  /\ UNCHANGED <<down, asked, answers, cancels, place, forked, found, pending,
                 refused>>

-----------------------------------------------------------------------------
VeloStep ==
  \/ cmdConfirm \/ Vfork \/ VforkFails
  \/ CountCommands \/ LookAtFlag \/ ClearFlag \/ addCmd \/ findPid \/ killFound
  \/ SignalDelivered \/ \E c \in Commands : childEnd(c)

VeloNext ==
  \/ \E c \in Commands : cmdexecRequest(c) \/ cmdcancelRequest(c) \/ ProcessEnds(c)
  \/ VeloStep

VeloSpec == VeloInit /\ [][VeloNext]_veloVars /\ WF_veloVars(VeloStep)

-----------------------------------------------------------------------------
\* The kinds of the state: velo answers with the two kinds TeClient knows (TeIF), and the
\* locals of its main program are about a command where it uses them.
VeloTypeOK ==
  /\ down \in Seq([kind : {"exec", "cancel"}, reqno : Commands])
  /\ \A s \in {up, answers} :
       s \in Seq([kind : {"exec", "cancel"}, reqno : Commands \cup {eCmdExec},
                  result : {-2, -1, 0, 1}])
  /\ cancels \subseteq asked /\ asked \subseteq Commands
  /\ place \in Places
  /\ forked \in IF place \in {"count", "flag", "add"} THEN Commands ELSE {0}
  /\ found \in IF place = "kill" THEN Commands ELSE {0}
  /\ proc \in [Commands -> ProcStates]
  /\ pending \in BOOLEAN /\ handling \in BOOLEAN /\ findFailed \in BOOLEAN
  /\ cmdSet \subseteq Commands /\ refused \subseteq Commands

(* childEnd() finds a child to wait for: the signal is raised no more often *)
(* than children end, and wait() takes one for each, so that velo neither   *)
(* blocks in its handler nor takes the exit(0) after a failed wait().       *)
WaitFindsChild == (pending \/ handling) => Zombies # {}

\* The answer to a CANCEL: kill() failed
ByCancel(k) == Given[k].result = -1

(* Each of the two requests the manager's side can make for a command is    *)
(* answered at most once, a CANCEL after what it cancels, and a command is  *)
(* reported as executed only when it ended with status 0: childEnd(),       *)
(* expandRun() and cmdCancelRequest() (TeServer.cc) do not answer for one   *)
(* another.  The two answers together are possible: childEnd() may report   *)
(* and remove a command between findPid() and kill().                       *)
AnsweredPerRequest ==
  \A c \in Commands : \A j, k \in AnswersTo(c) :
    /\ ByCancel(j) = ByCancel(k) => j = k
    /\ ByCancel(k) => c \in cancels /\ j <= k
    /\ Given[k].kind = "exec" => proc[c] = "ended ok"

(* No response says that a command is over while its process still runs.    *)
(* The comment in expandRun() (TeServer.cc:222) says whom its response is   *)
(* for: the command whose child childEnd() did not find.  That is so as     *)
(* long as nothing is asked for after a command that is cancelled: a cancel *)
(* may empty cmdSet_ while is_find_reqno_failure is still set.              *)
AnsweredEnded == \A c \in Commands : AnswersTo(c) # {} => c \in Ended

(* A request is answered once, and when its command is over.  The converse  *)
(* of the part on status 0 does not hold: expandRun() answers for a child   *)
(* that ended early with eCmdCancel_, whatever its status was.              *)
AnsweredOnceEnded == AnsweredPerRequest /\ AnsweredEnded

\* No command is asked for while another is not answered, and no SIGCHLD comes between
\* the test of the flag and addCmd()
OneAtATime == Cardinality(Outstanding) <= 1
AddUndisturbed == place = "add" => MainRuns

(* When the process of a command ended, the manager's side is told about    *)
(* it: by childEnd() or, "If findReqno() fails in childEnd()", by           *)
(* expandRun() "Instead of childEnd()" (TeServer.cc:223).  The code does    *)
(* not keep this even for commands asked for one at a time.                 *)
EndedIsAnswered ==
  \A c \in Commands : (c \in Ended) ~> \E k \in DOMAIN answers : answers[k].reqno = c

(* It keeps it, whenever else the signal comes, if no second command is     *)
(* asked for before the first one was answered and the signal does not come *)
(* after expandRun() looked at the flag and before it notes the child.      *)
SingleCommandIsAnswered == ([](OneAtATime /\ AddUndisturbed)) => EndedIsAnswered

=============================================================================
