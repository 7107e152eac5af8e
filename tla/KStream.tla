------------------------------ MODULE KStream ------------------------------
(***************************************************************************)
(* How koid cuts the byte streams of its TCP connections into messages:    *)
(* the parser table lib/kParser, the parsers for DNS and SIP, the left     *)
(* data of lib/kBuffer, and process_si_type_tcp of lib/kDispatcher, which  *)
(* puts them together.                                                     *)
(*                                                                         *)
(* recv() returns any non-empty part of what a peer has sent.  What the    *)
(* last message lacks is kept in kBuffer until the next recv().            *)
(*                                                                         *)
(* A byte is a number.  The two length bytes of DNS are digits to a base   *)
(* that is a constant.  Of SIP, the bytes that the regular expressions     *)
(* look for are one number each: the start line, a line end, the value of  *)
(* Content-Length.  A cut within one of those is a cut before it: no       *)
(* expression matches a part of it.                                        *)
(***************************************************************************)
EXTENDS Integers, Sequences, SequencesExt, FiniteSets, FiniteSetsExt

CONSTANTS Streams,      \* the ids that connections are given, in this order
          FirstId,      \* the least of them: ids before it are command sockets'
          PayloadOf,    \* by connection, its si_peyload_type
          Base,         \* of the length bytes of DNS: 256 in the code
          Contents,     \* what peers send, by payload type: a set of messages
          MaxSent,      \* bound: messages sent on a connection
          MaxStreams,   \* bound: connections between two departures of a client
          MaxAttach     \* bound: PARSER_ATTACH requests

ASSUME StreamAssumption ==
  /\ FirstId \in Nat \ {0} /\ Streams = FirstId..(FirstId + Cardinality(Streams) - 1)
  /\ IsFiniteSet(Streams)
  /\ Base \in Nat \ {0, 1} /\ MaxSent \in Nat /\ MaxStreams \in Nat
  /\ \A s \in Streams : Contents[PayloadOf[s]] \subseteq Seq(Nat)

VARIABLES parsers,      \* g_pi_table: the payload types that have a parser
          attaches,     \* PARSER_ATTACH requests so far
          socketid,     \* g_socket_socketid
          open,         \* connections that are not closed
          fresh,        \* connections made since kBufferInit
          ld,           \* the list from g_ld_start_ptr
          ldLast,       \* the position of g_ld_last_ptr in it, 0 when it is no node of it
          ldNum,        \* g_ld_datanum
          wire,         \* external: bytes sent and not read, by connection
          sent,         \* external, history: messages sent, by open connection
          store,        \* history: messages given to kDataRegist, by open connection
          lost          \* connections of which a segment was dropped for want of a parser

tableVars == <<parsers, attaches>>
bufVars == <<ld, ldLast, ldNum>>
peerVars == <<wire, sent>>
streamVars == <<tableVars, socketid, open, fresh, bufVars, peerVars, store, lost>>

-----------------------------------------------------------------------------
(* lib/kBuffer *)

kBufferInit == ld' = <<>> /\ ldLast' = 0 /\ ldNum' = 0

HasLeft(s) == \E k \in DOMAIN ld : ld[k].sid = s
LeftAt(s) == CHOOSE k \in DOMAIN ld : ld[k].sid = s

\* The left data of a connection
LeftOf(s) == IF HasLeft(s) THEN ld[LeftAt(s)].data ELSE <<>>

\* A buffer list: the three globals as one record
Buffers(list, last, num) == [list |-> list, last |-> last, num |-> num]

\* kBufferGet without its result: the node is unlinked, and the last pointer becomes its
\* predecessor, whether or not the node was the last one
kBufferGet(s) ==
  IF ~HasLeft(s) THEN Buffers(ld, ldLast, ldNum)
  ELSE LET k == LeftAt(s)
       IN  Buffers(RemoveAt(ld, k), IF k > 1 THEN k - 1 ELSE IF ldLast = 0 THEN 0 ELSE ldLast - 1,
                   ldNum - 1)

\* kBufferSet on list b: the node is chained to the last pointer.  What followed there is
\* cut off; a freed last node takes the new one out of reach.
kBufferSet(b, s, data) ==
  LET node == [sid |-> s, data |-> data]
  IN  IF b.num = socketid \/ (\E k \in DOMAIN b.list : b.list[k].sid = s) THEN b
      ELSE IF b.list = <<>> THEN Buffers(<<node>>, 1, b.num + 1)
      ELSE IF b.last = 0 THEN Buffers(b.list, 0, b.num + 1)
      ELSE Buffers(Append(SubSeq(b.list, 1, b.last), node), b.last + 1, b.num + 1)

-----------------------------------------------------------------------------
(* lib/kParser: the parsers.  A buffer is what the parser is called with: the first       *)
(* indatalen bytes from the position it has to look at.                                   *)

\* What a parser returns, where the message begins (how many bytes are skipped), and its size
Parsed(res, skip, size) == [res |-> res, skip |-> skip, size |-> size]

\* The length in front of a DNS message; bytes beyond the data are zero
DnsLength(w) == (w[1] * Base) + (IF Len(w) > 1 THEN w[2] ELSE 0)

\* Mutant: one of the two length bytes is not counted
kParserDNSEarly(w) ==
  LET size == DnsLength(w) + 1
  IN  IF size > Len(w) THEN Parsed("NOMATCH", 0, 0)
      ELSE Parsed(IF size < Len(w) THEN "LEFTDATA" ELSE "JUSTONE", 0, size)

kParserDNS(w) ==
  LET size == DnsLength(w) + 2
  IN  IF size > Len(w) THEN Parsed("NOMATCH", 0, 0)
      ELSE Parsed(IF size < Len(w) THEN "LEFTDATA" ELSE "JUSTONE", 0, size)

\* kParserNULL, kParserUDPDNS, kParserIKEv2, kParserKINK: the size stays as it is, zero
kParserNULL(w) == Parsed("JUSTONE", 0, 0)

Nul == 0
Text == 1                       \* a byte that no expression looks for
StartLine == 2
Crlf == 3
ContentLength(n) == 4 + n       \* the header with value n

\* What regexec() sees of a buffer: it stops at the first zero byte
CString(w) == LET zeros == {i \in DOMAIN w : w[i] = Nul}
              IN  IF zeros = {} THEN w ELSE SubSeq(w, 1, Min(zeros) - 1)

BlankLines(c) == {j \in 1..(Len(c) - 1) : c[j] = Crlf /\ c[j + 1] = Crlf}

\* Start lines at the beginning of the string or of a line, for SIPPAT1 and SIPPAT3
StartLines(c) == {i \in DOMAIN c : c[i] = StartLine /\ (i = 1 \/ c[i - 1] = Crlf)}

\* SIPPAT2
LengthHeaders(c) ==
  {i \in 2..(Len(c) - 1) : c[i] >= ContentLength(0) /\ c[i - 1] = Crlf /\ c[i + 1] = Crlf}

\* kParserSIP; bodyPos and the position of the header are compared although they count
\* from different starts.  Positions count from 1, so that bodyPos is the last byte of the
\* empty line.
kParserSIP(w) ==
  LET c       == CString(w)
      blanks  == BlankLines(c)
      starts  == {i \in StartLines(c) : \E j \in blanks : j > i}
      start   == Min(starts)
      skip    == start - 1
      bodyPos == Min({j \in blanks : j > start}) + 1
      lens    == {i \in LengthHeaders(c) : i > start}
      header  == Min(lens)
      end     == bodyPos + c[header] - ContentLength(0)
      nexts   == {i \in StartLines(c) : i > bodyPos}
      ends    == {j \in blanks : j > bodyPos}
  IN  IF w = <<>> THEN Parsed("ERROR", 0, 0)
      ELSE IF starts = {} THEN Parsed("NOMATCH", 0, 0)
      ELSE IF lens # {} /\ header - start < bodyPos THEN
             IF end > Len(w) THEN Parsed("NOMATCH", skip, 0)
             ELSE Parsed(IF end < Len(w) THEN "LEFTDATA" ELSE "JUSTONE", skip, end - skip)
      ELSE IF nexts # {} THEN Parsed("LEFTDATA", skip, Min(nexts) - start)
      ELSE IF ends # {} THEN Parsed("LEFTDATA", skip, Min(ends) - start + 1)
      ELSE Parsed("JUSTONE", skip, Len(c) - skip)

Parser(p, w) == CASE p = "DNS" -> kParserDNS(w)
                  [] p = "SIP" -> kParserSIP(w)
                  [] OTHER     -> kParserNULL(w)

-----------------------------------------------------------------------------
(* process_si_type_tcp *)

\* Bytes from..from+len-1 of the zeroed packet_gen_space that w is the data of
Bytes(w, from, len) == [i \in 1..len |-> IF from + i - 1 <= Len(w) THEN w[from + i - 1] ELSE Nul]

\* The while loop between two turns: the messages registered, the bytes it has not parsed,
\* and whether it goes on.  When it has ended, the bytes are the left data.
Parsing(msgs, left, on) == [msgs |-> msgs, left |-> left, on |-> on]

\* Mutant: parsing ends with the first message
TurnOnce(p, l) ==
  LET w == l.left
      r == Parser(p, w)
  IN  IF ~l.on THEN l
      ELSE IF r.res = "NOMATCH" THEN Parsing(l.msgs, w, FALSE)
      ELSE Parsing(Append(l.msgs, Bytes(w, r.skip + 1, r.size)), <<>>, FALSE)

\* One turn of the loop
Turn(p, l) ==
  LET w    == l.left
      r    == Parser(p, w)
      msgs == Append(l.msgs, Bytes(w, r.skip + 1, r.size))
  IN  IF ~l.on THEN l
      ELSE CASE r.res = "ERROR"    -> Parsing(l.msgs, <<>>, FALSE)
             [] r.res = "JUSTONE"  -> Parsing(msgs, <<>>, FALSE)
             [] r.res = "LEFTDATA" ->
                  Parsing(msgs, Bytes(w, r.skip + r.size + 1, Len(w) - r.size), TRUE)
             [] r.res = "NOMATCH"  -> Parsing(l.msgs, Bytes(w, r.skip + 1, Len(w)), FALSE)

\* The turns over the bytes w; a message has a byte at least, so that the loop ends within
\* one turn per byte and one more
Turns(p, w) ==
  LET turns[k \in 0 .. Len(w) + 1] ==
        IF k = 0 THEN Parsing(<<>>, w, TRUE) ELSE Turn(p, turns[k - 1])
  IN  turns

Loop(p, w) == Turns(p, w)[Len(w) + 1]

\* A segment of n bytes is read.  The left data are taken out before the parser is looked up.
process_si_type_tcp(s, n) ==
  LET got    == kBufferGet(s)
      space  == LeftOf(s) \o SubSeq(wire[s], 1, n)
      parsed == Loop(PayloadOf[s], space)
      after  == IF PayloadOf[s] \in parsers /\ parsed.left # <<>>
                  THEN kBufferSet(got, s, parsed.left) ELSE got
  IN  /\ s \in open /\ n \in 1..Len(wire[s])
      /\ ld' = after.list /\ ldLast' = after.last /\ ldNum' = after.num
      /\ wire' = [wire EXCEPT ![s] = SubSeq(@, n + 1, Len(@))]
      /\ IF PayloadOf[s] \in parsers
           THEN store' = [store EXCEPT ![s] = @ \o parsed.msgs] /\ UNCHANGED lost
           ELSE lost' = lost \cup {s} /\ UNCHANGED store
      /\ UNCHANGED <<tableVars, socketid, open, fresh, sent>>

-----------------------------------------------------------------------------
(* Connections, the parser table and the peers *)

\* kParserInit; the table has room for all types
BuiltIn == {"NULL", "SIP", "DNS", "UDPDNS", "IKEv2", "KINK"}

StreamInit ==
  /\ parsers = BuiltIn /\ attaches = 0
  /\ socketid = FirstId - 1 /\ open = {} /\ fresh = 0
  /\ ld = <<>> /\ ldLast = 0 /\ ldNum = 0
  /\ wire = [s \in Streams |-> <<>>] /\ sent = [s \in Streams |-> <<>>]
  /\ store = [s \in Streams |-> <<>>] /\ lost = {}

\* A connection is registered: kSocketOpen refuses one whose payload has no parser
Opens ==
  /\ socketid + 1 \in Streams /\ fresh < MaxStreams
  /\ PayloadOf[socketid + 1] \in parsers
  /\ socketid' = socketid + 1 /\ open' = open \cup {socketid + 1} /\ fresh' = fresh + 1
  /\ UNCHANGED <<tableVars, bufVars, peerVars, store, lost>>

\* The histories of closed connections are forgotten
Forget(closed) ==
  /\ wire' = [s \in Streams |-> IF s \in closed THEN <<>> ELSE wire[s]]
  /\ sent' = [s \in Streams |-> IF s \in closed THEN <<>> ELSE sent[s]]
  /\ store' = [s \in Streams |-> IF s \in closed THEN <<>> ELSE store[s]]
  /\ lost' = lost \ closed
  /\ open' = open \ closed

\* kSocketClose leaves the left data in the list
Closes(s) ==
  /\ s \in open
  /\ Forget({s})
  /\ UNCHANGED <<tableVars, socketid, fresh, bufVars>>

\* process_si_type_unixd_data at the end of a client's stream: every connection is closed
ClientGone ==
  /\ kBufferInit
  /\ Forget(Streams) /\ fresh' = 0
  /\ UNCHANGED <<tableVars, socketid>>

\* process_command_parser_attach_req: kParserSet2 with a parser of a module, here one that
\* is built in as well, or kParserDelete
process_command_parser_attach_req(p) ==
  /\ attaches < MaxAttach
  /\ attaches' = attaches + 1
  /\ parsers' \in {parsers \cup {p}, parsers \ {p}}
  /\ UNCHANGED <<socketid, open, fresh, bufVars, peerVars, store, lost>>

\* A message as it goes over the wire
Encode(p, body) ==
  IF p = "SIP" THEN <<StartLine, Crlf, ContentLength(Len(body)), Crlf, Crlf>> \o body
               ELSE <<Len(body) \div Base, Len(body) % Base>> \o body

PeerSends(s) ==
  \E body \in Contents[PayloadOf[s]] :
    LET m == Encode(PayloadOf[s], body)
    IN  /\ s \in open /\ Len(sent[s]) < MaxSent
        /\ wire' = [wire EXCEPT ![s] = @ \o m]
        /\ sent' = [sent EXCEPT ![s] = Append(@, m)]
        /\ UNCHANGED <<tableVars, socketid, open, fresh, bufVars, store, lost>>

StreamNext ==
  \/ Opens \/ ClientGone
  \/ \E s \in Streams : \/ Closes(s) \/ PeerSends(s)
                        \/ \E n \in 1..Len(wire[s]) : process_si_type_tcp(s, n)
  \/ \E p \in {PayloadOf[s] : s \in Streams} : process_command_parser_attach_req(p)

StreamSpec == StreamInit /\ [][StreamNext]_streamVars

-----------------------------------------------------------------------------
\* The left-data list holds one node per connection, and g_ld_datanum counts them.
StreamTypeOK ==
  /\ parsers \subseteq BuiltIn
  /\ socketid \in Nat /\ open \subseteq FirstId..socketid
  /\ \A k, l \in DOMAIN ld : ld[k].sid = ld[l].sid => k = l
  /\ ldNum = Len(ld) /\ ldLast = Len(ld)

\* However the segments are cut, the messages registered for a connection are those its
\* peer has sent, whole, each once and in order, and each as soon as its last byte was
\* read: none waits in the left data for bytes of the next one.
MessagesAreWhole ==
  \A s \in open \ lost :
    /\ store[s] = SubSeq(sent[s], 1, Len(store[s]))
    /\ Len(store[s]) < Len(sent[s]) => Len(LeftOf(s)) < Len(sent[s][Len(store[s]) + 1])

\* What was read beyond the last message is kept for the next recv(): no byte is lost
\* between kBufferGet and kBufferSet, whatever other connections do to the list meanwhile.
BytesAreKept ==
  \A s \in open \ lost : FlattenSeq(store[s]) \o LeftOf(s) \o wire[s] = FlattenSeq(sent[s])

=============================================================================
