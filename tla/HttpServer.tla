----------------------------- MODULE HttpServer -----------------------------
(***************************************************************************)
(* HttpServer.cc and HttpResponse.cc on connections of several I/O         *)
(* threads, with their clients and a network that delivers the bytes of a  *)
(* request in pieces.                                                      *)
(*                                                                         *)
(* A connection is what TCPConnection has been shown to be: messages sent  *)
(* while it is kConnected arrive in order, later ones are dropped, and     *)
(* shutdown() leaves it kDisconnecting, still reading.                     *)
(***************************************************************************)
EXTENDS HttpContext

CONSTANTS
  Conns,      \* the clients, each with one connection at a time
  IoThreads,  \* the threads of the server
  ThreadOf,   \* the thread whose loop a client's connections are given
  Plans       \* what the clients may set out to do, see ClientPlan

ASSUME HttpAssumption == ThreadOf \in [Conns -> IoThreads]

Requests == UNION {ToSet(p[c].requests) : p \in Plans, c \in Conns}

\* What makes the words of a request a line, headers and a body: none of them
\* is CR or LF, a header has a field and a value, and the second word of a line
\* of three is a target.
ASSUME PlanAssumption ==
  /\ Plans \subseteq [Conns -> [requests : Seq(Requests), waits : BOOLEAN, cuts : BOOLEAN]]
  /\ \A r \in Requests :
       /\ \A part \in {r.line, r.headers, r.body} :
            part \in Seq(ToSet(part)) /\ {CR, LF} \cap ToSet(part) = {}
       /\ \A w \in ToSet(r.headers) : w = Header(w.field, w.value)
       /\ Len(r.line) = 3 => r.line[2].kind = "target"

VARIABLES
  up,         \* the server process runs
  plan,       \* what a client still has to ask, and how it goes about it
  asked,      \* the requests a client has sent on its connection
  net,        \* bytes on their way to the server
  tcp,        \* the server's state_ of the connection
  input,      \* its input buffer
  context,    \* its HttpContext
  written,    \* the responses written to it
  job         \* the onMessage() a thread is in, NoJob if none

clientVars == <<plan, asked>>
connVars == <<net, tcp, input, context, written>>
httpVars == <<up, plan, asked, net, tcp, input, context, written, job>>

\* The lines of the headers, each a word, CR and LF.
HeaderLines(headers) ==
  [i \in 1..(3 * Len(headers)) |->
     CASE i % 3 = 1 -> headers[(i + 2) \div 3] [] i % 3 = 2 -> CR [] OTHER -> LF]

\* What a client asks: a request line, headers and a body, in words.
Encoding(r) ==
  r.line \o <<CR, LF>> \o HeaderLines(r.headers) \o <<CR, LF>> \o r.body

\* waits: no request before the answer to the last.  cuts: the network may cut
\* its bytes anywhere; otherwise a read takes all there is room for.
ClientPlan(requests, waits, cuts) ==
  [requests |-> requests, waits |-> waits, cuts |-> cuts]

NoJob == [at |-> "none"]

HttpInit ==
  /\ up = FALSE
  /\ plan \in Plans
  /\ asked = [c \in Conns |-> <<>>]
  /\ net = [c \in Conns |-> <<>>]
  /\ tcp = [c \in Conns |-> "kDisconnected"]
  /\ input = [c \in Conns |-> NewBuffer(kInitialSize)]
  /\ context = [c \in Conns |-> NewContext]
  /\ written = [c \in Conns |-> <<>>]
  /\ job = [t \in IoThreads |-> NoJob]

-----------------------------------------------------------------------------
(* The client and the network.                                             *)

\* A new connection, with a new TCPConnection: onConnection() gives it a
\* HttpContext.
OnConnection(c) ==
  /\ up
  /\ tcp[c] = "kDisconnected"
  /\ plan[c].requests # <<>>
  /\ tcp' = [tcp EXCEPT ![c] = "kConnected"]
  /\ context' = [context EXCEPT ![c] = NewContext]
  /\ input' = [input EXCEPT ![c] = NewBuffer(kInitialSize)]
  /\ asked' = [asked EXCEPT ![c] = <<>>]
  /\ written' = [written EXCEPT ![c] = <<>>]
  /\ UNCHANGED <<up, plan, net, job>>

SawClose(c) == \E i \in DOMAIN written[c] : written[c][i].close

Ask(c) ==
  /\ tcp[c] # "kDisconnected"
  /\ plan[c].requests # <<>>
  /\ ~SawClose(c)
  /\ plan[c].waits => Len(written[c]) = Len(asked[c])
  /\ LET r == Head(plan[c].requests)
     IN  /\ asked' = [asked EXCEPT ![c] = Append(@, r)]
         /\ net' = [net EXCEPT ![c] = @ \o Encoding(r)]
  /\ plan' = [plan EXCEPT ![c].requests = Tail(@)]
  /\ UNCHANGED <<up, tcp, input, context, written, job>>

\* The client closes, also in the middle of its requests; handleClose() follows
\* when the server has read all that arrived.
HangUp(c) ==
  /\ tcp[c] # "kDisconnected"
  /\ job[ThreadOf[c]] = NoJob
  /\ net[c] = <<>>
  /\ tcp' = [tcp EXCEPT ![c] = "kDisconnected"]
  /\ UNCHANGED <<up, plan, asked, net, input, context, written, job>>

-----------------------------------------------------------------------------
(* The server.                                                             *)

\* conn->send(): a connection that is shutting down drops it.
Send(c, response) ==
  IF tcp[c] = "kConnected"
  THEN [written EXCEPT ![c] = Append(@, response)]
  ELSE written

\* conn->shutdown().
Shutdown(c) ==
  IF tcp[c] = "kConnected" THEN [tcp EXCEPT ![c] = "kDisconnecting"] ELSE tcp

BadRequest == [status |-> "400", close |-> TRUE, path |-> "", body |-> "",
               form |-> <<>>, alone |-> TRUE, failed |-> FALSE]

\* onRequest() closes after the response if the request asks for it.
MustClose(request) ==
  \/ GetHeader(request, "Connection") = "close"
  \/ /\ request.version = "HTTP/1.0"
     /\ GetHeader(request, "Connection") # "Keep-Alive"

\* Other threads that are in the callback.
Others(t) == {u \in IoThreads \ {t} : job[u].at \notin {"none", "parse"}}

\* onRequest() begins: the local variables of the callback.  alone is FALSE if
\* another thread is in the callback during some of it.
NewJob(t, c, request) ==
  [at |-> "route", conn |-> c, request |-> request, close |-> MustClose(request),
   status |-> "200", page |-> "", body |-> "", form |-> <<>>,
   alone |-> Others(t) = {}, failed |-> FALSE]

\* The requests that a thread begins to work on stop being alone, and so does
\* the one it begins.
BeginJob(t, c, request) ==
  [u \in IoThreads |->
     IF u = t THEN NewJob(t, c, request)
     ELSE IF u \in Others(t) THEN [job[u] EXCEPT !.alone = FALSE] ELSE job[u]]

HowMany(c) ==
  LET most == IF Len(net[c]) < ReadLimit(input[c]) THEN Len(net[c]) ELSE ReadLimit(input[c])
  IN  IF plan[c].cuts THEN 1..most ELSE {most}

\* A bug: the answer 400 does not end the connection.
RefuseAndStay(c) ==
  /\ written' = Send(c, BadRequest)
  /\ UNCHANGED tcp

\* onMessage() of a request that does not parse.
Refuse(c) ==
  /\ written' = Send(c, BadRequest)
  /\ tcp' = Shutdown(c)

\* The loop reads n bytes of a connection and calls onMessage().
OnMessage(t, c, n) ==
  /\ ThreadOf[c] = t
  /\ job[t] = NoJob
  /\ tcp[c] # "kDisconnected"
  /\ n \in HowMany(c) \ {0}
  /\ input' = [input EXCEPT ![c] = Forget(ReadFd(@, SubSeq(net[c], 1, n)))]
  /\ net' = [net EXCEPT ![c] = SubSeq(@, n + 1, Len(@))]
  /\ job' = [job EXCEPT ![t] = [at |-> "parse", conn |-> c]]
  /\ UNCHANGED <<up, plan, asked, tcp, context, written>>

\* One iteration of parseRequest() and, when it is the last, what onMessage()
\* does with the result.
ParseRequest(t) ==
  /\ job[t].at = "parse"
  /\ LET c == job[t].conn
         p == Iteration(context[c], input[c])
     IN  /\ context' = [context EXCEPT ![c] = p.context]
         /\ input' = [input EXCEPT ![c] = Forget(p.buf)]
         /\ \/ /\ p.hasMore
               /\ UNCHANGED <<tcp, written, job>>
            \/ /\ ~p.hasMore /\ ~p.ok
               /\ Refuse(c)
               /\ job' = [job EXCEPT ![t] = NoJob]
            \/ /\ ~p.hasMore /\ p.ok /\ GotAll(p.context)
               /\ job' = BeginJob(t, c, p.context.request)
               /\ UNCHANGED <<tcp, written>>
            \/ /\ ~p.hasMore /\ p.ok /\ ~GotAll(p.context)
               /\ job' = [job EXCEPT ![t] = NoJob]
               /\ UNCHANGED <<tcp, written>>
  /\ UNCHANGED <<up, plan, asked, net>>

\* appendToBuffer() and send() of what the callback made, the shutdown() if
\* it is to be closed, and onMessage()'s reset() of the context.
Response(j) ==
  [status |-> j.status, close |-> j.close, path |-> j.request.path, body |-> j.body,
   form |-> j.form, alone |-> j.alone, failed |-> j.failed]

Respond(t) ==
  /\ job[t].at = "respond"
  /\ LET c == job[t].conn
     IN  /\ written' = Send(c, Response(job[t]))
         /\ tcp' = IF job[t].close THEN Shutdown(c) ELSE tcp
         /\ context' = [context EXCEPT ![c] = Reset(@)]
  /\ job' = [job EXCEPT ![t] = NoJob]
  /\ UNCHANGED <<up, plan, asked, net, input>>
=============================================================================
