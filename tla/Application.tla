---------------------------- MODULE Application -----------------------------
(***************************************************************************)
(* app.cc: the callback of the HTTP server.  It runs in every I/O thread   *)
(* on one object: the path realFile_, the file status fileStat_ and the    *)
(* connection to Redis are shared without a lock.                          *)
(*                                                                         *)
(* MySQL and Redis are external: a call of them is atomic and may fail.    *)
(* Both survive a crash of the server.                                     *)
(***************************************************************************)
EXTENDS HttpServer

CONSTANTS
  Files,        \* the files under serverPath_: path -> "file" or "refused"
  Jpgs,         \* paths with ".jpg" in them
  Logins,       \* paths with "/login" in them
  Users, Passwds, \* what the patterns match
  InitialUsers, \* rows of the table when the server is first started
  RedisFails,   \* whether a write to Redis may fail
  MaxCrashes,   \* bound: crashes of the server process
  MaxMessage    \* bound: bytes one readv() may return

\* The pages the site consists of.
SitePages == {"/index.html", "/welcome.html", "/register.html",
              "/registerFailed.html", "/loginFailed.html", "/404.html"}

\* The site is complete, none of the callback's own paths is a picture's, and
\* of them "/login" is in "/login" and "/loginFailed.html" only.
ASSUME SiteAssumption ==
  /\ InitialUsers \in Seq(STRING \X STRING)
  /\ \A page \in SitePages : page \in DOMAIN Files /\ Files[page] = "file"
  /\ Jpgs \cap (SitePages \cup {"/", "/register", "/login", "/welcome"}) = {}
  /\ Logins \cap (SitePages \cup {"/", "/register", "/login", "/welcome"})
       = {"/login", "/loginFailed.html"}

VARIABLES
  realFile,   \* realFile_, without the leading serverPath_
  fileStat,   \* fileStat_: what the last stat() said
  db,         \* rows <<username, passwd>> of the table user
  redis,      \* the hash HASH_KEY: username -> passwd
  unsaved,    \* users a write to Redis failed for (history)
  crashes

appVars == <<realFile, fileStat, db, redis, unsaved, crashes>>
vars == <<httpVars, appVars>>

AppInit ==
  /\ HttpInit
  /\ realFile = ""
  /\ fileStat = ""
  /\ db = InitialUsers
  /\ redis = <<>>
  /\ unsaved = {}
  /\ crashes = 0

\* setHField(): the field is set, or the call fails.
SetHField(user, passwd) ==
  \/ /\ redis' = WithFields(redis, [u \in {user} |-> passwd])
     /\ unsaved' = unsaved \ {user}
  \/ /\ RedisFails
     /\ redis' = redis
     /\ unsaved' = unsaved \cup ({user} \ DOMAIN redis)

Rows == {db[i] : i \in DOMAIN db}

\* A bug: the server starts with what Redis still has.
StartWithoutLoading ==
  /\ ~up
  /\ up' = TRUE
  /\ realFile' = ""
  /\ fileStat' = ""
  /\ UNCHANGED <<plan, asked, connVars, job, db, redis, unsaved, crashes>>

\* main(): the constructor copies the table to Redis, row by row, before the
\* server listens; rows whose write fails are skipped.
Start ==
  /\ ~up
  /\ up' = TRUE
  /\ realFile' = ""
  /\ fileStat' = ""
  /\ \E saved \in SUBSET DOMAIN db :
       LET rowsOf(u) == {i \in saved : db[i][1] = u}
       IN  /\ RedisFails \/ saved = DOMAIN db
           /\ redis' = WithFields(redis, [u \in {db[i][1] : i \in saved} |->
                                             db[Max(rowsOf(u))][2]])
           /\ unsaved' = {row[1] : row \in Rows} \ DOMAIN redis'
  /\ UNCHANGED <<plan, asked, connVars, job, db, crashes>>

\* The server process ends at any point, and its connections with it.
Crash ==
  /\ up
  /\ crashes < MaxCrashes
  /\ up' = FALSE
  /\ crashes' = crashes + 1
  /\ tcp' = [c \in Conns |-> "kDisconnected"]
  /\ net' = [c \in Conns |-> <<>>]
  /\ job' = [t \in IoThreads |-> NoJob]
  /\ UNCHANGED <<plan, asked, input, context, written, realFile, fileStat, db,
                 redis, unsaved>>

-----------------------------------------------------------------------------
(* onRequest(), up to where the page to serve is known.                    *)

UserWord(user) == [kind |-> "user", text |-> user]
PasswdWord(passwd) == [kind |-> "passwd", text |-> passwd]

\* The last match of the pattern in a body, two empty strings if there is none.
FormOf(body) ==
  LET matches == {i \in 1..(Len(body) - 1) :
                    /\ \E u \in Users : body[i] = UserWord(u)
                    /\ \E p \in Passwds : body[i + 1] = PasswdWord(p)}
  IN  IF matches = {} THEN <<"", "">>
      ELSE <<body[Max(matches)].text, body[Max(matches) + 1].text>>

Serve(t, page) ==
  job' = [job EXCEPT ![t].at = "set", ![t].page = page]

HasForm(request) == request.method = "POST" /\ request.body # <<>>

RoutePage(t, paths, page) ==
  /\ job[t].at = "route"
  /\ job[t].request.path \in paths
  /\ Serve(t, page)
  /\ UNCHANGED <<up, plan, asked, connVars, appVars>>

RouteRegisterPage(t) ==
  /\ job[t].at = "route"
  /\ job[t].request.path = "/register"
  /\ ~HasForm(job[t].request)
  /\ Serve(t, "/register.html")
  /\ UNCHANGED <<up, plan, asked, connVars, appVars>>

RouteRegister(t) ==
  /\ job[t].at = "route"
  /\ job[t].request.path = "/register"
  /\ HasForm(job[t].request)
  /\ job' = [job EXCEPT ![t].at = "register", ![t].form = FormOf(job[t].request.body)]
  /\ UNCHANGED <<up, plan, asked, connVars, appVars>>

\* The file a request names itself.
RouteJpg(t) ==
  /\ job[t].at = "route"
  /\ job[t].request.path \in Jpgs
  /\ Serve(t, job[t].request.path)
  /\ UNCHANGED <<up, plan, asked, connVars, appVars>>

\* The test for ".jpg" comes first.
IsLogin(request) == request.method = "GET" /\ request.path \in Logins \ Jpgs

\* A bug: the user's name is enough.
RouteLoginByName(t) ==
  /\ job[t].at = "route"
  /\ IsLogin(job[t].request)
  /\ LET q == job[t].request.query
         form == IF Len(q) = 2 THEN <<q[1], q[2]>> ELSE <<"", "">>
     IN  job' = [job EXCEPT ![t].at = "set", ![t].form = form,
                            ![t].page = IF form[1] \in DOMAIN redis
                                        THEN "/welcome.html" ELSE "/loginFailed.html"]
  /\ UNCHANGED <<up, plan, asked, connVars, appVars>>

\* hasHField() and getHField() are one step: a field is never removed.
RouteLogin(t) ==
  /\ job[t].at = "route"
  /\ IsLogin(job[t].request)
  /\ LET q == job[t].request.query
         form == IF Len(q) = 2 THEN <<q[1], q[2]>> ELSE <<"", "">>
         known == form[1] \in DOMAIN redis /\ redis[form[1]] = form[2]
     IN  job' = [job EXCEPT ![t].at = "set", ![t].form = form,
                            ![t].page = IF known THEN "/welcome.html"
                                                 ELSE "/loginFailed.html"]
  /\ UNCHANGED <<up, plan, asked, connVars, appVars>>

RouteNotFound(t) ==
  /\ job[t].at = "route"
  /\ job[t].request.path \notin {"/", "/index.html", "/register", "/welcome"} \cup Jpgs
  /\ ~IsLogin(job[t].request)
  /\ job' = [job EXCEPT ![t].at = "set", ![t].page = "/404.html",
                        ![t].status = "404", ![t].close = TRUE]
  /\ UNCHANGED <<up, plan, asked, connVars, appVars>>

\* Registration: is the name taken, according to Redis?
HasHField(t) ==
  /\ job[t].at = "register"
  /\ IF job[t].form[1] \in DOMAIN redis
     THEN Serve(t, "/registerFailed.html")
     ELSE job' = [job EXCEPT ![t].at = "insert"]
  /\ UNCHANGED <<up, plan, asked, connVars, appVars>>

\* A failed INSERT leaves realFile_ as it is: getHtml() serves what it names.
Insert(t) ==
  /\ job[t].at = "insert"
  /\ \/ /\ db' = Append(db, job[t].form)
        /\ job' = [job EXCEPT ![t].at = "cache"]
     \/ /\ job' = [job EXCEPT ![t].at = "html", ![t].failed = TRUE]
        /\ UNCHANGED db
  /\ UNCHANGED <<up, plan, asked, connVars, realFile, fileStat, redis, unsaved, crashes>>

\* The result of setHField() is not looked at.
Cache(t) ==
  /\ job[t].at = "cache"
  /\ SetHField(job[t].form[1], job[t].form[2])
  /\ Serve(t, "/welcome.html")
  /\ UNCHANGED <<up, plan, asked, connVars, realFile, fileStat, db, crashes>>

-----------------------------------------------------------------------------
(* The page is served through realFile_ and fileStat_.                     *)

\* While another thread writes realFile_ a writer may leave, and a reader may
\* find, a mixture of two paths, which names no file.
Garbled == "garbled"

Writing(t) == \E u \in Others(t) : job[u].at = "set"

\* strcpy(realFile_, serverPath_), strcat(realFile_, page).
SetFile(t) ==
  /\ job[t].at = "set"
  /\ realFile' \in {job[t].page} \cup (IF Writing(t) THEN {Garbled} ELSE {})
  /\ job' = [job EXCEPT ![t].at = "html"]
  /\ UNCHANGED <<up, plan, asked, connVars, fileStat, db, redis, unsaved, crashes>>

Seen(t) == {realFile} \cup (IF Writing(t) THEN {Garbled} ELSE {})

\* getHtml(), and the same for a .jpg: stat() first, which leaves fileStat_
\* alone when it fails.
Stat(t) ==
  /\ job[t].at = "html"
  /\ \E path \in Seen(t) :
       \/ /\ path \notin DOMAIN Files
          /\ job' = [job EXCEPT ![t].at = "respond"]
          /\ UNCHANGED fileStat
       \/ /\ path \in DOMAIN Files
          /\ fileStat' = Files[path]
          /\ job' = [job EXCEPT ![t].at = "read"]
  /\ UNCHANGED <<up, plan, asked, connVars, realFile, db, redis, unsaved, crashes>>

\* A bug: the file is read whatever its mode.
ReadAnyFile(t) ==
  /\ job[t].at = "read"
  /\ \E path \in Seen(t) :
       job' = [job EXCEPT ![t].at = "respond",
                          ![t].body = IF path \in DOMAIN Files THEN path ELSE ""]
  /\ UNCHANGED <<up, plan, asked, connVars, appVars>>

\* Then the mode in fileStat_ is tested and the file read; a file is known by
\* its path.
ReadFile(t) ==
  /\ job[t].at = "read"
  /\ \E path \in Seen(t) :
       job' = [job EXCEPT ![t].at = "respond",
                          ![t].body = IF fileStat = "file" /\ path \in DOMAIN Files
                                      THEN path ELSE ""]
  /\ UNCHANGED <<up, plan, asked, connVars, appVars>>

-----------------------------------------------------------------------------

OnRequest(t) ==
  \/ RoutePage(t, {"/", "/index.html"}, "/index.html")
  \/ RoutePage(t, {"/welcome"}, "/welcome.html")
  \/ RouteRegisterPage(t) \/ RouteRegister(t) \/ RouteJpg(t)
  \/ RouteLogin(t) \/ RouteNotFound(t)
  \/ HasHField(t) \/ Insert(t) \/ Cache(t)
  \/ SetFile(t) \/ Stat(t) \/ ReadFile(t)

\* What an I/O thread does by itself.
Work(t) ==
  \/ \E c \in Conns, n \in 1..MaxMessage : OnMessage(t, c, n) /\ UNCHANGED appVars
  \/ ParseRequest(t) /\ UNCHANGED appVars
  \/ OnRequest(t)
  \/ Respond(t) /\ UNCHANGED appVars

ClientStep(c) ==
  (OnConnection(c) \/ Ask(c) \/ HangUp(c)) /\ UNCHANGED appVars

AppNext ==
  \/ Start
  \/ Crash
  \/ \E c \in Conns : ClientStep(c)
  \/ \E t \in IoThreads : Work(t)

AppSpec == AppInit /\ [][AppNext]_vars

-----------------------------------------------------------------------------
(* Properties.                                                             *)

Malformed(r) ==
  ~ /\ Len(r.line) = 3
    /\ \E m \in Methods : r.line[1] = Word(m)
    /\ \E v \in Versions : r.line[3] = Word(v)

\* The last of the headers Connection has this value.
ConnectionIs(r, value) ==
  \E i \in DOMAIN r.headers :
    /\ r.headers[i] = Header("Connection", value)
    /\ \A j \in (i + 1)..Len(r.headers) : r.headers[j].field # "Connection"

\* The client wants the connection closed after the answer.
AsksToClose(r) ==
  \/ ConnectionIs(r, "close")
  \/ r.line[3] = Word("HTTP/1.0") /\ ~ConnectionIs(r, "Keep-Alive")

Answers(response, r) ==
  IF Malformed(r)
  THEN response.status = "400"
  ELSE /\ response.status \in {"200", "404"}
       /\ response.path = r.line[2].path
       /\ response.close = (AsksToClose(r) \/ response.status = "404")

\* Nothing the client has sent is still to be read, and its thread rests.
AtRest(c) == tcp[c] # "kDisconnected" /\ net[c] = <<>> /\ job[ThreadOf[c]] = NoJob

\* Wherever the network cuts the requests of a client that waits for its
\* answers, the answers are those to its requests, in their order, and close
\* the connection when the client asks for it; and once the server has read all
\* that arrived and rests, no request is without its answer: no piece of one
\* is left in the buffer or the context with nobody to look at it again.  Only
\* after a request with a body, of which parseRequest() may have left a part in
\* the buffer, is nothing said.  No client gets more answers than it asked for,
\* when no body contains a CR LF (PlanAssumption): a late one would end a line,
\* which draws an answer of its own.
AnswersInOrder ==
  \A c \in Conns :
    LET bodiless(n) == \A j \in 1..n : asked[c][j].body = <<>>
    IN  /\ Len(written[c]) <= Len(asked[c])
        /\ plan[c].waits =>
             /\ \A i \in DOMAIN written[c] :
                  bodiless(i - 1) => Answers(written[c][i], asked[c][i])
             /\ AtRest(c) /\ bodiless(Len(asked[c])) => Len(written[c]) = Len(asked[c])

\* The server ends the connection with an answer that says so, a 400 included,
\* and with no other, and sends nothing behind it.
ClosesWithItsAnswer ==
  \A c \in Conns :
    /\ \A i \in DOMAIN written[c] :
         written[c][i].close => i = Len(written[c]) /\ tcp[c] # "kConnected"
    /\ tcp[c] = "kDisconnecting" => SawClose(c)

\* The assert of setMethod(): while the connection is open, a request line finds
\* no method left by an earlier one.  Behind a line that was refused, with a 400
\* or on a connection already shut down, both the line and its method stay.
MethodIsClear ==
  \A c \in Conns :
    tcp[c] = "kConnected" /\ context[c].state = "kExpectRequestLine"
      => context[c].request.method = "kInvalid"

\* The pages the site has for a path.
PagesFor(path) ==
  CASE path \in {"/", "/index.html"} -> {"/index.html"}
    [] path = "/register" -> {"/register.html", "/registerFailed.html", "/welcome.html"}
    [] path = "/welcome" -> {"/welcome.html"}
    [] path \in Jpgs -> IF path \in DOMAIN Files /\ Files[path] = "file" THEN {path} ELSE {""}
    [] path \in Logins \ Jpgs -> {"/welcome.html", "/loginFailed.html", "/404.html"}
    [] OTHER -> {"/404.html"}

\* A request that no other thread's request overlapped is answered with a page
\* of its own, never with that of an earlier request, and a file that others
\* may not read is not served; excepted is a registration whose INSERT failed.
OwnPageWhenAlone ==
  \A c \in Conns : \A i \in DOMAIN written[c] :
    LET r == written[c][i]
    IN  r.status # "400" /\ r.alone /\ ~r.failed => r.body \in PagesFor(r.path)

\* Who is welcomed after /login or /register is in the table with that
\* password, also after registrations that raced and after crashes.
WelcomeIsEarned ==
  \A c \in Conns : \A i \in DOMAIN written[c] :
    LET r == written[c][i]
    IN  r.alone /\ ~r.failed /\ r.body = "/welcome.html" /\ r.path # "/welcome"
          => r.form \in Rows

\* Redis holds nothing the table does not, and while the server runs it lacks a
\* user of the table only between INSERT and setHField() of a registration or
\* after a failed write: a crash between the two is made good by the next start.
RedisFollowsTable ==
  /\ \A u \in DOMAIN redis : <<u, redis[u]>> \in Rows
  /\ up => \A row \in Rows :
             \/ row[1] \in DOMAIN redis \cup unsaved
             \/ \E t \in IoThreads : job[t].at = "cache" /\ job[t].form = row
=============================================================================
