------------------------- MODULE ApplicationProofs --------------------------
(***************************************************************************)
(* Proofs about the HTTP server and its application, for any number of     *)
(* clients and I/O threads, any requests in any pieces, and any number of  *)
(* crashes.                                                                *)
(***************************************************************************)
EXTENDS Application, WellFoundedInduction, TLAPS

-----------------------------------------------------------------------------
(* Sequences, maxima and pairs.                                            *)

IsSeq(s) == Len(s) \in Nat /\ s = [i \in 1..Len(s) |-> s[i]]
IsPair(x) == x = <<x[1], x[2]>>

\* Append() to a sequence of any elements keeps the old ones and adds the last.
LEMMA AppendAny ==
  ASSUME NEW s, IsSeq(s), NEW e
  PROVE  /\ IsSeq(Append(s, e)) /\ DOMAIN s = 1..Len(s) /\ Len(s) \in Nat
         /\ DOMAIN Append(s, e) = 1..(Len(s) + 1) /\ Len(Append(s, e)) = Len(s) + 1
         /\ \A i \in 1..Len(s) : Append(s, e)[i] = s[i]
         /\ Append(s, e)[Len(s) + 1] = e
<1> DEFINE S == {s[i] : i \in 1..Len(s)} \cup {e}
<1>1. Len(s) \in Nat /\ s = [i \in 1..Len(s) |-> s[i]]
  BY DEF IsSeq
<1>2. e \in S /\ \A i \in 1..Len(s) : s[i] \in S
  OBVIOUS
<1> HIDE DEF S
<1>3. s \in Seq(S)
  BY <1>1, <1>2
<1>4. /\ Append(s, e) \in Seq(S) /\ Len(Append(s, e)) = Len(s) + 1
      /\ \A i \in 1..Len(s) : Append(s, e)[i] = s[i]
      /\ Append(s, e)[Len(s) + 1] = e
  BY <1>2, <1>3
<1>5. /\ DOMAIN Append(s, e) = 1..Len(Append(s, e)) /\ DOMAIN s = 1..Len(s)
      /\ Append(s, e) = [i \in 1..Len(Append(s, e)) |-> Append(s, e)[i]]
  <2>1. \A q \in Seq(S) : DOMAIN q = 1..Len(q) /\ q = [i \in 1..Len(q) |-> q[i]]
    OBVIOUS
  <2> QED
    BY <1>3, <1>4, <2>1
<1> QED
  BY <1>1, <1>4, <1>5 DEF IsSeq

\* Every non-empty set of naturals has a least element.
LEMMA Smallest ==
  ASSUME NEW T \in SUBSET Nat, T # {}
  PROVE  \E x \in T : \A y \in T : x <= y
<1> DEFINE R == OpToRel(<, Nat)
<1>1. \E x \in T : \A y \in T : ~(<<y, x>> \in R)
  BY NatLessThanWellFounded, WFMin
<1>2. \A x \in Nat, y \in Nat : y < x => <<y, x>> \in R
  BY DEF OpToRel
<1> HIDE DEF R
<1>3. PICK x \in T : \A y \in T : ~(<<y, x>> \in R)
  BY <1>1
<1>4. \A y \in T : ~(y < x)
  BY <1>2, <1>3
<1>5. \A y \in T : x <= y
  BY <1>4
<1> QED
  BY <1>5

\* Max() of a non-empty set of indices is one of them.
LEMMA Largest ==
  ASSUME NEW n \in Nat, NEW T \in SUBSET (1..n), T # {}
  PROVE  Max(T) \in T
<1> DEFINE D == {n - i : i \in T}
<1>1. \A i \in T : i \in 1..n
  OBVIOUS
<1>2. D \in SUBSET Nat /\ D # {}
  <2>1. \A i \in T : n - i \in Nat
    BY <1>1
  <2>2. \A d \in D : \E i \in T : d = n - i
    OBVIOUS
  <2>3. \A i \in T : n - i \in D
    OBVIOUS
  <2> HIDE DEF D
  <2> QED
    BY <2>1, <2>2, <2>3
<1>3. PICK d \in D : \A y \in D : d <= y
  <2> HIDE DEF D
  <2> QED
    BY <1>2, Smallest
<1>4. PICK i \in T : d = n - i
  BY <1>3
<1>5. \A j \in T : n - j \in D
  OBVIOUS
<1>6. \A j \in T : i >= j
  <2> HIDE DEF D
  <2> QED
    BY <1>1, <1>3, <1>4, <1>5
<1> QED
  BY <1>6 DEF Max

-----------------------------------------------------------------------------
(* Shapes.                                                                 *)

\* Where a thread may be in the callback
InCallback == {"route", "register", "insert", "cache", "set", "html", "read", "respond"}

IsCall(j) ==
  /\ j = [at |-> j.at, conn |-> j.conn, request |-> j.request, close |-> j.close,
          status |-> j.status, page |-> j.page, body |-> j.body, form |-> j.form,
          alone |-> j.alone, failed |-> j.failed]
  /\ j.at \in InCallback
  /\ j.conn \in Conns

IsJob(j) ==
  \/ j = NoJob
  \/ j = [at |-> "parse", conn |-> j.conn] /\ j.conn \in Conns
  \/ IsCall(j)

IsContext(k) == k = [state |-> k.state, request |-> k.request]

ShapeInv ==
  /\ up \in BOOLEAN
  /\ tcp \in [Conns -> {"kDisconnected", "kConnected", "kDisconnecting"}]
  /\ written = [c \in Conns |-> written[c]] /\ \A c \in Conns : IsSeq(written[c])
  /\ context = [c \in Conns |-> context[c]] /\ \A c \in Conns : IsContext(context[c])
  /\ job = [t \in IoThreads |-> job[t]] /\ \A t \in IoThreads : IsJob(job[t])
  /\ IsSeq(db) /\ \A i \in 1..Len(db) : IsPair(db[i])

\* Nothing of the server is left when it is down.
DownInv ==
  ~up => /\ \A t \in IoThreads : job[t] = NoJob
         /\ \A c \in Conns : tcp[c] = "kDisconnected"

\* The jobs of the other threads stay; that of t goes on.
OnlyJob(t) ==
  /\ job' = [u \in IoThreads |-> job'[u]]
  /\ \A u \in IoThreads \ {t} : job'[u] = job[u]

Callback(t) ==
  /\ IsCall(job[t]) /\ IsCall(job'[t]) /\ OnlyJob(t)
  /\ job'[t].conn = job[t].conn /\ job'[t].request = job[t].request
  /\ job'[t].alone = job[t].alone
  /\ UNCHANGED <<up, tcp, written, context, crashes>>

\* A job that is in the callback has all its local variables.
LEMMA CallShape ==
  ASSUME NEW j, IsJob(j), j.at \in InCallback
  PROVE  IsCall(j)
  BY DEF IsJob, NoJob, InCallback

-----------------------------------------------------------------------------
(* The steps of the callback, as far as the properties see them.           *)

\* What the client gets to see of a page.
Served(page) == IF page \in DOMAIN Files /\ Files[page] = "file" THEN page ELSE ""

InTable(form) == IsPair(form) /\ form[1] \in DOMAIN redis /\ redis[form[1]] = form[2]

Same(t) ==
  job'[t].page = job[t].page /\ job'[t].body = job[t].body /\ job'[t].form = job[t].form

RouteStep(t) ==
  /\ job[t].at = "route" /\ job'[t].at = "set"
  /\ Served(job'[t].page) \in PagesFor(job[t].request.path)
  /\ job'[t].page = "/welcome.html" /\ job[t].request.path # "/welcome" => InTable(job'[t].form)
  /\ job'[t].body = job[t].body /\ job'[t].failed = job[t].failed
  /\ UNCHANGED appVars

FormStep(t) ==
  /\ job[t].at = "route" /\ job'[t].at = "register" /\ job[t].request.path = "/register"
  /\ IsPair(job'[t].form) /\ job'[t].body = job[t].body
  /\ UNCHANGED appVars

TakenStep(t) ==
  /\ job[t].at = "register" /\ job'[t].at = "set" /\ job'[t].page = "/registerFailed.html"
  /\ job'[t].body = job[t].body
  /\ UNCHANGED appVars

FreeStep(t) ==
  /\ job[t].at = "register" /\ job'[t].at = "insert" /\ Same(t)
  /\ UNCHANGED appVars

InsertStep(t) ==
  /\ job[t].at = "insert" /\ job'[t].at = "cache" /\ Same(t)
  /\ db' = Append(db, job[t].form)
  /\ UNCHANGED <<realFile, fileStat, redis, unsaved>>

InsertFails(t) ==
  /\ job[t].at = "insert" /\ job'[t].at = "html" /\ Same(t) /\ job'[t].failed = TRUE
  /\ UNCHANGED appVars

CacheStep(t) ==
  /\ job[t].at = "cache" /\ job'[t].at = "set" /\ job'[t].page = "/welcome.html"
  /\ job'[t].body = job[t].body /\ job'[t].form = job[t].form
  /\ SetHField(job[t].form[1], job[t].form[2])
  /\ UNCHANGED <<realFile, fileStat, db>>

SetStep(t) ==
  /\ job[t].at = "set" /\ job'[t].at = "html" /\ Same(t) /\ job'[t].failed = job[t].failed
  /\ realFile' \in {job[t].page} \cup (IF Writing(t) THEN {Garbled} ELSE {})
  /\ UNCHANGED <<fileStat, db, redis, unsaved>>

StatStep(t) ==
  /\ job[t].at = "html" /\ Same(t) /\ job'[t].failed = job[t].failed
  /\ \E path \in Seen(t) :
       \/ path \notin DOMAIN Files /\ job'[t].at = "respond" /\ UNCHANGED fileStat
       \/ path \in DOMAIN Files /\ job'[t].at = "read" /\ fileStat' = Files[path]
  /\ UNCHANGED <<realFile, db, redis, unsaved>>

ReadStep(t) ==
  /\ job[t].at = "read" /\ job'[t].at = "respond" /\ job'[t].failed = job[t].failed
  /\ job'[t].page = job[t].page /\ job'[t].form = job[t].form
  /\ \E path \in Seen(t) :
       job'[t].body = IF fileStat = "file" /\ path \in DOMAIN Files THEN path ELSE ""
  /\ UNCHANGED appVars

CallStep(t) ==
  \/ RouteStep(t) \/ FormStep(t) \/ TakenStep(t) \/ FreeStep(t) \/ InsertStep(t)
  \/ InsertFails(t) \/ CacheStep(t) \/ SetStep(t) \/ StatStep(t) \/ ReadStep(t)

\* Every page a route chooses belongs to the path the route is for.
LEMMA Pages ==
  /\ \A path \in {"/", "/index.html"} : Served("/index.html") \in PagesFor(path)
  /\ Served("/welcome.html") \in PagesFor("/welcome")
  /\ \A page \in {"/register.html", "/registerFailed.html", "/welcome.html"} :
       Served(page) \in PagesFor("/register")
  /\ \A path \in Jpgs : Served(path) \in PagesFor(path) /\ path # "/welcome.html"
  /\ \A path \in Logins \ Jpgs, page \in {"/welcome.html", "/loginFailed.html"} :
       Served(page) \in PagesFor(path)
  /\ \A path : path \notin {"/", "/index.html", "/register", "/welcome"} \cup Jpgs
                 => Served("/404.html") \in PagesFor(path)
<1>1. \A page \in SitePages : Served(page) = page
  BY SiteAssumption DEF Served
<1>2. Jpgs \cap {"/", "/index.html", "/register", "/login", "/welcome", "/welcome.html"} = {}
  BY SiteAssumption DEF SitePages
<1>3. Logins \cap {"/", "/index.html", "/register", "/welcome"} = {}
  <2>1. \A path \in {"/", "/index.html", "/register", "/welcome"} :
          /\ path \in SitePages \cup {"/", "/register", "/login", "/welcome"}
          /\ path \notin {"/login", "/loginFailed.html"}
    BY DEF SitePages
  <2> QED
    BY <2>1, SiteAssumption
<1>4. \A path \in {"/", "/index.html"} : Served("/index.html") \in PagesFor(path)
  BY <1>1, <1>2, <1>3 DEF PagesFor, SitePages
<1>5. Served("/welcome.html") \in PagesFor("/welcome")
  BY <1>1, <1>2, <1>3 DEF PagesFor, SitePages
<1>6. \A page \in {"/register.html", "/registerFailed.html", "/welcome.html"} :
        Served(page) \in PagesFor("/register")
  BY <1>1, <1>2, <1>3 DEF PagesFor, SitePages
<1>7. \A path \in Jpgs : Served(path) \in PagesFor(path) /\ path # "/welcome.html"
  <2> SUFFICES ASSUME NEW path \in Jpgs
               PROVE  Served(path) \in PagesFor(path) /\ path # "/welcome.html"
    OBVIOUS
  <2>1. path \notin {"/", "/index.html", "/register", "/login", "/welcome", "/welcome.html"}
    BY <1>2
  <2>2. PagesFor(path) = IF path \in DOMAIN Files /\ Files[path] = "file" THEN {path} ELSE {""}
    BY <2>1 DEF PagesFor
  <2> QED
    BY <2>1, <2>2 DEF Served
<1>8. \A path \in Logins \ Jpgs, page \in {"/welcome.html", "/loginFailed.html"} :
        Served(page) \in PagesFor(path)
  <2> SUFFICES ASSUME NEW path \in Logins \ Jpgs
               PROVE  \A page \in {"/welcome.html", "/loginFailed.html"} : Served(page) \in PagesFor(path)
    OBVIOUS
  <2>1. path \notin {"/", "/index.html", "/register", "/welcome"}
    BY <1>3
  <2>2. PagesFor(path) = {"/welcome.html", "/loginFailed.html", "/404.html"}
    BY <2>1 DEF PagesFor
  <2> QED
    BY <1>1, <2>2 DEF SitePages
<1>9. ASSUME NEW path, path \notin {"/", "/index.html", "/register", "/welcome"} \cup Jpgs
      PROVE  Served("/404.html") \in PagesFor(path)
  BY <1>1, <1>9 DEF PagesFor, SitePages
<1> QED
  BY <1>4, <1>5, <1>6, <1>7, <1>8, <1>9

\* What the pattern finds in a body is a user and a password, both perhaps empty.
LEMMA Form ==
  ASSUME NEW body
  PROVE  IsPair(FormOf(body))
  BY DEF FormOf, IsPair

\* Every update of the job of t by the callback
LEMMA CallbackOf ==
  ASSUME ShapeInv, NEW t \in IoThreads, job[t].at \in InCallback, NEW k, IsCall(k),
         job' = [job EXCEPT ![t] = k], k.conn = job[t].conn, k.request = job[t].request,
         k.alone = job[t].alone, UNCHANGED <<up, connVars, crashes>>
  PROVE  Callback(t) /\ job'[t] = k
<1>1. job'[t] = k /\ OnlyJob(t)
  BY DEF ShapeInv, OnlyJob
<1>2. IsCall(job[t])
  BY CallShape DEF ShapeInv
<1> QED
  BY <1>1, <1>2 DEF Callback, connVars

\* Choosing a page moves the request on to strcpy() and leaves the rest of it.
LEMMA ServeCall ==
  ASSUME ShapeInv, NEW t \in IoThreads, job[t].at \in InCallback, NEW page, Serve(t, page),
         UNCHANGED <<up, connVars, crashes>>
  PROVE  /\ Callback(t) /\ job'[t].at = "set" /\ job'[t].page = page
         /\ job'[t].form = job[t].form /\ job'[t].body = job[t].body /\ job'[t].failed = job[t].failed
<1>1. IsCall(job[t]) /\ job = [u \in IoThreads |-> job[u]]
  BY CallShape DEF ShapeInv
<1>2. PICK j : j = job[t] /\ IsCall(j)
  BY <1>1
<1>3. PICK k : k = [[j EXCEPT !.at = "set"] EXCEPT !.page = page]
  OBVIOUS
<1>4. job' = [job EXCEPT ![t] = k]
  BY <1>2, <1>1, <1>3 DEF Serve
<1>5. /\ IsCall(k) /\ k.at = "set" /\ k.form = job[t].form /\ k.body = job[t].body /\ k.page = page
      /\ k.conn = job[t].conn /\ k.request = job[t].request /\ k.alone = job[t].alone
      /\ k.failed = job[t].failed
  <2>1. "set" \in InCallback
    BY DEF InCallback
  <2>2. /\ IsCall(k) /\ k.at = "set" /\ k.form = j.form /\ k.body = j.body /\ k.page = page
        /\ k.conn = j.conn /\ k.request = j.request /\ k.alone = j.alone /\ k.failed = j.failed
    BY <1>2, <1>3, <2>1 DEF IsCall
  <2> QED
    BY <1>2, <2>2
<1> QED
  BY <1>4, <1>5, CallbackOf

\* The routes that only choose a page choose one of their path.
LEMMA RouteCalls ==
  ASSUME ShapeInv, NEW t \in IoThreads,
         \/ RoutePage(t, {"/", "/index.html"}, "/index.html")
         \/ RoutePage(t, {"/welcome"}, "/welcome.html")
         \/ RouteRegisterPage(t) \/ RouteJpg(t)
  PROVE  Callback(t) /\ RouteStep(t)
<1> DEFINE path == job[t].request.path
<1>1. PICK page : /\ Serve(t, page) /\ job[t].at = "route" /\ UNCHANGED <<up, connVars, appVars>>
                  /\ \/ path \in {"/", "/index.html"} /\ page = "/index.html"
                     \/ path = "/welcome" /\ page = "/welcome.html"
                     \/ path = "/register" /\ page = "/register.html"
                     \/ path \in Jpgs /\ page = path
  BY DEF RoutePage, RouteRegisterPage, RouteJpg
<1>2. job[t].at \in InCallback
  BY <1>1 DEF InCallback
<1>3. crashes' = crashes
  BY <1>1 DEF appVars
<1>4. /\ Callback(t) /\ job'[t].at = "set" /\ job'[t].page = page
      /\ job'[t].form = job[t].form /\ job'[t].body = job[t].body /\ job'[t].failed = job[t].failed
  BY <1>1, <1>2, <1>3, ServeCall
<1>5. /\ Served(page) \in PagesFor(path)
      /\ page = "/welcome.html" => path = "/welcome"
  <2> HIDE DEF path
  <2>1. CASE path \in {"/", "/index.html"} /\ page = "/index.html"
    BY <2>1, Pages
  <2>2. CASE path = "/welcome" /\ page = "/welcome.html"
    BY <2>2, Pages
  <2>3. CASE path = "/register" /\ page = "/register.html"
    BY <2>3, Pages
  <2>4. CASE path \in Jpgs /\ page = path
    BY <2>4, Pages
  <2> QED
    BY <1>1, <2>1, <2>2, <2>3, <2>4
<1> QED
  BY <1>1, <1>4, <1>5 DEF RouteStep

\* A login welcomes only whom Redis knows with that password.
LEMMA LoginCall ==
  ASSUME ShapeInv, NEW t \in IoThreads, RouteLogin(t)
  PROVE  Callback(t) /\ RouteStep(t)
<1>1. /\ job[t].at = "route" /\ job[t].request.path \in Logins \ Jpgs
      /\ UNCHANGED <<up, connVars, appVars>>
  BY DEF RouteLogin, IsLogin
<1>2. PICK form, page :
        /\ IsPair(form) /\ page \in {"/welcome.html", "/loginFailed.html"}
        /\ page = "/welcome.html" => form[1] \in DOMAIN redis /\ redis[form[1]] = form[2]
        /\ job' = [job EXCEPT ![t].at = "set", ![t].form = form, ![t].page = page]
  <2> DEFINE q == job[t].request.query
             form == IF Len(q) = 2 THEN <<q[1], q[2]>> ELSE <<"", "">>
             known == form[1] \in DOMAIN redis /\ redis[form[1]] = form[2]
             page == IF known THEN "/welcome.html" ELSE "/loginFailed.html"
  <2>1. job' = [job EXCEPT ![t].at = "set", ![t].form = form, ![t].page = page]
    BY DEF RouteLogin
  <2>2. IsPair(form)
    BY DEF IsPair
  <2> HIDE DEF form
  <2>3. page \in {"/welcome.html", "/loginFailed.html"} /\ (page = "/welcome.html" => known)
    OBVIOUS
  <2> HIDE DEF page
  <2> QED
    BY <2>1, <2>2, <2>3
<1>3. IsCall(job[t]) /\ job = [u \in IoThreads |-> job[u]] /\ job[t].at \in InCallback
  BY <1>1, CallShape DEF ShapeInv, InCallback
<1>4. PICK j : j = job[t] /\ IsCall(j)
  BY <1>3
<1>5. PICK k : k = [[[j EXCEPT !.at = "set"] EXCEPT !.form = form] EXCEPT !.page = page]
  OBVIOUS
<1>6. job' = [job EXCEPT ![t] = k]
  BY <1>4, <1>2, <1>3, <1>5
<1>7. /\ IsCall(k) /\ k.at = "set" /\ k.form = form /\ k.body = job[t].body /\ k.page = page
      /\ k.conn = job[t].conn /\ k.request = job[t].request /\ k.alone = job[t].alone
      /\ k.failed = job[t].failed
  <2>1. "set" \in InCallback
    BY DEF InCallback
  <2>2. /\ IsCall(k) /\ k.at = "set" /\ k.form = form /\ k.body = j.body /\ k.page = page
        /\ k.conn = j.conn /\ k.request = j.request /\ k.alone = j.alone /\ k.failed = j.failed
    BY <1>4, <1>5, <2>1 DEF IsCall
  <2> QED
    BY <1>4, <2>2
<1>8. crashes' = crashes
  BY <1>1 DEF appVars
<1>9. Callback(t) /\ job'[t] = k
  BY <1>1, <1>3, <1>6, <1>7, <1>8, CallbackOf
<1>10. Served(page) \in PagesFor(job[t].request.path)
  BY <1>1, <1>2, Pages
<1>11. page = "/welcome.html" => InTable(form)
  BY <1>2 DEF InTable
<1> QED
  BY <1>1, <1>7, <1>9, <1>10, <1>11 DEF RouteStep

\* Every other path gets the page of the 404.
LEMMA NotFoundCall ==
  ASSUME ShapeInv, NEW t \in IoThreads, RouteNotFound(t)
  PROVE  Callback(t) /\ RouteStep(t)
<1>1. /\ job[t].at = "route" /\ UNCHANGED <<up, connVars, appVars>>
      /\ job[t].request.path \notin {"/", "/index.html", "/register", "/welcome"} \cup Jpgs
      /\ job' = [job EXCEPT ![t].at = "set", ![t].page = "/404.html",
                            ![t].status = "404", ![t].close = TRUE]
  BY DEF RouteNotFound
<1>2. IsCall(job[t]) /\ job = [u \in IoThreads |-> job[u]] /\ job[t].at \in InCallback
  BY <1>1, CallShape DEF ShapeInv, InCallback
<1>3. PICK j : j = job[t] /\ IsCall(j)
  BY <1>2
<1>4. PICK k : k = [[[[j EXCEPT !.at = "set"] EXCEPT !.page = "/404.html"]
                      EXCEPT !.status = "404"] EXCEPT !.close = TRUE]
  OBVIOUS
<1>5. job' = [job EXCEPT ![t] = k]
  BY <1>3, <1>1, <1>2, <1>4
<1>6. /\ IsCall(k) /\ k.at = "set" /\ k.form = job[t].form /\ k.body = job[t].body
      /\ k.page = "/404.html" /\ k.conn = job[t].conn /\ k.request = job[t].request
      /\ k.alone = job[t].alone /\ k.failed = job[t].failed
  <2>1. "set" \in InCallback
    BY DEF InCallback
  <2>2. /\ IsCall(k) /\ k.at = "set" /\ k.form = j.form /\ k.body = j.body /\ k.page = "/404.html"
        /\ k.conn = j.conn /\ k.request = j.request /\ k.alone = j.alone /\ k.failed = j.failed
    BY <1>3, <1>4, <2>1 DEF IsCall
  <2> QED
    BY <1>3, <2>2
<1>7. crashes' = crashes
  BY <1>1 DEF appVars
<1>8. Callback(t) /\ job'[t] = k
  BY <1>1, <1>2, <1>5, <1>6, <1>7, CallbackOf
<1>9. Served("/404.html") \in PagesFor(job[t].request.path)
  BY <1>1, Pages
<1> QED
  BY <1>1, <1>6, <1>8, <1>9 DEF RouteStep

\* A form sent to /register goes on to the test of its name.
LEMMA RegisterCall ==
  ASSUME ShapeInv, NEW t \in IoThreads, RouteRegister(t)
  PROVE  Callback(t) /\ FormStep(t)
<1>1. PICK form : /\ job[t].at = "route" /\ job[t].request.path = "/register"
                  /\ UNCHANGED <<up, connVars, appVars>> /\ IsPair(form)
                  /\ job' = [job EXCEPT ![t].at = "register", ![t].form = form]
  BY Form DEF RouteRegister
<1>2. IsCall(job[t]) /\ job = [u \in IoThreads |-> job[u]] /\ job[t].at \in InCallback
  BY <1>1, CallShape DEF ShapeInv, InCallback
<1>3. PICK j : j = job[t] /\ IsCall(j)
  BY <1>2
<1>4. PICK k : k = [[j EXCEPT !.at = "register"] EXCEPT !.form = form]
  OBVIOUS
<1>5. job' = [job EXCEPT ![t] = k]
  BY <1>3, <1>1, <1>2, <1>4
<1>6. /\ IsCall(k) /\ k.at = "register" /\ k.form = form /\ k.body = job[t].body
      /\ k.conn = job[t].conn /\ k.request = job[t].request /\ k.alone = job[t].alone
  <2>1. "register" \in InCallback
    BY DEF InCallback
  <2>2. /\ IsCall(k) /\ k.at = "register" /\ k.form = form /\ k.body = j.body
        /\ k.conn = j.conn /\ k.request = j.request /\ k.alone = j.alone /\ k.failed = j.failed
    BY <1>3, <1>4, <2>1 DEF IsCall
  <2> QED
    BY <1>3, <2>2
<1>7. crashes' = crashes
  BY <1>1 DEF appVars
<1>8. Callback(t) /\ job'[t] = k
  BY <1>1, <1>2, <1>5, <1>6, <1>7, CallbackOf
<1> QED
  BY <1>1, <1>6, <1>8 DEF FormStep

\* A step that only goes on leaves page, body and form of the request.
LEMMA MoveCall ==
  ASSUME ShapeInv, NEW t \in IoThreads, job[t].at \in InCallback, NEW a \in InCallback,
         job' = [job EXCEPT ![t].at = a], UNCHANGED <<up, connVars, crashes>>
  PROVE  /\ Callback(t) /\ job'[t].at = a /\ Same(t) /\ job'[t].failed = job[t].failed
<1>1. IsCall(job[t]) /\ job = [u \in IoThreads |-> job[u]]
  BY CallShape DEF ShapeInv
<1>2. PICK j : j = job[t] /\ IsCall(j)
  BY <1>1
<1>3. PICK k : k = [j EXCEPT !.at = a]
  OBVIOUS
<1>4. job' = [job EXCEPT ![t] = k]
  BY <1>2, <1>1, <1>3
<1>5. /\ IsCall(k) /\ k.at = a /\ k.form = j.form /\ k.body = j.body /\ k.page = j.page
      /\ k.conn = j.conn /\ k.request = j.request /\ k.alone = j.alone /\ k.failed = j.failed
  BY <1>2, <1>3 DEF IsCall
<1>6. Callback(t) /\ job'[t] = k
  BY <1>2, <1>4, <1>5, CallbackOf
<1> QED
  BY <1>2, <1>5, <1>6 DEF Same

\* The test of the name ends with a refusal or goes on to the INSERT.
LEMMA HasHFieldCall ==
  ASSUME ShapeInv, NEW t \in IoThreads, HasHField(t)
  PROVE  Callback(t) /\ (TakenStep(t) \/ FreeStep(t))
<1>1. job[t].at = "register" /\ UNCHANGED <<up, connVars, appVars>>
  BY DEF HasHField
<1>2. job[t].at \in InCallback /\ "insert" \in InCallback /\ crashes' = crashes
  BY <1>1 DEF InCallback, appVars
<1>3. CASE Serve(t, "/registerFailed.html")
  <2>1. /\ Callback(t) /\ job'[t].at = "set" /\ job'[t].page = "/registerFailed.html"
        /\ job'[t].body = job[t].body
    BY <1>1, <1>2, <1>3, ServeCall
  <2> QED
    BY <1>1, <2>1 DEF TakenStep
<1>4. CASE job' = [job EXCEPT ![t].at = "insert"]
  <2>1. Callback(t) /\ job'[t].at = "insert" /\ Same(t)
    BY <1>1, <1>2, <1>4, MoveCall
  <2> QED
    BY <1>1, <2>1 DEF FreeStep
<1> QED
  BY <1>3, <1>4 DEF HasHField

\* The INSERT adds the form to the table, or fails and goes straight to getHtml().
LEMMA InsertCall ==
  ASSUME ShapeInv, NEW t \in IoThreads, Insert(t)
  PROVE  Callback(t) /\ (InsertStep(t) \/ InsertFails(t))
<1>1. job[t].at = "insert" /\ UNCHANGED <<up, connVars, realFile, fileStat, redis, unsaved, crashes>>
  BY DEF Insert
<1>2. job[t].at \in InCallback /\ "cache" \in InCallback /\ "html" \in InCallback
  BY <1>1 DEF InCallback
<1>3. CASE db' = Append(db, job[t].form) /\ job' = [job EXCEPT ![t].at = "cache"]
  <2>1. Callback(t) /\ job'[t].at = "cache" /\ Same(t)
    BY <1>1, <1>2, <1>3, MoveCall
  <2> QED
    BY <1>1, <1>3, <2>1 DEF InsertStep
<1>4. CASE job' = [job EXCEPT ![t].at = "html", ![t].failed = TRUE] /\ UNCHANGED db
  <2>1. IsCall(job[t]) /\ job = [u \in IoThreads |-> job[u]]
    BY <1>2, CallShape DEF ShapeInv
  <2>2. PICK j : j = job[t] /\ IsCall(j)
    BY <2>1
  <2>3. PICK k : k = [[j EXCEPT !.at = "html"] EXCEPT !.failed = TRUE]
    OBVIOUS
  <2>4. job' = [job EXCEPT ![t] = k]
    BY <1>4, <2>1, <2>2, <2>3
  <2>5. /\ IsCall(k) /\ k.at = "html" /\ k.form = j.form /\ k.body = j.body /\ k.page = j.page
        /\ k.conn = j.conn /\ k.request = j.request /\ k.alone = j.alone /\ k.failed = TRUE
    BY <1>2, <2>2, <2>3 DEF IsCall
  <2>6. Callback(t) /\ job'[t] = k
    BY <1>1, <1>2, <2>2, <2>4, <2>5, CallbackOf
  <2> QED
    BY <1>1, <1>4, <2>2, <2>5, <2>6 DEF InsertFails, Same, appVars
<1> QED
  BY <1>3, <1>4 DEF Insert

\* The write to Redis is followed by the page of /welcome, whatever its result.
LEMMA CacheCall ==
  ASSUME ShapeInv, NEW t \in IoThreads, Cache(t)
  PROVE  Callback(t) /\ CacheStep(t)
<1>1. /\ job[t].at = "cache" /\ UNCHANGED <<up, connVars, realFile, fileStat, db, crashes>>
      /\ SetHField(job[t].form[1], job[t].form[2]) /\ Serve(t, "/welcome.html")
  BY DEF Cache
<1>2. job[t].at \in InCallback
  BY <1>1 DEF InCallback
<1>3. /\ Callback(t) /\ job'[t].at = "set" /\ job'[t].page = "/welcome.html"
      /\ job'[t].form = job[t].form /\ job'[t].body = job[t].body
  BY <1>1, <1>2, ServeCall
<1> QED
  BY <1>1, <1>3 DEF CacheStep

\* The write of realFile_ is that of the request's page, or garbled in a race.
LEMMA SetFileCall ==
  ASSUME ShapeInv, NEW t \in IoThreads, SetFile(t)
  PROVE  Callback(t) /\ SetStep(t)
<1>1. /\ job[t].at = "set" /\ UNCHANGED <<up, connVars, fileStat, db, redis, unsaved, crashes>>
      /\ realFile' \in {job[t].page} \cup (IF Writing(t) THEN {Garbled} ELSE {})
      /\ job' = [job EXCEPT ![t].at = "html"]
  BY DEF SetFile
<1>2. job[t].at \in InCallback /\ "html" \in InCallback
  BY <1>1 DEF InCallback
<1>3. Callback(t) /\ job'[t].at = "html" /\ Same(t) /\ job'[t].failed = job[t].failed
  BY <1>1, <1>2, MoveCall
<1> QED
  BY <1>1, <1>3 DEF SetStep

\* stat() of what realFile_ names.
LEMMA StatCall ==
  ASSUME ShapeInv, NEW t \in IoThreads, Stat(t)
  PROVE  Callback(t) /\ StatStep(t)
<1>1. PICK path \in Seen(t), a \in {"respond", "read"} :
        /\ job[t].at = "html" /\ UNCHANGED <<up, connVars, realFile, db, redis, unsaved, crashes>>
        /\ \/ path \notin DOMAIN Files /\ a = "respond" /\ UNCHANGED fileStat
           \/ path \in DOMAIN Files /\ a = "read" /\ fileStat' = Files[path]
        /\ job' = [job EXCEPT ![t].at = a]
  BY DEF Stat
<1>2. job[t].at \in InCallback /\ a \in InCallback
  BY <1>1 DEF InCallback
<1>3. Callback(t) /\ job'[t].at = a /\ Same(t) /\ job'[t].failed = job[t].failed
  BY <1>1, <1>2, MoveCall
<1> QED
  BY <1>1, <1>3 DEF StatStep

\* The read of the file, by what fileStat_ says of it.
LEMMA ReadFileCall ==
  ASSUME ShapeInv, NEW t \in IoThreads, ReadFile(t)
  PROVE  Callback(t) /\ ReadStep(t)
<1>1. PICK path \in Seen(t) :
        /\ job[t].at = "read" /\ UNCHANGED <<up, connVars, appVars>>
        /\ job' = [job EXCEPT ![t].at = "respond",
                              ![t].body = IF fileStat = "file" /\ path \in DOMAIN Files
                                          THEN path ELSE ""]
  BY DEF ReadFile
<1>2. PICK b : b = IF fileStat = "file" /\ path \in DOMAIN Files THEN path ELSE ""
  OBVIOUS
<1>3. IsCall(job[t]) /\ job = [u \in IoThreads |-> job[u]] /\ job[t].at \in InCallback
  BY <1>1, CallShape DEF ShapeInv, InCallback
<1>4. PICK j : j = job[t] /\ IsCall(j)
  BY <1>3
<1>5. PICK k : k = [[j EXCEPT !.at = "respond"] EXCEPT !.body = b]
  OBVIOUS
<1>6. job' = [job EXCEPT ![t] = k]
  BY <1>4, <1>1, <1>2, <1>3, <1>5
<1>7. "respond" \in InCallback
  BY DEF InCallback
<1>8. /\ IsCall(k) /\ k.at = "respond" /\ k.form = j.form /\ k.body = b /\ k.page = j.page
      /\ k.conn = j.conn /\ k.request = j.request /\ k.alone = j.alone /\ k.failed = j.failed
  BY <1>4, <1>5, <1>7 DEF IsCall
<1>9. crashes' = crashes
  BY <1>1 DEF appVars
<1>10. Callback(t) /\ job'[t] = k
  BY <1>4, <1>1, <1>3, <1>6, <1>8, <1>9, CallbackOf
<1> QED
  BY <1>4, <1>1, <1>2, <1>8, <1>10 DEF ReadStep

\* Every step of onRequest() is one of the ten kinds above.
LEMMA CallSteps ==
  ASSUME ShapeInv, NEW t \in IoThreads, OnRequest(t)
  PROVE  Callback(t) /\ CallStep(t)
<1>1. CASE \/ RoutePage(t, {"/", "/index.html"}, "/index.html")
           \/ RoutePage(t, {"/welcome"}, "/welcome.html")
           \/ RouteRegisterPage(t) \/ RouteJpg(t)
  BY <1>1, RouteCalls DEF CallStep
<1>2. CASE RouteRegister(t) \/ RouteLogin(t) \/ RouteNotFound(t)
  BY <1>2, RegisterCall, LoginCall, NotFoundCall DEF CallStep
<1>3. CASE HasHField(t) \/ Insert(t) \/ Cache(t)
  BY <1>3, HasHFieldCall, InsertCall, CacheCall DEF CallStep
<1>4. CASE SetFile(t) \/ Stat(t) \/ ReadFile(t)
  BY <1>4, SetFileCall, StatCall, ReadFileCall DEF CallStep
<1> QED
  BY <1>1, <1>2, <1>3, <1>4 DEF OnRequest

-----------------------------------------------------------------------------
(* The steps outside the callback.                                         *)

\* What an iteration of parseRequest() makes of the context k: a refused line
\* ends the loop, and one that still expects a request line has left k alone.
Parsed(p, k) ==
  /\ IsContext(p.context) /\ p.ok \in BOOLEAN /\ p.hasMore \in BOOLEAN
  /\ ~p.ok => ~p.hasMore
  /\ p.ok /\ p.context.state = "kExpectRequestLine" => p.context = k

\* The fields of an iteration's result.
LEMMA ParsedRecord ==
  ASSUME NEW k, NEW p, NEW s, NEW r, NEW b, NEW ok \in BOOLEAN, NEW more \in BOOLEAN,
         p = [context |-> [state |-> s, request |-> r], buf |-> b, ok |-> ok, hasMore |-> more],
         ~ok => ~more, ok /\ s = "kExpectRequestLine" => [state |-> s, request |-> r] = k
  PROVE  Parsed(p, k)
<1>1. PICK x : x = [state |-> s, request |-> r]
  OBVIOUS
<1>2. x.state = s /\ IsContext(x)
  BY <1>1 DEF IsContext
<1>3. p.context = x /\ p.ok = ok /\ p.hasMore = more
  BY <1>1
<1> QED
  BY <1>1, <1>2, <1>3 DEF Parsed

\* An iteration that has left the request line promises nothing more.
LEMMA MovedOn ==
  ASSUME NEW k, NEW p, NEW s, s # "kExpectRequestLine", NEW r, NEW b, NEW more \in BOOLEAN,
         p = [context |-> [state |-> s, request |-> r], buf |-> b, ok |-> TRUE, hasMore |-> more]
  PROVE  Parsed(p, k)
<1>1. PICK x : x = [state |-> s, request |-> r]
  OBVIOUS
<1>2. x.state # "kExpectRequestLine" /\ IsContext(x)
  BY <1>1 DEF IsContext
<1>3. p.context = x /\ p.ok = TRUE /\ p.hasMore = more
  BY <1>1
<1> QED
  BY <1>2, <1>3 DEF Parsed

\* An iteration at the request line.
LEMMA LineEffect ==
  ASSUME NEW k, IsContext(k), NEW b, NEW q, k.state = "kExpectRequestLine",
         q = [context |-> k, buf |-> b, ok |-> TRUE, hasMore |-> TRUE]
  PROVE  Parsed(OnRequestLine(q), k)
<1>1. PICK s, r0 : s = k.state /\ r0 = k.request /\ k = [state |-> s, request |-> r0]
  BY DEF IsContext
<1>2. PICK c, r, u : /\ c = FindCRLF(q.buf) /\ u = RetrieveUntil(q.buf, c + 2)
                     /\ r = ProcessRequestLine(q.context.request, LineOf(q.buf, c))
  OBVIOUS
<1>3. OnRequestLine(q) =
        CASE c = NotFound -> [q EXCEPT !.hasMore = FALSE]
          [] c # NotFound /\ ~r.ok ->
               [q EXCEPT !.context.request = r.request, !.ok = FALSE, !.hasMore = FALSE]
          [] OTHER -> [q EXCEPT !.context = [state |-> "kExpectHeaders", request |-> r.request],
                                !.buf = u]
  BY <1>2 DEF OnRequestLine
<1>4. PICK p : p = OnRequestLine(q)
  OBVIOUS
<1>5. PICK rr : rr = r.request
  OBVIOUS
<1>6. CASE c = NotFound
  <2>1. p = [context |-> [state |-> s, request |-> r0], buf |-> b, ok |-> TRUE, hasMore |-> FALSE]
    BY <1>1, <1>3, <1>4, <1>6
  <2> QED
    BY <1>1, <1>4, <2>1, ParsedRecord
<1>7. CASE c # NotFound /\ ~r.ok
  <2>1. p = [[[q EXCEPT !.context.request = rr] EXCEPT !.ok = FALSE] EXCEPT !.hasMore = FALSE]
    BY <1>3, <1>4, <1>5, <1>7
  <2>2. p = [context |-> [state |-> s, request |-> rr], buf |-> b, ok |-> FALSE, hasMore |-> FALSE]
    BY <1>1, <2>1
  <2> QED
    BY <1>4, <2>2, ParsedRecord
<1>8. CASE ~(c = NotFound) /\ ~(c # NotFound /\ ~r.ok)
  <2>1. p = [[q EXCEPT !.context = [state |-> "kExpectHeaders", request |-> rr]] EXCEPT !.buf = u]
    BY <1>3, <1>4, <1>5, <1>8
  <2>2. PICK next : next = "kExpectHeaders" /\ next # "kExpectRequestLine"
    OBVIOUS
  <2>3. p = [context |-> [state |-> next, request |-> rr], buf |-> u, ok |-> TRUE, hasMore |-> TRUE]
    BY <1>1, <2>1, <2>2
  <2>4. Parsed(p, k)
    BY <2>2, <2>3, MovedOn
  <2> QED
    BY <1>4, <2>4
<1> QED
  BY <1>6, <1>7, <1>8

\* An iteration at the headers.
LEMMA HeaderEffect ==
  ASSUME NEW k, IsContext(k), NEW b, NEW q, k.state = "kExpectHeaders",
         q = [context |-> k, buf |-> b, ok |-> TRUE, hasMore |-> TRUE]
  PROVE  Parsed(OnHeader(q), k)
<1>1. PICK s, r0 : s = "kExpectHeaders" /\ r0 = k.request /\ k = [state |-> s, request |-> r0]
  BY DEF IsContext
<1>2. PICK c, line, u, m :
        /\ c = FindCRLF(q.buf) /\ u = RetrieveUntil(q.buf, c + 2) /\ line = LineOf(q.buf, c)
        /\ m = AddHeader(q.context.request, CHOOSE w \in ToSet(line) : w.kind = "header")
  OBVIOUS
<1>3. OnHeader(q) =
        CASE c = NotFound -> [q EXCEPT !.hasMore = FALSE]
          [] c # NotFound /\ \E i \in DOMAIN line : line[i].kind = "header" ->
               [q EXCEPT !.context.request = m, !.buf = u]
          [] OTHER -> [q EXCEPT !.context.state = "kExpectBody", !.buf = u]
  BY <1>2 DEF OnHeader
<1>4. PICK p : p = OnHeader(q)
  OBVIOUS
<1>5. CASE c = NotFound
  <2>1. p = [context |-> [state |-> s, request |-> r0], buf |-> b, ok |-> TRUE, hasMore |-> FALSE]
    BY <1>1, <1>3, <1>4, <1>5
  <2> QED
    BY <1>1, <1>4, <2>1, ParsedRecord
<1>6. CASE c # NotFound /\ \E i \in DOMAIN line : line[i].kind = "header"
  <2>1. p = [[q EXCEPT !.context.request = m] EXCEPT !.buf = u]
    BY <1>3, <1>4, <1>6
  <2>2. p = [context |-> [state |-> s, request |-> m], buf |-> u, ok |-> TRUE, hasMore |-> TRUE]
    BY <1>1, <2>1
  <2> QED
    BY <1>1, <1>4, <2>2, ParsedRecord
<1>7. CASE ~(c = NotFound) /\ ~(c # NotFound /\ \E i \in DOMAIN line : line[i].kind = "header")
  <2>1. p = [[q EXCEPT !.context.state = "kExpectBody"] EXCEPT !.buf = u]
    BY <1>3, <1>4, <1>7
  <2>2. PICK next : next = "kExpectBody" /\ next # "kExpectRequestLine"
    OBVIOUS
  <2>3. p = [context |-> [state |-> next, request |-> r0], buf |-> u, ok |-> TRUE, hasMore |-> TRUE]
    BY <1>1, <2>1, <2>2
  <2>4. Parsed(p, k)
    BY <2>2, <2>3, MovedOn
  <2> QED
    BY <1>4, <2>4
<1> QED
  BY <1>5, <1>6, <1>7

\* An iteration at the body.
LEMMA BodyEffect ==
  ASSUME NEW k, NEW b, NEW q, q = [context |-> k, buf |-> b, ok |-> TRUE, hasMore |-> TRUE]
  PROVE  Parsed(OnBody(q), k)
<1>1. PICK r, u : r = [q.context.request EXCEPT !.body = Content(q.buf)] /\ u = RetrieveAll(q.buf)
  OBVIOUS
<1>2. OnBody(q) = [[[q EXCEPT !.context = [state |-> "kGotAll", request |-> r]] EXCEPT !.buf = u]
                    EXCEPT !.hasMore = FALSE]
  BY <1>1 DEF OnBody
<1>3. PICK p : p = OnBody(q)
  OBVIOUS
<1>4. PICK next : next = "kGotAll" /\ next # "kExpectRequestLine"
  OBVIOUS
<1>5. p = [context |-> [state |-> next, request |-> r], buf |-> u, ok |-> TRUE, hasMore |-> FALSE]
  BY <1>2, <1>3, <1>4
<1>6. Parsed(p, k)
  BY <1>4, <1>5, MovedOn
<1> QED
  BY <1>3, <1>6

\* An iteration of parseRequest(), in whatever state it starts.
LEMMA IterationEffect ==
  ASSUME NEW k, IsContext(k), NEW b
  PROVE  Parsed(Iteration(k, b), k)
<1>1. PICK q : q = [context |-> k, buf |-> b, ok |-> TRUE, hasMore |-> TRUE]
  OBVIOUS
<1>2. Iteration(k, b) = CASE k.state = "kExpectRequestLine" -> OnRequestLine(q)
                          [] k.state = "kExpectHeaders" -> OnHeader(q)
                          [] k.state = "kExpectBody" -> OnBody(q)
                          [] OTHER -> q
  BY <1>1 DEF Iteration
<1>3. Parsed(q, k)
  BY <1>1 DEF Parsed
<1> QED
  BY <1>1, <1>2, <1>3, LineEffect, HeaderEffect, BodyEffect

\* What a message is to the rest of the state
Done(t) == OnlyJob(t) /\ job'[t] = NoJob

Reading(t) ==
  /\ OnlyJob(t) /\ job[t] = NoJob
  /\ job'[t] = [at |-> "parse", conn |-> job'[t].conn] /\ job'[t].conn \in Conns
  /\ tcp[job'[t].conn] # "kDisconnected"
  /\ UNCHANGED <<up, tcp, context, written>>

\* onMessage() takes an idle thread to the parser.
LEMMA OnMessageEffect ==
  ASSUME ShapeInv, NEW t \in IoThreads, NEW c \in Conns, NEW n, OnMessage(t, c, n)
  PROVE  Reading(t)
<1>1. /\ job[t] = NoJob /\ job' = [job EXCEPT ![t] = [at |-> "parse", conn |-> c]]
      /\ tcp[c] # "kDisconnected" /\ UNCHANGED <<up, tcp, context, written>>
  BY DEF OnMessage
<1>2. job = [u \in IoThreads |-> job[u]]
  BY DEF ShapeInv
<1>3. PICK j : j = [at |-> "parse", conn |-> c]
  OBVIOUS
<1>4. j.conn = c
  BY <1>3
<1>5. job'[t] = j /\ OnlyJob(t)
  BY <1>1, <1>2, <1>3 DEF OnlyJob
<1> QED
  BY <1>1, <1>3, <1>4, <1>5 DEF Reading

\* The callback begins in thread t, and nobody is alone who is in it with t.
Joined(j, k) ==
  /\ IsCall(k) /\ k.alone = FALSE
  /\ k.at = j.at /\ k.conn = j.conn /\ k.request = j.request /\ k.close = j.close
  /\ k.status = j.status /\ k.page = j.page /\ k.body = j.body /\ k.form = j.form
  /\ k.failed = j.failed

Begins(t) ==
  /\ job' = [u \in IoThreads |-> job'[u]]
  /\ IsCall(job'[t]) /\ job'[t].at = "route" /\ job'[t].body = "" /\ job'[t].failed = FALSE
  /\ job'[t].alone = (Others(t) = {})
  /\ \A u \in IoThreads \ {t} :
       IF u \in Others(t) THEN Joined(job[u], job'[u]) ELSE job'[u] = job[u]

\* A complete request begins the callback, and ends the solitude of the others in it.
LEMMA BeginEffect ==
  ASSUME ShapeInv, NEW t \in IoThreads, NEW c \in Conns, NEW r, job' = BeginJob(t, c, r)
  PROVE  Begins(t)
<1>1. job' = [u \in IoThreads |->
                IF u = t THEN NewJob(t, c, r)
                ELSE IF u \in Others(t) THEN [job[u] EXCEPT !.alone = FALSE] ELSE job[u]]
  BY DEF BeginJob
<1>2. /\ job' = [u \in IoThreads |-> job'[u]] /\ job'[t] = NewJob(t, c, r)
      /\ \A u \in IoThreads \ {t} :
           job'[u] = IF u \in Others(t) THEN [job[u] EXCEPT !.alone = FALSE] ELSE job[u]
  BY <1>1
<1>3. PICK close, alone : close = MustClose(r) /\ alone = (Others(t) = {})
  OBVIOUS
<1>4. PICK k : k = [at |-> "route", conn |-> c, request |-> r, close |-> close,
                    status |-> "200", page |-> "", body |-> "", form |-> <<>>,
                    alone |-> alone, failed |-> FALSE]
  OBVIOUS
<1>5. IsCall(k) /\ k.at = "route" /\ k.body = "" /\ k.failed = FALSE /\ k.alone = alone
  BY <1>4 DEF IsCall, InCallback
<1>6. job'[t] = k
  BY <1>2, <1>3, <1>4 DEF NewJob
<1>7. ASSUME NEW u \in IoThreads \ {t}
      PROVE  IF u \in Others(t) THEN Joined(job[u], job'[u]) ELSE job'[u] = job[u]
  <2>1. CASE u \in Others(t)
    <3>1. IsCall(job[u])
      <4>1. IsJob(job[u]) /\ job[u].at \notin {"none", "parse"}
        BY <2>1 DEF ShapeInv, Others
      <4> QED
        BY <4>1 DEF IsJob, NoJob
    <3>2. PICK j : j = job[u] /\ IsCall(j)
      BY <3>1
    <3>3. PICK x : x = [j EXCEPT !.alone = FALSE]
      OBVIOUS
    <3>4. Joined(j, x)
      BY <3>2, <3>3 DEF Joined, IsCall
    <3>5. job'[u] = x
      BY <1>2, <2>1, <3>2, <3>3
    <3> QED
      BY <2>1, <3>2, <3>4, <3>5
  <2>2. CASE u \notin Others(t)
    BY <1>2, <2>2
  <2> QED
    BY <2>1, <2>2
<1> QED
  BY <1>2, <1>3, <1>5, <1>6, <1>7 DEF Begins

\* An iteration of parseRequest(), with what onMessage() does behind the last
Parsing(t, c, k) ==
  /\ c \in Conns /\ job[t] = [at |-> "parse", conn |-> c] /\ IsContext(k)
  /\ context' = [context EXCEPT ![c] = k]
  /\ UNCHANGED up
  /\ \/ /\ k.state = "kExpectRequestLine" => k = context[c]
        /\ UNCHANGED <<tcp, written>>
        /\ UNCHANGED job \/ Begins(t) \/ Done(t)
     \/ Refuse(c) /\ Done(t)

\* An iteration of parseRequest() with what onMessage() does behind it.
LEMMA ParseEffect ==
  ASSUME ShapeInv, NEW t \in IoThreads, ParseRequest(t)
  PROVE  \E c, k : Parsing(t, c, k)
<1>1. PICK c : c \in Conns /\ job[t] = [at |-> "parse", conn |-> c] /\ c = job[t].conn
  <2>1. job[t].at = "parse" /\ IsJob(job[t])
    BY DEF ParseRequest, ShapeInv
  <2> QED
    BY <2>1 DEF IsJob, NoJob, IsCall, InCallback
<1>2. PICK p : p = Iteration(context[c], input[c])
  OBVIOUS
<1>3. Parsed(p, context[c])
  BY <1>1, <1>2, IterationEffect DEF ShapeInv
<1>4. /\ context' = [context EXCEPT ![c] = p.context]
      /\ \/ p.hasMore /\ UNCHANGED <<tcp, written, job>>
         \/ ~p.hasMore /\ ~p.ok /\ Refuse(c) /\ job' = [job EXCEPT ![t] = NoJob]
         \/ p.ok /\ job' = BeginJob(t, c, p.context.request) /\ UNCHANGED <<tcp, written>>
         \/ p.ok /\ job' = [job EXCEPT ![t] = NoJob] /\ UNCHANGED <<tcp, written>>
      /\ UNCHANGED up
  BY <1>1, <1>2 DEF ParseRequest
<1>5. PICK k : k = p.context
  OBVIOUS
<1>6. job' = [job EXCEPT ![t] = NoJob] => Done(t)
  BY DEF Done, OnlyJob, ShapeInv
<1>7. job' = BeginJob(t, c, p.context.request) => Begins(t)
  BY <1>1, BeginEffect
<1>8. IsContext(k) /\ (p.ok /\ k.state = "kExpectRequestLine" => k = context[c]) /\ (p.hasMore => p.ok)
  BY <1>3, <1>5 DEF Parsed
<1> QED
  BY <1>1, <1>4, <1>5, <1>6, <1>7, <1>8 DEF Parsing

\* The answer
Answering(t, c, j, k) ==
  /\ c \in Conns /\ IsCall(j) /\ job[t] = j /\ j.at = "respond" /\ j.conn = c
  /\ k.state = "kExpectRequestLine" /\ k.request.method = "kInvalid" /\ IsContext(k)
  /\ context' = [context EXCEPT ![c] = k]
  /\ written' = Send(c, Response(j))
  /\ tcp' = IF j.close THEN Shutdown(c) ELSE tcp
  /\ UNCHANGED up /\ Done(t)

\* The end of onMessage(): send(), shutdown() and reset().
LEMMA RespondEffect ==
  ASSUME ShapeInv, NEW t \in IoThreads, Respond(t)
  PROVE  \E c, j, k : Answering(t, c, j, k)
<1>1. job[t].at = "respond" /\ IsJob(job[t])
  BY DEF Respond, ShapeInv
<1>2. PICK j : j = job[t] /\ IsCall(j)
  <2>1. job[t].at \in InCallback
    BY <1>1 DEF InCallback
  <2> QED
    BY <1>1, <2>1, CallShape
<1>3. PICK c : c = j.conn /\ c \in Conns
  BY <1>2 DEF IsCall
<1>4. PICK k0 : k0 = context[c] /\ IsContext(k0)
  BY <1>3 DEF ShapeInv
<1>5. PICK k : k = [state |-> "kExpectRequestLine", request |-> NewRequest]
  OBVIOUS
<1>6. Reset(k0) = k
  <2>1. PICK s, r, new : k0 = [state |-> s, request |-> r] /\ new = NewRequest
    BY <1>4 DEF IsContext
  <2>2. PICK x : x = [k0 EXCEPT !.state = "kExpectRequestLine"]
    OBVIOUS
  <2>3. x = [state |-> "kExpectRequestLine", request |-> r]
    BY <2>1, <2>2
  <2>4. [x EXCEPT !.request = new] = [state |-> "kExpectRequestLine", request |-> new]
    BY <2>3
  <2>5. Reset(k0) = [x EXCEPT !.request = new]
    BY <2>1, <2>2 DEF Reset
  <2> QED
    BY <1>5, <2>1, <2>4, <2>5
<1>7. /\ written' = Send(c, Response(j))
      /\ tcp' = IF j.close THEN Shutdown(c) ELSE tcp
      /\ context' = [context EXCEPT ![c] = Reset(@)]
      /\ job' = [job EXCEPT ![t] = NoJob] /\ UNCHANGED up
  BY <1>2, <1>3 DEF Respond
<1>8. context' = [context EXCEPT ![c] = k]
  BY <1>4, <1>6, <1>7
<1>9. Done(t)
  BY <1>7 DEF Done, OnlyJob, ShapeInv
<1>10. k.state = "kExpectRequestLine" /\ k.request.method = "kInvalid" /\ IsContext(k)
  <2>1. NewRequest.method = "kInvalid"
    BY DEF NewRequest
  <2> QED
    BY <1>5, <2>1 DEF IsContext
<1> QED
  BY <1>1, <1>2, <1>3, <1>7, <1>8, <1>9, <1>10 DEF Answering

Connects(c) ==
  /\ up
  /\ tcp' = [tcp EXCEPT ![c] = "kConnected"]
  /\ context' = [context EXCEPT ![c] = NewContext]
  /\ written' = [written EXCEPT ![c] = <<>>]

HangsUp(c) == tcp' = [tcp EXCEPT ![c] = "kDisconnected"] /\ UNCHANGED <<context, written>>

ClientMoves ==
  /\ UNCHANGED <<up, job, appVars>>
  /\ UNCHANGED <<tcp, context, written>> \/ \E c \in Conns : Connects(c) \/ HangsUp(c)

Serves(t) ==
  \/ Callback(t) /\ CallStep(t)
  \/ /\ UNCHANGED appVars
     /\ \/ Reading(t)
        \/ \E c, k : Parsing(t, c, k)
        \/ \E c, j, k : Answering(t, c, j, k)

\* Every step of the program is one of those summed up above.
LEMMA Steps ==
  ASSUME ShapeInv, [AppNext]_vars
  PROVE  ClientMoves \/ Start \/ Crash \/ \E t \in IoThreads : Serves(t)
<1>1. CASE UNCHANGED vars
  BY <1>1 DEF vars, httpVars, ClientMoves
<1>2. CASE \E c \in Conns : ClientStep(c)
  BY <1>2 DEF ClientStep, OnConnection, Ask, HangUp, ClientMoves, Connects, HangsUp
<1>3. ASSUME NEW t \in IoThreads, Work(t)
      PROVE  Serves(t)
  <2>1. CASE \E c \in Conns, n \in 1..MaxMessage : OnMessage(t, c, n) /\ UNCHANGED appVars
    BY <2>1, OnMessageEffect DEF Serves
  <2>2. CASE ParseRequest(t) /\ UNCHANGED appVars
    BY <2>2, ParseEffect DEF Serves
  <2>3. CASE OnRequest(t)
    BY <2>3, CallSteps DEF Serves
  <2>4. CASE Respond(t) /\ UNCHANGED appVars
    BY <2>4, RespondEffect DEF Serves
  <2> QED
    BY <1>3, <2>1, <2>2, <2>3, <2>4 DEF Work
<1> QED
  BY <1>1, <1>2, <1>3 DEF AppNext

\* conn->send() and conn->shutdown()
LEMMA SendEffect ==
  ASSUME ShapeInv, NEW c \in Conns, NEW r, written' = Send(c, r)
  PROVE  /\ written' = [d \in Conns |-> written'[d]] /\ \A d \in Conns : IsSeq(written'[d])
         /\ \A d \in Conns \ {c} : written'[d] = written[d]
         /\ written'[c] = IF tcp[c] = "kConnected" THEN Append(written[c], r) ELSE written[c]
<1>1. /\ written = [d \in Conns |-> written[d]] /\ \A d \in Conns : IsSeq(written[d])
  BY DEF ShapeInv
<1>2. PICK w : w = Append(written[c], r) /\ IsSeq(w)
  BY <1>1, AppendAny
<1>3. CASE tcp[c] = "kConnected"
  <2>1. written' = [written EXCEPT ![c] = w]
    BY <1>2, <1>3 DEF Send
  <2> QED
    BY <1>1, <1>2, <1>3, <2>1
<1>4. CASE tcp[c] # "kConnected"
  BY <1>1, <1>4 DEF Send
<1> QED
  BY <1>3, <1>4

States == {"kDisconnected", "kConnected", "kDisconnecting"}

\* shutdown() takes a connected connection, and no other, to kDisconnecting.
LEMMA ShutdownEffect ==
  ASSUME ShapeInv, NEW c \in Conns, tcp' = Shutdown(c)
  PROVE  /\ tcp' \in [Conns -> States] /\ \A d \in Conns \ {c} : tcp'[d] = tcp[d]
         /\ tcp'[c] = IF tcp[c] = "kConnected" THEN "kDisconnecting" ELSE tcp[c]
  BY DEF Shutdown, ShapeInv, States

\* A form that is to be written to the table has a user and a password.
FormInv ==
  \A t \in IoThreads : job[t].at \in {"register", "insert", "cache"} => IsPair(job[t].form)

\* FormInv is inductive.
LEMMA FormsKept ==
  ASSUME ShapeInv, FormInv, [AppNext]_vars
  PROVE  FormInv'
<1> SUFFICES ASSUME NEW u \in IoThreads, job'[u].at \in {"register", "insert", "cache"}
             PROVE  IsPair(job'[u].form)
  BY DEF FormInv
<1>1. NoJob.at = "none" /\ \A j, c : j = [at |-> "parse", conn |-> c] => j.at = "parse"
  BY DEF NoJob
<1>2. CASE ClientMoves \/ Start
  BY <1>2 DEF ClientMoves, Start, FormInv
<1>3. CASE Crash
  BY <1>1, <1>3 DEF Crash
<1>4. ASSUME NEW t \in IoThreads, Serves(t)
      PROVE  IsPair(job'[u].form)
  <2>1. CASE job'[u] = job[u]
    BY <2>1 DEF FormInv
  <2>2. CASE job'[u] = NoJob \/ job'[u].at = "route" \/ job'[u] = [at |-> "parse", conn |-> job'[u].conn]
    BY <1>1, <2>2
  <2>3. CASE Joined(job[u], job'[u])
    BY <2>3 DEF Joined, FormInv
  <2>4. CASE u = t /\ CallStep(t)
    BY <2>4 DEF CallStep, RouteStep, FormStep, TakenStep, FreeStep, InsertStep, InsertFails,
                CacheStep, SetStep, StatStep, ReadStep, Same, FormInv
  <2> QED
    BY <1>4, <2>1, <2>2, <2>3, <2>4
       DEF Serves, Callback, Reading, Parsing, Answering, Done, Begins, OnlyJob
<1> QED
  BY <1>2, <1>3, <1>4, Steps

\* The shapes hold when nothing has been started.
LEMMA ShapeInit ==
  ASSUME AppInit
  PROVE  ShapeInv /\ FormInv
<1>1. /\ up = FALSE /\ tcp = [c \in Conns |-> "kDisconnected"] /\ written = [c \in Conns |-> <<>>]
      /\ context = [c \in Conns |-> NewContext] /\ job = [t \in IoThreads |-> NoJob]
      /\ db = InitialUsers
  BY DEF AppInit, HttpInit
<1>2. IsContext(NewContext)
  BY DEF IsContext, NewContext
<1>3. IsSeq(<<>>)
  BY DEF IsSeq
<1>4. IsSeq(db) /\ \A i \in 1..Len(db) : IsPair(db[i])
  <2>1. db \in Seq(STRING \X STRING)
    BY <1>1, SiteAssumption
  <2>2. \A i \in 1..Len(db) : db[i] \in STRING \X STRING
    BY <2>1
  <2>3. \A x \in STRING \X STRING : IsPair(x)
    BY DEF IsPair
  <2> QED
    BY <2>1, <2>2, <2>3 DEF IsSeq
<1>5. NoJob.at = "none"
  BY DEF NoJob
<1>6. up \in BOOLEAN /\ tcp \in [Conns -> {"kDisconnected", "kConnected", "kDisconnecting"}]
  BY <1>1
<1>7. written = [c \in Conns |-> written[c]] /\ \A c \in Conns : IsSeq(written[c])
  BY <1>1, <1>3
<1>8. context = [c \in Conns |-> context[c]] /\ \A c \in Conns : IsContext(context[c])
  BY <1>1, <1>2
<1>9. job = [t \in IoThreads |-> job[t]] /\ \A t \in IoThreads : job[t] = NoJob
  BY <1>1
<1>10. FormInv
  BY <1>5, <1>9 DEF FormInv
<1> QED
  BY <1>4, <1>6, <1>7, <1>8, <1>9, <1>10 DEF ShapeInv, IsJob

TcpShape == tcp \in [Conns -> States]
WrittenShape == written = [c \in Conns |-> written[c]] /\ \A c \in Conns : IsSeq(written[c])
ContextShape == context = [c \in Conns |-> context[c]] /\ \A c \in Conns : IsContext(context[c])
JobShape == job = [t \in IoThreads |-> job[t]] /\ \A t \in IoThreads : IsJob(job[t])
DbShape == IsSeq(db) /\ \A i \in 1..Len(db) : IsPair(db[i])

\* ShapeInv in parts.
LEMMA ShapeParts ==
  ShapeInv <=> up \in BOOLEAN /\ TcpShape /\ WrittenShape /\ ContextShape /\ JobShape /\ DbShape
  BY DEF ShapeInv, TcpShape, WrittenShape, ContextShape, JobShape, DbShape, States

\* The connections keep their shape.
LEMMA ConnectionShapesKept ==
  ASSUME ShapeInv, [AppNext]_vars
  PROVE  up' \in BOOLEAN /\ TcpShape' /\ WrittenShape' /\ ContextShape'
<1>1. up \in BOOLEAN /\ TcpShape /\ WrittenShape /\ ContextShape
  BY ShapeParts
<1>2. CASE Start
  BY <1>1, <1>2 DEF Start, connVars, TcpShape, WrittenShape, ContextShape
<1>3. CASE Crash
  BY <1>1, <1>3 DEF Crash, TcpShape, WrittenShape, ContextShape, States
<1>4. CASE UNCHANGED <<up, tcp, context, written>>
  BY <1>1, <1>4 DEF TcpShape, WrittenShape, ContextShape
<1>5. ASSUME NEW c \in Conns, UNCHANGED up, Connects(c) \/ HangsUp(c)
      PROVE  up' \in BOOLEAN /\ TcpShape' /\ WrittenShape' /\ ContextShape'
  <2>1. IsContext(NewContext)
    BY DEF IsContext, NewContext
  <2>2. IsSeq(<<>>)
    BY DEF IsSeq
  <2>3. TcpShape'
    BY <1>1, <1>5 DEF Connects, HangsUp, TcpShape, States
  <2>4. WrittenShape'
    <3>1. CASE UNCHANGED written
      BY <1>1, <3>1 DEF WrittenShape
    <3>2. CASE written' = [written EXCEPT ![c] = <<>>]
      BY <1>1, <2>2, <3>2 DEF WrittenShape
    <3> QED
      BY <1>5, <3>1, <3>2 DEF Connects, HangsUp
  <2>5. ContextShape'
    <3>1. CASE UNCHANGED context
      BY <1>1, <3>1 DEF ContextShape
    <3>2. CASE context' = [context EXCEPT ![c] = NewContext]
      BY <1>1, <2>1, <3>2 DEF ContextShape
    <3> QED
      BY <1>5, <3>1, <3>2 DEF Connects, HangsUp
  <2> QED
    BY <1>1, <1>5, <2>3, <2>4, <2>5
<1>6. ASSUME NEW c \in Conns, NEW k, IsContext(k), context' = [context EXCEPT ![c] = k]
      PROVE  ContextShape'
  BY <1>1, <1>6 DEF ContextShape
<1>7. ASSUME NEW t, NEW c, NEW k, Parsing(t, c, k)
      PROVE  up' \in BOOLEAN /\ TcpShape' /\ WrittenShape' /\ ContextShape'
  <2>1. c \in Conns /\ UNCHANGED up /\ ContextShape'
    BY <1>6, <1>7 DEF Parsing
  <2>2. CASE UNCHANGED <<tcp, written>>
    BY <1>1, <2>1, <2>2 DEF TcpShape, WrittenShape
  <2>3. CASE Refuse(c)
    <3>1. WrittenShape'
      BY <2>1, <2>3, SendEffect DEF Refuse, WrittenShape
    <3>2. TcpShape'
      BY <2>1, <2>3, ShutdownEffect DEF Refuse, TcpShape
    <3> QED
      BY <1>1, <2>1, <3>1, <3>2
  <2> QED
    BY <1>7, <2>2, <2>3 DEF Parsing
<1>8. ASSUME NEW t, NEW c, NEW j, NEW k, Answering(t, c, j, k)
      PROVE  up' \in BOOLEAN /\ TcpShape' /\ WrittenShape' /\ ContextShape'
  <2>1. c \in Conns /\ UNCHANGED up /\ ContextShape'
    BY <1>6, <1>8 DEF Answering
  <2>2. WrittenShape'
    BY <1>8, <2>1, SendEffect DEF Answering, WrittenShape
  <2>3. tcp' = Shutdown(c) \/ tcp' = tcp
    BY <1>8 DEF Answering
  <2>4. TcpShape'
    BY <1>1, <2>1, <2>3, ShutdownEffect DEF TcpShape
  <2> QED
    BY <1>1, <2>1, <2>2, <2>4
<1> QED
  BY <1>2, <1>3, <1>4, <1>5, <1>7, <1>8, Steps DEF ClientMoves, Serves, Callback, Reading

\* The jobs keep their shape.
LEMMA JobShapeKept ==
  ASSUME ShapeInv, [AppNext]_vars
  PROVE  JobShape'
<1>1. JobShape
  BY ShapeParts
<1>2. CASE ClientMoves \/ Start
  BY <1>1, <1>2 DEF ClientMoves, Start, JobShape
<1>3. CASE Crash
  BY <1>3 DEF Crash, JobShape, IsJob
<1>4. ASSUME NEW t \in IoThreads, Serves(t)
      PROVE  JobShape'
  <2>1. job' = [u \in IoThreads |-> job'[u]]
    BY <1>1, <1>4 DEF Serves, Callback, Reading, Parsing, Answering, Done, Begins, OnlyJob, JobShape
  <2>2. ASSUME NEW u \in IoThreads
        PROVE  \/ job'[u] = job[u] \/ job'[u] = NoJob \/ IsCall(job'[u])
               \/ job'[u] = [at |-> "parse", conn |-> job'[u].conn] /\ job'[u].conn \in Conns
    BY <1>4 DEF Serves, Callback, Reading, Parsing, Answering, Done, Begins, Joined, OnlyJob
  <2> QED
    BY <1>1, <2>1, <2>2 DEF JobShape, IsJob
<1> QED
  BY <1>2, <1>3, <1>4, Steps

\* The table keeps its shape and changes in an INSERT alone.
LEMMA DbShapeKept ==
  ASSUME ShapeInv, FormInv, [AppNext]_vars
  PROVE  DbShape' /\ (db' = db \/ \E t \in IoThreads : InsertStep(t))
<1>1. DbShape
  BY ShapeParts
<1>2. db' = db \/ \E t \in IoThreads : InsertStep(t)
  BY Steps DEF ClientMoves, Start, Crash, Serves, appVars, CallStep, RouteStep, FormStep, TakenStep,
               FreeStep, InsertFails, CacheStep, SetStep, StatStep, ReadStep
<1>3. ASSUME NEW t \in IoThreads, InsertStep(t)
      PROVE  DbShape'
  <2>1. PICK form : IsPair(form) /\ db' = Append(db, form)
    BY <1>3 DEF InsertStep, FormInv
  <2>2. IsSeq(db) /\ \A i \in 1..Len(db) : IsPair(db[i])
    BY <1>1 DEF DbShape
  <2>3. /\ IsSeq(db') /\ Len(db') = Len(db) + 1 /\ db'[Len(db) + 1] = form
        /\ \A i \in 1..Len(db) : db'[i] = db[i]
    BY <2>1, <2>2, AppendAny
  <2>4. \A i \in 1..Len(db') : i \in 1..Len(db) \/ i = Len(db) + 1
    BY <2>2, <2>3 DEF IsSeq
  <2> QED
    BY <2>1, <2>2, <2>3, <2>4 DEF DbShape
<1> QED
  BY <1>1, <1>2, <1>3 DEF DbShape

\* ShapeInv and FormInv are inductive.
LEMMA ShapeKept ==
  ASSUME ShapeInv, FormInv, [AppNext]_vars
  PROVE  ShapeInv' /\ FormInv'
<1>1. ShapeInv' <=> (up \in BOOLEAN /\ TcpShape /\ WrittenShape /\ ContextShape /\ JobShape /\ DbShape)'
  BY DEF ShapeInv, TcpShape, WrittenShape, ContextShape, JobShape, DbShape, States
<1> QED
  BY <1>1, FormsKept, ConnectionShapesKept, JobShapeKept, DbShapeKept

-----------------------------------------------------------------------------
(* Connections.                                                            *)

\* What send() and, if the response closes, shutdown() do to a connection
LEMMA CloseKept ==
  ASSUME ShapeInv, ClosesWithItsAnswer, NEW c \in Conns, NEW r,
         written' = Send(c, r), tcp' = IF r.close THEN Shutdown(c) ELSE tcp
  PROVE  ClosesWithItsAnswer'
<1>1. /\ \A d \in Conns \ {c} : written'[d] = written[d]
      /\ written'[c] = IF tcp[c] = "kConnected" THEN Append(written[c], r) ELSE written[c]
  BY SendEffect
<1>2. /\ \A d \in Conns \ {c} : tcp'[d] = tcp[d]
      /\ r.close => tcp'[c] = IF tcp[c] = "kConnected" THEN "kDisconnecting" ELSE tcp[c]
      /\ ~r.close => tcp'[c] = tcp[c]
  BY ShutdownEffect
<1>3. ASSUME NEW d \in Conns, written'[d] = written[d], tcp'[d] = tcp[d]
      PROVE  /\ \A i \in DOMAIN written'[d] :
                  written'[d][i].close => i = Len(written'[d]) /\ tcp'[d] # "kConnected"
             /\ tcp'[d] = "kDisconnecting" => \E i \in DOMAIN written'[d] : written'[d][i].close
  BY <1>3 DEF ClosesWithItsAnswer, SawClose
<1>4. CASE tcp[c] # "kConnected"
  <2>1. \A d \in Conns : written'[d] = written[d] /\ tcp'[d] = tcp[d]
    BY <1>1, <1>2, <1>4
  <2> QED
    BY <1>3, <2>1 DEF ClosesWithItsAnswer, SawClose
<1>5. CASE tcp[c] = "kConnected"
  <2>1. PICK w : w = written[c] /\ IsSeq(w)
    BY DEF ShapeInv
  <2>2. \A i \in DOMAIN w : ~w[i].close
    BY <1>5, <2>1 DEF ClosesWithItsAnswer
  <2>3. PICK v : v = written'[c] /\ v = Append(w, r)
    BY <1>1, <1>5, <2>1
  <2>4. /\ DOMAIN w = 1..Len(w) /\ Len(w) \in Nat /\ DOMAIN v = 1..(Len(w) + 1)
        /\ Len(v) = Len(w) + 1 /\ v[Len(w) + 1] = r /\ \A i \in 1..Len(w) : v[i] = w[i]
    BY <2>1, <2>3, AppendAny
  <2>5. \A i \in DOMAIN v : v[i].close => i = Len(v) /\ r.close
    <3>1. \A i \in DOMAIN v : i \in 1..Len(w) \/ i = Len(w) + 1
      BY <2>4
    <3> QED
      BY <2>2, <2>4, <3>1
  <2>6. r.close => tcp'[c] = "kDisconnecting"
    BY <1>2, <1>5
  <2>7. tcp'[c] = "kDisconnecting" => \E i \in DOMAIN v : v[i].close
    <3>1. Len(w) + 1 \in DOMAIN v
      BY <2>4
    <3> QED
      BY <1>2, <1>5, <2>4, <3>1
  <2>8. /\ \A i \in DOMAIN written'[c] :
             written'[c][i].close => i = Len(written'[c]) /\ tcp'[c] # "kConnected"
        /\ tcp'[c] = "kDisconnecting" => \E i \in DOMAIN written'[c] : written'[c][i].close
    BY <2>3, <2>5, <2>6, <2>7
  <2>9. \A d \in Conns \ {c} : written'[d] = written[d] /\ tcp'[d] = tcp[d]
    BY <1>1, <1>2
  <2> QED
    BY <1>3, <2>8, <2>9 DEF ClosesWithItsAnswer, SawClose
<1> QED
  BY <1>4, <1>5

\* ClosesWithItsAnswer is inductive.
LEMMA ClosingKept ==
  ASSUME ShapeInv, ClosesWithItsAnswer, [AppNext]_vars
  PROVE  ClosesWithItsAnswer'
<1>1. CASE UNCHANGED <<tcp, written>>
  BY <1>1 DEF ClosesWithItsAnswer, SawClose
<1>2. CASE Crash
  BY <1>2 DEF Crash, ClosesWithItsAnswer, SawClose
<1>3. ASSUME NEW c \in Conns, Connects(c) \/ HangsUp(c)
      PROVE  ClosesWithItsAnswer'
  <2>1. tcp \in [Conns -> States] /\ written = [d \in Conns |-> written[d]]
    BY DEF ShapeInv, States
  <2>2. CASE Connects(c)
    <3>1. /\ tcp'[c] = "kConnected" /\ written'[c] = <<>>
          /\ \A d \in Conns \ {c} : tcp'[d] = tcp[d] /\ written'[d] = written[d]
      BY <2>1, <2>2 DEF Connects
    <3>2. DOMAIN <<>> = {}
      OBVIOUS
    <3> QED
      BY <3>1, <3>2 DEF ClosesWithItsAnswer, SawClose
  <2>3. CASE HangsUp(c)
    <3>1. /\ tcp'[c] = "kDisconnected" /\ UNCHANGED written
          /\ \A d \in Conns \ {c} : tcp'[d] = tcp[d]
      BY <2>1, <2>3 DEF HangsUp
    <3> QED
      BY <3>1 DEF ClosesWithItsAnswer, SawClose
  <2> QED
    BY <1>3, <2>2, <2>3
<1>4. ASSUME NEW c \in Conns, Refuse(c)
      PROVE  ClosesWithItsAnswer'
  <2>1. PICK r : r = BadRequest
    OBVIOUS
  <2>2. r.close = TRUE
    BY <2>1 DEF BadRequest
  <2>3. written' = Send(c, r) /\ tcp' = IF r.close THEN Shutdown(c) ELSE tcp
    BY <1>4, <2>1, <2>2 DEF Refuse
  <2> QED
    BY <2>3, CloseKept
<1>5. ASSUME NEW t, NEW c, NEW j, NEW k, Answering(t, c, j, k)
      PROVE  ClosesWithItsAnswer'
  <2>1. PICK r : r = Response(j)
    OBVIOUS
  <2>2. r.close = j.close
    BY <2>1 DEF Response
  <2>3. c \in Conns /\ written' = Send(c, r) /\ tcp' = IF r.close THEN Shutdown(c) ELSE tcp
    BY <1>5, <2>1, <2>2 DEF Answering
  <2> QED
    BY <2>3, CloseKept
<1>6. Start => UNCHANGED <<tcp, written>>
  BY DEF Start, connVars
<1> QED
  BY <1>1, <1>2, <1>3, <1>4, <1>5, <1>6, Steps DEF ClientMoves, Serves, Callback, Reading, Parsing

\* MethodIsClear is inductive.
LEMMA MethodKept ==
  ASSUME ShapeInv, MethodIsClear, [AppNext]_vars
  PROVE  MethodIsClear'
<1>1. tcp \in [Conns -> States] /\ context = [d \in Conns |-> context[d]]
  BY DEF ShapeInv, States
<1>2. CASE UNCHANGED <<tcp, context>>
  BY <1>2 DEF MethodIsClear
<1>3. CASE Crash
  BY <1>3 DEF Crash, MethodIsClear
<1>4. ASSUME NEW c \in Conns, Connects(c) \/ HangsUp(c)
      PROVE  MethodIsClear'
  <2>1. NewContext.request.method = "kInvalid"
    BY DEF NewContext, NewRequest
  <2> QED
    BY <1>1, <1>4, <2>1 DEF Connects, HangsUp, MethodIsClear
<1>5. ASSUME NEW t, NEW c, NEW k, Parsing(t, c, k)
      PROVE  MethodIsClear'
  <2>1. c \in Conns /\ context' = [context EXCEPT ![c] = k]
    BY <1>5 DEF Parsing
  <2>2. CASE (k.state = "kExpectRequestLine" => k = context[c]) /\ UNCHANGED tcp
    BY <1>1, <2>1, <2>2 DEF MethodIsClear
  <2>3. CASE Refuse(c)
    <3>1. tcp'[c] # "kConnected" /\ \A d \in Conns \ {c} : tcp'[d] = tcp[d]
      BY <2>1, <2>3, ShutdownEffect DEF Refuse
    <3> QED
      BY <1>1, <2>1, <3>1 DEF MethodIsClear
  <2> QED
    BY <1>5, <2>2, <2>3 DEF Parsing
<1>6. ASSUME NEW t, NEW c, NEW j, NEW k, Answering(t, c, j, k)
      PROVE  MethodIsClear'
  <2>1. c \in Conns /\ context' = [context EXCEPT ![c] = k] /\ k.request.method = "kInvalid"
    BY <1>6 DEF Answering
  <2>2. tcp' = Shutdown(c) \/ tcp' = tcp
    BY <1>6 DEF Answering
  <2>3. \A d \in Conns \ {c} : tcp'[d] = tcp[d]
    BY <2>1, <2>2, ShutdownEffect
  <2> QED
    BY <1>1, <2>1, <2>3 DEF MethodIsClear
<1>7. Start => UNCHANGED <<tcp, context>>
  BY DEF Start, connVars
<1> QED
  BY <1>2, <1>3, <1>4, <1>5, <1>6, <1>7, Steps DEF ClientMoves, Serves, Callback, Reading

-----------------------------------------------------------------------------
(* The table and Redis.                                                    *)

\* Rows are never taken out of the table, and only an INSERT adds one.
LEMMA RowsKept ==
  ASSUME ShapeInv, FormInv, [AppNext]_vars
  PROVE  /\ Rows \subseteq Rows'
         /\ \A t \in IoThreads : InsertStep(t) => Rows' = Rows \cup {job[t].form}
         /\ (\A t \in IoThreads : ~InsertStep(t)) => Rows' = Rows
<1>1. CASE db' = db
  <2>1. Rows' = Rows
    BY <1>1 DEF Rows
  <2>2. \A t \in IoThreads : ~InsertStep(t)
    <3> SUFFICES ASSUME NEW t \in IoThreads, InsertStep(t) PROVE FALSE
      OBVIOUS
    <3>1. PICK form : db' = Append(db, form)
      BY DEF InsertStep
    <3>2. IsSeq(db)
      BY DEF ShapeInv
    <3>3. Len(db') = Len(db) + 1 /\ Len(db) \in Nat
      BY <3>1, <3>2, AppendAny
    <3> QED
      BY <1>1, <3>3
  <2> QED
    BY <2>1, <2>2
<1>2. ASSUME NEW t \in IoThreads, InsertStep(t)
      PROVE  Rows' = Rows \cup {job[t].form}
  <2>1. PICK form : form = job[t].form /\ db' = Append(db, form)
    BY <1>2 DEF InsertStep
  <2>2. IsSeq(db)
    BY DEF ShapeInv
  <2>3. /\ DOMAIN db = 1..Len(db) /\ DOMAIN db' = 1..(Len(db) + 1) /\ Len(db) \in Nat
        /\ db'[Len(db) + 1] = form /\ \A i \in 1..Len(db) : db'[i] = db[i]
    BY <2>1, <2>2, AppendAny
  <2>4. 1..(Len(db) + 1) = 1..Len(db) \cup {Len(db) + 1}
    BY <2>3
  <2>5. {db'[i] : i \in DOMAIN db'} = {db[i] : i \in DOMAIN db} \cup {form}
    BY <2>3, <2>4
  <2> QED
    BY <2>1, <2>5 DEF Rows
<1> QED
  BY <1>1, <1>2, DbShapeKept

\* Who comes to, and who leaves, the place between INSERT and setHField()
LEMMA Caching ==
  ASSUME ShapeInv, [AppNext]_vars, NEW u \in IoThreads
  PROVE  /\ job'[u].at = "cache" => /\ job'[u].form = job[u].form
                                    /\ job[u].at = "cache" \/ InsertStep(u)
         /\ job[u].at = "cache" => \/ job'[u].at = "cache" /\ job'[u].form = job[u].form
                                   \/ CacheStep(u)
                                   \/ ~up'
<1>1. NoJob.at = "none" /\ \A j, c : j = [at |-> "parse", conn |-> c] => j.at = "parse"
  BY DEF NoJob
<1>2. CASE ClientMoves \/ Start
  BY <1>2 DEF ClientMoves, Start
<1>3. CASE Crash
  BY <1>1, <1>3 DEF Crash
<1>4. ASSUME NEW t \in IoThreads, Serves(t)
      PROVE  /\ job'[u].at = "cache" => /\ job'[u].form = job[u].form
                                        /\ job[u].at = "cache" \/ InsertStep(u)
             /\ job[u].at = "cache" => \/ job'[u].at = "cache" /\ job'[u].form = job[u].form
                                       \/ CacheStep(u)
  <2>1. CASE job'[u] = job[u]
    BY <2>1
  <2>2. CASE Joined(job[u], job'[u])
    BY <2>2 DEF Joined
  <2>3. CASE u = t /\ CallStep(t)
    BY <2>3 DEF CallStep, RouteStep, FormStep, TakenStep, FreeStep, InsertStep, InsertFails,
                CacheStep, SetStep, StatStep, ReadStep, Same
  <2>4. CASE u = t /\ ~CallStep(t)
    <3>1. Reading(t) \/ (\E c, k : Parsing(t, c, k)) \/ (\E c, j, k : Answering(t, c, j, k))
      BY <1>4, <2>4 DEF Serves
    <3>2. job[u].at # "cache"
      BY <1>1, <2>4, <3>1 DEF Reading, Parsing, Answering
    <3>3. job'[u].at # "cache"
      BY <1>1, <2>4, <3>1, <3>2 DEF Reading, Parsing, Answering, Done, Begins
    <3> QED
      BY <3>2, <3>3
  <2> QED
    BY <1>4, <2>1, <2>2, <2>3, <2>4
       DEF Serves, Callback, Reading, Parsing, Answering, Done, Begins, OnlyJob
<1> QED
  BY <1>2, <1>3, <1>4, Steps

\* A form that is to be copied to Redis is in the table already.
CacheInv == \A t \in IoThreads : job[t].at = "cache" => job[t].form \in Rows

\* CacheInv is inductive.
LEMMA CacheKept ==
  ASSUME ShapeInv, FormInv, CacheInv, [AppNext]_vars
  PROVE  CacheInv'
<1> SUFFICES ASSUME NEW u \in IoThreads, job'[u].at = "cache"
             PROVE  job'[u].form \in Rows'
  BY DEF CacheInv
<1> QED
  BY Caching, RowsKept DEF CacheInv

\* Redis and unsaved change in Start and Cache alone.
LEMMA RedisSteps ==
  ASSUME ShapeInv, [AppNext]_vars
  PROVE  Start \/ (\E t \in IoThreads : CacheStep(t)) \/ UNCHANGED <<redis, unsaved>>
  BY Steps DEF ClientMoves, Crash, Serves, appVars, CallStep, RouteStep, FormStep, TakenStep,
               FreeStep, InsertStep, InsertFails, SetStep, StatStep, ReadStep

\* The rows are pairs, and each is at some place of the table.
LEMMA RowsArePairs ==
  ASSUME ShapeInv
  PROVE  \A row \in Rows : IsPair(row)
  BY AppendAny DEF Rows, ShapeInv

InTheTable(hash) == \A u \in DOMAIN hash : <<u, hash[u]>> \in Rows

\* The constructor loads only what the table has.
LEMMA StartLoads ==
  ASSUME ShapeInv, InTheTable(redis), Start
  PROVE  \A u \in DOMAIN redis' : <<u, redis'[u]>> \in Rows
<1>1. PICK saved \in SUBSET DOMAIN db :
        redis' = WithFields(redis, [u \in {db[i][1] : i \in saved} |->
                                      db[Max({i \in saved : db[i][1] = u})][2]])
  BY DEF Start
<1>2. IsSeq(db) /\ \A i \in 1..Len(db) : IsPair(db[i])
  BY DEF ShapeInv
<1>3. DOMAIN db = 1..Len(db) /\ Len(db) \in Nat
  BY <1>2, AppendAny
<1>4. PICK fields : fields = [u \in {db[i][1] : i \in saved} |->
                                db[Max({i \in saved : db[i][1] = u})][2]]
  OBVIOUS
<1>5. ASSUME NEW u \in DOMAIN fields
      PROVE  <<u, fields[u]>> \in Rows
  <2>1. PICK i0 \in saved : db[i0][1] = u
    BY <1>4, <1>5
  <2>2. PICK T : T = {i \in saved : db[i][1] = u}
    OBVIOUS
  <2>3. T \in SUBSET (1..Len(db)) /\ T # {}
    BY <1>3, <2>1, <2>2
  <2>4. PICK m : m = Max(T) /\ m \in T
    BY <1>3, <2>3, Largest
  <2>5. m \in 1..Len(db) /\ db[m][1] = u
    BY <2>2, <2>3, <2>4
  <2>6. fields[u] = db[m][2]
    BY <1>4, <1>5, <2>2, <2>4
  <2>7. db[m] = <<u, fields[u]>>
    BY <1>2, <2>5, <2>6 DEF IsPair
  <2> QED
    BY <1>3, <2>5, <2>7 DEF Rows
<1>6. PICK old, new : old = redis /\ new = redis' /\ new = WithFields(old, fields)
  BY <1>1, <1>4
<1>7. /\ DOMAIN new = DOMAIN old \cup DOMAIN fields
      /\ \A u \in DOMAIN fields : new[u] = fields[u]
      /\ \A u \in DOMAIN old \ DOMAIN fields : new[u] = old[u]
  BY <1>6 DEF WithFields
<1>8. \A u \in DOMAIN new : <<u, new[u]>> \in Rows
  BY <1>5, <1>6, <1>7 DEF InTheTable
<1> QED
  BY <1>6, <1>8

\* A registration writes only what the table has, and forgets nobody.
LEMMA CacheLoads ==
  ASSUME ShapeInv, CacheInv, InTheTable(redis), NEW t \in IoThreads, CacheStep(t)
  PROVE  /\ \A u \in DOMAIN redis' : <<u, redis'[u]>> \in Rows
         /\ DOMAIN redis \cup unsaved \cup {job[t].form[1]} \subseteq DOMAIN redis' \cup unsaved'
<1>1. PICK form : form = job[t].form /\ form \in Rows /\ form = <<form[1], form[2]>>
  BY RowsArePairs DEF CacheStep, CacheInv, IsPair
<1>2. PICK user, passwd : user = form[1] /\ passwd = form[2]
  OBVIOUS
<1>3. SetHField(user, passwd) /\ form = <<user, passwd>>
  BY <1>1, <1>2 DEF CacheStep
<1>4. CASE redis' = WithFields(redis, [u \in {user} |-> passwd]) /\ unsaved' = unsaved \ {user}
  <2>1. PICK fields : fields = [u \in {user} |-> passwd]
    OBVIOUS
  <2>2. DOMAIN fields = {user} /\ fields[user] = passwd
    BY <2>1
  <2>3. PICK old, new : old = redis /\ new = redis' /\ new = WithFields(old, fields)
    BY <1>4, <2>1
  <2>4. /\ DOMAIN redis' = DOMAIN redis \cup {user} /\ redis'[user] = passwd
        /\ \A u \in DOMAIN redis \ {user} : redis'[u] = redis[u]
    <3>1. /\ DOMAIN new = DOMAIN old \cup DOMAIN fields
          /\ \A u \in DOMAIN fields : new[u] = fields[u]
          /\ \A u \in DOMAIN old \ DOMAIN fields : new[u] = old[u]
      BY <2>3 DEF WithFields
    <3> QED
      BY <2>2, <2>3, <3>1
  <2>5. \A u \in DOMAIN redis' : <<u, redis'[u]>> \in Rows
    BY <1>1, <1>3, <2>4 DEF InTheTable
  <2> QED
    BY <1>1, <1>2, <1>4, <2>4, <2>5
<1>5. CASE redis' = redis /\ unsaved' = unsaved \cup ({user} \ DOMAIN redis)
  BY <1>1, <1>2, <1>5 DEF InTheTable
<1> QED
  BY <1>3, <1>4, <1>5 DEF SetHField

\* RedisFollowsTable is inductive.
LEMMA RedisKept ==
  ASSUME ShapeInv, FormInv, CacheInv, RedisFollowsTable, [AppNext]_vars
  PROVE  RedisFollowsTable'
<1>1. InTheTable(redis)
  BY DEF RedisFollowsTable, InTheTable
<1>2. \A u \in DOMAIN redis' : <<u, redis'[u]>> \in Rows
  <2>1. CASE UNCHANGED redis
    BY <1>1, <2>1 DEF InTheTable
  <2> QED
    BY <1>1, <2>1, RedisSteps, StartLoads, CacheLoads
<1>3. \A u \in DOMAIN redis' : <<u, redis'[u]>> \in Rows'
  BY <1>2, RowsKept
<1>4. ASSUME up', NEW row \in Rows'
      PROVE  \/ row[1] \in DOMAIN redis' \cup unsaved'
             \/ \E t \in IoThreads : job'[t].at = "cache" /\ job'[t].form = row
  <2>1. CASE Start
    <3>1. Rows' = Rows
      BY <2>1 DEF Start, Rows
    <3>2. unsaved' = {r[1] : r \in Rows} \ DOMAIN redis'
      BY <2>1 DEF Start
    <3> QED
      BY <1>4, <3>1, <3>2
  <2>2. CASE ~Start
    <3>1. up
      BY <1>4, <2>2, Steps
         DEF ClientMoves, Crash, Serves, Callback, Reading, Parsing, Answering
    <3>2. DOMAIN redis \cup unsaved \subseteq DOMAIN redis' \cup unsaved'
      BY <1>1, <2>2, RedisSteps, CacheLoads
    <3>3. CASE row \in Rows
      <4>1. CASE row[1] \in DOMAIN redis \cup unsaved
        BY <3>2, <4>1
      <4>2. ASSUME NEW t \in IoThreads, job[t].at = "cache", job[t].form = row
            PROVE  \/ row[1] \in DOMAIN redis' \cup unsaved'
                   \/ job'[t].at = "cache" /\ job'[t].form = row
        BY <1>1, <1>4, <4>2, Caching, CacheLoads
      <4> QED
        BY <3>1, <3>3, <4>1, <4>2 DEF RedisFollowsTable
    <3>4. CASE row \notin Rows
      <4>1. PICK t \in IoThreads : InsertStep(t) /\ row = job[t].form
        BY <1>4, <3>4, RowsKept
      <4>2. job'[t].at = "cache" /\ job'[t].form = row
        BY <4>1 DEF InsertStep, Same
      <4> QED
        BY <4>2
    <3> QED
      BY <3>3, <3>4
  <2> QED
    BY <2>1, <2>2
<1> QED
  BY <1>3, <1>4 DEF RedisFollowsTable

-----------------------------------------------------------------------------
(* The pages.                                                              *)

\* DownInv is inductive.
LEMMA DownKept ==
  ASSUME ShapeInv, DownInv, [AppNext]_vars
  PROVE  DownInv'
<1>1. CASE ClientMoves
  <2>1. tcp \in [Conns -> States]
    BY DEF ShapeInv, States
  <2> QED
    BY <1>1, <2>1 DEF ClientMoves, Connects, HangsUp, DownInv
<1>2. CASE Start
  BY <1>2 DEF Start, DownInv
<1>3. CASE Crash
  BY <1>3 DEF Crash, DownInv
<1>4. ASSUME NEW t \in IoThreads, Serves(t)
      PROVE  up /\ up' = up
  <2>1. \A j : j = NoJob => j.at = "none"
    BY DEF NoJob
  <2>2. \A j, c : j = [at |-> "parse", conn |-> c] => j.at = "parse"
    OBVIOUS
  <2>3. job[t] # NoJob \/ \E c \in Conns : tcp[c] # "kDisconnected"
    BY <1>4, <2>1, <2>2 DEF Serves, Callback, Reading, Parsing, Answering, IsCall, InCallback
  <2>4. up' = up
    BY <1>4 DEF Serves, Callback, Reading, Parsing, Answering
  <2> QED
    BY <2>3, <2>4 DEF DownInv
<1> QED
  BY <1>1, <1>2, <1>3, <1>4, Steps DEF DownInv

Inside(t) == job[t].at \in InCallback

\* What a step does to the thread u if the thread t takes it
LEMMA OtherThread ==
  ASSUME ShapeInv, NEW t \in IoThreads, Serves(t), NEW u \in IoThreads
  PROVE  \/ ~Inside(u)'
         \/ UNCHANGED appVars /\ job'[u] = job[u]
         \/ u # t /\ job'[u] = job[u] /\ Inside(t)
         \/ u = t /\ Callback(t) /\ CallStep(t)
         \/ u = t /\ Begins(t) /\ UNCHANGED appVars
         \/ UNCHANGED appVars /\ Joined(job[u], job'[u])
<1>1. \A j : j = NoJob => j.at \notin InCallback
  BY DEF NoJob, InCallback
<1>2. \A j, c : j = [at |-> "parse", conn |-> c] => j.at \notin InCallback
  BY DEF InCallback
<1>3. CASE Callback(t) /\ CallStep(t)
  BY <1>3 DEF Callback, OnlyJob, Inside, IsCall
<1>4. CASE UNCHANGED appVars /\ Reading(t)
  BY <1>2, <1>4 DEF Reading, OnlyJob, Inside
<1>5. ASSUME UNCHANGED appVars, Done(t)
      PROVE  ~Inside(u)' \/ job'[u] = job[u]
  BY <1>1, <1>5 DEF Done, OnlyJob, Inside
<1>6. CASE UNCHANGED appVars /\ \E c, k : Parsing(t, c, k)
  <2>1. job' = job \/ Begins(t) \/ Done(t)
    BY <1>6 DEF Parsing
  <2> QED
    BY <1>5, <1>6, <2>1 DEF Begins
<1>7. CASE UNCHANGED appVars /\ \E c, j, k : Answering(t, c, j, k)
  BY <1>5, <1>7 DEF Answering
<1> QED
  BY <1>3, <1>4, <1>6, <1>7 DEF Serves

\* A request is alone only while no other thread is in the callback.
AloneInv ==
  \A t \in IoThreads, u \in IoThreads :
    t # u /\ Inside(t) /\ Inside(u) => job[t].alone = FALSE

\* AloneInv is inductive.
LEMMA AloneKept ==
  ASSUME ShapeInv, AloneInv, [AppNext]_vars
  PROVE  AloneInv'
<1>1. CASE ClientMoves \/ Start
  BY <1>1 DEF ClientMoves, Start, AloneInv, Inside
<1>2. CASE Crash
  BY <1>2 DEF Crash, AloneInv, Inside, NoJob, InCallback
<1>3. ASSUME NEW w \in IoThreads, Serves(w)
      PROVE  AloneInv'
  <2> SUFFICES ASSUME NEW t \in IoThreads, NEW u \in IoThreads, t # u, Inside(t)', Inside(u)'
               PROVE  job'[t].alone = FALSE
    BY DEF AloneInv
  <2>1. CASE Begins(w)
    <3>1. \A v \in IoThreads \ {w} : Inside(v)' => v \in Others(w)
      <4> SUFFICES ASSUME NEW v \in IoThreads \ {w}, Inside(v)', v \notin Others(w)
                   PROVE  FALSE
        OBVIOUS
      <4>1. job'[v] = job[v] /\ job[v].at \in {"none", "parse"}
        BY <2>1 DEF Begins, Others
      <4> QED
        BY <4>1 DEF Inside, InCallback
    <3>2. CASE t = w
      <4>1. Others(w) # {}
        BY <3>1, <3>2
      <4>2. job'[w].alone = (Others(w) = {})
        BY <2>1 DEF Begins
      <4>3. (Others(w) = {}) = FALSE
        BY <4>1
      <4> QED
        BY <3>2, <4>2, <4>3
    <3>3. CASE t # w
      BY <2>1, <3>1, <3>3 DEF Begins, Joined
    <3> QED
      BY <3>2, <3>3
  <2>2. CASE ~Begins(w)
    <3>1. ASSUME NEW v \in IoThreads, Inside(v)'
          PROVE  Inside(v) /\ (job'[v].alone = job[v].alone \/ job'[v].alone = FALSE)
      <4>1. CASE job'[v] = job[v]
        BY <3>1, <4>1 DEF Inside
      <4>2. CASE Callback(w) /\ v = w
        BY <4>2 DEF Callback, IsCall, Inside
      <4>3. CASE Joined(job[v], job'[v])
        BY <3>1, <4>3 DEF Joined, Inside
      <4> QED
        BY <1>3, <2>2, <3>1, <4>1, <4>2, <4>3, OtherThread
    <3> QED
      BY <3>1 DEF AloneInv
  <2> QED
    BY <2>1, <2>2
<1> QED
  BY <1>1, <1>2, <1>3, Steps

\* Nobody else writes realFile_ while a request is alone.
LEMMA AloneReads ==
  ASSUME AloneInv, NEW t \in IoThreads, Inside(t), job[t].alone # FALSE
  PROVE  ~Writing(t)
<1> SUFFICES ASSUME NEW u \in Others(t), job[u].at = "set"
             PROVE  FALSE
  BY DEF Writing
<1>1. u \in IoThreads /\ u # t /\ Inside(u)
  BY DEF Others, Inside, InCallback
<1> QED
  BY <1>1 DEF AloneInv

\* The page a request is to get is one of its path's, and nobody is welcomed
\* who is not in the table.
Chosen(j) ==
  /\ j.at # "respond" => j.body = ""
  /\ j.at \in {"register", "insert", "cache"} => j.request.path = "/register"
  /\ j.at \in {"set", "html", "read", "respond"} /\ j.failed # TRUE =>
       /\ Served(j.page) \in PagesFor(j.request.path)
       /\ j.page = "/welcome.html" /\ j.request.path # "/welcome" => j.form \in Rows

\* If no other thread interferes, it is the page realFile_ and fileStat_ are about.
Found(j) ==
  j.alone # FALSE /\ j.failed # TRUE =>
    /\ j.at \in {"html", "read"} => realFile = j.page
    /\ j.at = "read" => realFile \in DOMAIN Files /\ fileStat = Files[realFile]
    /\ j.at = "respond" => j.body = Served(j.page)

PageInv == \A t \in IoThreads : Inside(t) => Chosen(job[t]) /\ Found(job[t])

\* A step of the callback keeps the page of its request one of the path's.
LEMMA ChosenNext ==
  ASSUME ShapeInv, CacheInv, RedisFollowsTable, NEW t \in IoThreads, Chosen(job[t]),
         Callback(t), CallStep(t), Rows \subseteq Rows'
  PROVE  Chosen(job[t])'
<1> DEFINE j == job[t]
           k == job'[t]
<1>1. k.request = j.request
  BY DEF Callback
<1>2. CASE RouteStep(t)
  <2>1. InTable(k.form) => k.form \in Rows
    <3> SUFFICES ASSUME InTable(k.form) PROVE k.form \in Rows
      OBVIOUS
    <3>1. PICK f : f = k.form /\ f = <<f[1], f[2]>> /\ f[1] \in DOMAIN redis /\ redis[f[1]] = f[2]
      BY DEF InTable, IsPair
    <3>2. <<f[1], redis[f[1]]>> \in Rows
      BY <3>1 DEF RedisFollowsTable
    <3> QED
      BY <3>1, <3>2
  <2> QED
    BY <1>1, <1>2, <2>1 DEF RouteStep, Chosen
<1>3. CASE FormStep(t)
  BY <1>1, <1>3 DEF FormStep, Chosen
<1>4. CASE TakenStep(t)
  <2>1. Served("/registerFailed.html") \in PagesFor("/register")
    BY Pages
  <2> QED
    BY <1>1, <1>4, <2>1 DEF TakenStep, Chosen
<1>5. CASE CacheStep(t)
  <2>1. Served("/welcome.html") \in PagesFor("/register")
    BY Pages
  <2>2. j.form \in Rows'
    BY <1>5 DEF CacheStep, CacheInv
  <2> QED
    BY <1>1, <1>5, <2>1, <2>2 DEF CacheStep, Chosen
<1>6. CASE FreeStep(t) \/ InsertStep(t) \/ InsertFails(t)
  BY <1>1, <1>6 DEF FreeStep, InsertStep, InsertFails, Same, Chosen
<1>7. CASE SetStep(t) \/ StatStep(t) \/ ReadStep(t)
  <2>1. /\ j.at \in {"set", "html", "read"} /\ k.at \in {"html", "read", "respond"}
        /\ k.page = j.page /\ k.form = j.form /\ k.failed = j.failed
        /\ k.at # "respond" => k.body = j.body
    BY <1>7 DEF SetStep, StatStep, ReadStep, Same
  <2> QED
    BY <1>1, <2>1 DEF Chosen
<1> QED
  BY <1>2, <1>3, <1>4, <1>5, <1>6, <1>7 DEF CallStep

\* A step of a request that is alone finds realFile_ and fileStat_ as it left them.
LEMMA FoundNext ==
  ASSUME AloneInv, NEW t \in IoThreads, Chosen(job[t]), Found(job[t]), Callback(t), CallStep(t)
  PROVE  Found(job[t])'
<1> DEFINE j == job[t]
           k == job'[t]
<1>1. k.alone = j.alone /\ Inside(t)
  BY DEF Callback, IsCall, Inside
<1> SUFFICES ASSUME k.alone # FALSE, k.failed # TRUE
             PROVE  /\ k.at \in {"html", "read"} => realFile' = k.page
                    /\ k.at = "read" => realFile' \in DOMAIN Files /\ fileStat' = Files[realFile']
                    /\ k.at = "respond" => k.body = Served(k.page)
  BY DEF Found
<1>2. ~Writing(t)
  BY <1>1, AloneReads
<1>3. Seen(t) = {realFile}
  BY <1>2 DEF Seen
<1>4. CASE SetStep(t)
  BY <1>2, <1>4 DEF SetStep, Same
<1>5. CASE StatStep(t)
  <2>1. realFile = j.page /\ j.body = "" /\ k.page = j.page /\ k.body = j.body /\ realFile' = realFile
    BY <1>1, <1>5 DEF StatStep, Same, Found, Chosen
  <2>2. \/ realFile \notin DOMAIN Files /\ k.at = "respond"
        \/ realFile \in DOMAIN Files /\ k.at = "read" /\ fileStat' = Files[realFile]
    BY <1>3, <1>5 DEF StatStep
  <2>3. realFile \notin DOMAIN Files => Served(realFile) = ""
    BY DEF Served
  <2> QED
    BY <2>1, <2>2, <2>3
<1>6. CASE ReadStep(t)
  <2>1. /\ realFile = j.page /\ realFile \in DOMAIN Files /\ fileStat = Files[realFile]
        /\ k.page = j.page /\ k.at = "respond"
    BY <1>1, <1>6 DEF ReadStep, Found
  <2>2. k.body = IF fileStat = "file" /\ realFile \in DOMAIN Files THEN realFile ELSE ""
    BY <1>3, <1>6 DEF ReadStep
  <2> QED
    BY <2>1, <2>2 DEF Served
<1>7. CASE ~SetStep(t) /\ ~StatStep(t) /\ ~ReadStep(t)
  <2>1. k.at \in {"set", "register", "insert", "cache"} \/ k.failed = TRUE
    BY <1>7 DEF CallStep, RouteStep, FormStep, TakenStep, FreeStep, InsertStep, InsertFails, CacheStep
  <2> QED
    BY <2>1
<1> QED
  BY <1>4, <1>5, <1>6, <1>7

\* PageInv is inductive.
LEMMA PageKept ==
  ASSUME ShapeInv, FormInv, DownInv, CacheInv, RedisFollowsTable, AloneInv, PageInv, [AppNext]_vars
  PROVE  PageInv'
<1>1. Rows \subseteq Rows'
  BY RowsKept
<1> SUFFICES ASSUME NEW u \in IoThreads, Inside(u)'
             PROVE  Chosen(job[u])' /\ Found(job[u])'
  BY DEF PageInv
<1>2. ASSUME job'[u] = job[u]
      PROVE  Chosen(job[u])' /\ Inside(u) /\ Chosen(job[u]) /\ Found(job[u])
  <2>1. Inside(u) /\ Chosen(job[u]) /\ Found(job[u])
    BY <1>2 DEF Inside, PageInv
  <2> QED
    BY <1>1, <1>2, <2>1 DEF Chosen
<1>3. ASSUME job'[u] = job[u], UNCHANGED <<realFile, fileStat>>
      PROVE  Found(job[u])'
  BY <1>2, <1>3 DEF Found
<1>4. CASE ClientMoves
  BY <1>2, <1>3, <1>4 DEF ClientMoves, appVars
<1>5. CASE Start
  <2>1. job[u] = NoJob /\ job'[u] = job[u]
    BY <1>5 DEF Start, DownInv
  <2> QED
    BY <2>1 DEF Inside, NoJob, InCallback
<1>6. CASE Crash
  BY <1>6 DEF Crash, Inside, NoJob, InCallback
<1>7. ASSUME NEW t \in IoThreads, Serves(t)
      PROVE  Chosen(job[u])' /\ Found(job[u])'
  <2>1. CASE UNCHANGED appVars /\ job'[u] = job[u]
    BY <1>2, <1>3, <2>1 DEF appVars
  <2>2. CASE u # t /\ job'[u] = job[u] /\ Inside(t)
    <3>1. Chosen(job[u])' /\ Inside(u)
      BY <1>2, <2>2
    <3>2. job'[u].alone = FALSE
      BY <2>2, <3>1 DEF AloneInv
    <3> QED
      BY <3>1, <3>2 DEF Found
  <2>3. CASE u = t /\ Callback(t) /\ CallStep(t)
    <3>1. Inside(t)
      BY <2>3 DEF Callback, IsCall, Inside
    <3>2. Chosen(job[t]) /\ Found(job[t])
      BY <3>1 DEF PageInv
    <3>3. Chosen(job[t])'
      BY <1>1, <2>3, <3>2, ChosenNext
    <3>4. Found(job[t])'
      BY <2>3, <3>2, FoundNext
    <3> QED
      BY <2>3, <3>3, <3>4
  <2>4. CASE u = t /\ Begins(t)
    BY <2>4 DEF Begins, Chosen, Found
  <2>5. CASE UNCHANGED appVars /\ Joined(job[u], job'[u])
    <3>1. Inside(u)
      BY <2>5 DEF Joined, Inside
    <3>2. Chosen(job[u])
      BY <3>1 DEF PageInv
    <3>3. Chosen(job[u])'
      BY <1>1, <2>5, <3>2 DEF Joined, Chosen
    <3> QED
      BY <2>5, <3>3 DEF Joined, Found
  <2> QED
    BY <1>7, <2>1, <2>2, <2>3, <2>4, <2>5, OtherThread
<1> QED
  BY <1>4, <1>5, <1>6, <1>7, Steps

\* What the two properties say of one answer
Own(r) == r.status # "400" /\ r.alone /\ ~r.failed => r.body \in PagesFor(r.path)

Earned(r) ==
  r.alone /\ ~r.failed /\ r.body = "/welcome.html" /\ r.path # "/welcome" => r.form \in Rows

AnswerInv == \A c \in Conns : \A i \in DOMAIN written[c] : Own(written[c][i]) /\ Earned(written[c][i])

\* AnswerInv is inductive.
LEMMA AnswersKept ==
  ASSUME ShapeInv, FormInv, PageInv, AnswerInv, [AppNext]_vars
  PROVE  AnswerInv'
<1>1. Rows \subseteq Rows'
  BY RowsKept
<1>2. \A r : Earned(r) => (r.alone /\ ~r.failed /\ r.body = "/welcome.html" /\ r.path # "/welcome"
                             => r.form \in Rows')
  BY <1>1 DEF Earned
<1>3. ASSUME NEW d \in Conns, written'[d] = written[d]
      PROVE  \A i \in DOMAIN written'[d] : Own(written'[d][i]) /\ Earned(written[d][i])'
  BY <1>2, <1>3 DEF AnswerInv, Own, Earned
<1>4. ASSUME NEW c \in Conns, NEW r, Own(r), Earned(r), written' = Send(c, r)
      PROVE  AnswerInv'
  <2>1. /\ \A d \in Conns \ {c} : written'[d] = written[d]
        /\ written'[c] = IF tcp[c] = "kConnected" THEN Append(written[c], r) ELSE written[c]
    BY <1>4, SendEffect
  <2>2. \A i \in DOMAIN written'[c] : Own(written'[c][i]) /\ Earned(written[c][i])'
    <3>1. CASE tcp[c] # "kConnected"
      BY <1>3, <2>1, <3>1
    <3>2. CASE tcp[c] = "kConnected"
      <4>1. PICK w : w = written[c] /\ IsSeq(w)
        BY DEF ShapeInv
      <4>2. PICK v : v = written'[c] /\ v = Append(w, r)
        BY <2>1, <3>2, <4>1
      <4>3. /\ DOMAIN w = 1..Len(w) /\ Len(w) \in Nat /\ DOMAIN v = 1..(Len(w) + 1)
            /\ v[Len(w) + 1] = r /\ \A i \in 1..Len(w) : v[i] = w[i]
        BY <4>1, <4>2, AppendAny
      <4>4. \A i \in DOMAIN v : (i \in DOMAIN w /\ v[i] = w[i]) \/ v[i] = r
        <5>1. \A i \in DOMAIN v : i \in 1..Len(w) \/ i = Len(w) + 1
          BY <4>3
        <5> QED
          BY <4>3, <5>1
      <4>5. \A i \in DOMAIN v : Own(v[i]) /\ Earned(v[i])
        BY <1>4, <4>1, <4>4 DEF AnswerInv
      <4> QED
        BY <1>2, <4>2, <4>5 DEF Earned
    <3> QED
      BY <3>1, <3>2
  <2> QED
    BY <1>3, <2>1, <2>2 DEF AnswerInv, Own
<1>5. CASE UNCHANGED written
  BY <1>3, <1>5 DEF AnswerInv, Own
<1>6. ASSUME NEW c \in Conns, written' = [written EXCEPT ![c] = <<>>]
      PROVE  AnswerInv'
  <2>1. written = [d \in Conns |-> written[d]]
    BY DEF ShapeInv
  <2>2. written'[c] = <<>> /\ \A d \in Conns \ {c} : written'[d] = written[d]
    BY <1>6, <2>1
  <2>3. DOMAIN <<>> = {}
    OBVIOUS
  <2> QED
    BY <1>3, <2>2, <2>3 DEF AnswerInv, Own
<1>7. ASSUME NEW c \in Conns, Refuse(c)
      PROVE  AnswerInv'
  <2>1. PICK r : r = BadRequest
    OBVIOUS
  <2>2. r.status = "400" /\ r.body = ""
    BY <2>1 DEF BadRequest
  <2>3. Own(r) /\ Earned(r)
    BY <2>2 DEF Own, Earned
  <2> QED
    BY <1>4, <1>7, <2>1, <2>3 DEF Refuse
<1>8. ASSUME NEW t \in IoThreads, NEW c, NEW j, NEW k, Answering(t, c, j, k)
      PROVE  AnswerInv'
  <2>1. PICK r : r = Response(j)
    OBVIOUS
  <2>2. /\ r.path = j.request.path /\ r.body = j.body /\ r.form = j.form
        /\ r.alone = j.alone /\ r.failed = j.failed
    BY <2>1 DEF Response
  <2>3. Chosen(j) /\ Found(j) /\ j.at = "respond"
    BY <1>8 DEF Answering, PageInv, Inside, InCallback
  <2>4. ASSUME r.alone, ~r.failed
        PROVE  /\ r.body = Served(j.page) /\ r.body \in PagesFor(r.path)
               /\ j.page = "/welcome.html" /\ r.path # "/welcome" => r.form \in Rows
    <3>1. j.alone # FALSE /\ j.failed # TRUE
      BY <2>2, <2>4
    <3> QED
      BY <2>2, <2>3, <3>1 DEF Chosen, Found
  <2>5. \A page : Served(page) = "/welcome.html" => page = "/welcome.html"
    BY DEF Served
  <2>6. Own(r) /\ Earned(r)
    BY <2>4, <2>5 DEF Own, Earned
  <2> QED
    BY <1>4, <1>8, <2>1, <2>6 DEF Answering
<1>9. Start \/ Crash => UNCHANGED written
  BY DEF Start, connVars, Crash
<1> QED
  BY <1>5, <1>6, <1>7, <1>8, <1>9, Steps
     DEF ClientMoves, Connects, HangsUp, Serves, Callback, Reading, Parsing

-----------------------------------------------------------------------------
(* The theorems.                                                           *)

AppInv ==
  /\ ShapeInv /\ FormInv /\ DownInv
  /\ ClosesWithItsAnswer /\ MethodIsClear
  /\ CacheInv /\ RedisFollowsTable
  /\ AloneInv /\ PageInv /\ AnswerInv

\* The invariant holds before the first start.
LEMMA AppInitially ==
  ASSUME AppInit
  PROVE  AppInv
<1>1. /\ up = FALSE /\ tcp = [c \in Conns |-> "kDisconnected"] /\ written = [c \in Conns |-> <<>>]
      /\ context = [c \in Conns |-> NewContext] /\ job = [t \in IoThreads |-> NoJob] /\ redis = <<>>
  BY DEF AppInit, HttpInit
<1>2. NoJob.at = "none" /\ "none" \notin InCallback
  BY DEF NoJob, InCallback
<1>3. DOMAIN <<>> = {}
  OBVIOUS
<1>4. DownInv
  BY <1>1 DEF DownInv
<1>5. ClosesWithItsAnswer /\ AnswerInv
  BY <1>1, <1>3 DEF ClosesWithItsAnswer, AnswerInv
<1>6. MethodIsClear
  BY <1>1 DEF MethodIsClear
<1>7. CacheInv /\ AloneInv /\ PageInv
  BY <1>1, <1>2 DEF CacheInv, AloneInv, PageInv, Inside
<1>8. RedisFollowsTable
  BY <1>1, <1>3 DEF RedisFollowsTable
<1> QED
  BY <1>4, <1>5, <1>6, <1>7, <1>8, ShapeInit DEF AppInv

\* The inductive invariant: the jobs of the threads, the context and the answers
\* of the connections, the table and Redis fit together in every state.
THEOREM Inductive == AppSpec => []AppInv
<1>1. AppInit => AppInv
  BY AppInitially
<1>2. AppInv /\ [AppNext]_vars => AppInv'
  BY ShapeKept, DownKept, ClosingKept, MethodKept, CacheKept, RedisKept, AloneKept, PageKept,
     AnswersKept DEF AppInv
<1> QED
  BY <1>1, <1>2, PTL DEF AppSpec

\* onMessage() and onRequest() of HttpServer.cc end a connection with the answer
\* that announces it, with no other, and send nothing behind it, whatever the
\* client pipelines and however the network cuts it.
THEOREM AlwaysClosesWithItsAnswer == AppSpec => []ClosesWithItsAnswer
<1>1. AppInv => ClosesWithItsAnswer
  BY DEF AppInv
<1> QED
  BY <1>1, Inductive, PTL

\* The assert of setMethod() holds on every open connection: reset() has cleared
\* the method of the last request before the next line is parsed.
THEOREM MethodAlwaysClear == AppSpec => []MethodIsClear
<1>1. AppInv => MethodIsClear
  BY DEF AppInv
<1> QED
  BY <1>1, Inductive, PTL

\* Redis never holds what the table does not, and lacks a user of the table only
\* between the INSERT and the setHField() of a registration or after a failed
\* write, over any number of racing registrations and crashes.
THEOREM RedisAlwaysFollowsTable == AppSpec => []RedisFollowsTable
<1>1. AppInv => RedisFollowsTable
  BY DEF AppInv
<1> QED
  BY <1>1, Inductive, PTL

\* A request no other thread's request overlapped gets a page of its own path,
\* though every thread serves through the one realFile_ and fileStat_.
THEOREM AlwaysOwnPageWhenAlone == AppSpec => []OwnPageWhenAlone
<1>1. AppInv => OwnPageWhenAlone
  BY DEF AppInv, AnswerInv, Own, OwnPageWhenAlone
<1> QED
  BY <1>1, Inductive, PTL

\* Who gets the page of /welcome after /login or /register is in the table with
\* that password.
THEOREM WelcomeAlwaysEarned == AppSpec => []WelcomeIsEarned
<1>1. AppInv => WelcomeIsEarned
  BY DEF AppInv, AnswerInv, Earned, WelcomeIsEarned
<1> QED
  BY <1>1, Inductive, PTL
=============================================================================
