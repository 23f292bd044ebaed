----------------------------- MODULE MCPrograms -----------------------------
(***************************************************************************)
(* The users of Buffer, one at a time: any caller of the class, the CDN    *)
(* server, and the HTTP server with its application.                       *)
(***************************************************************************)
EXTENDS BufferUser, CDN, Application

VARIABLE program   \* which of them runs, chosen at the start

MCCR == [kind |-> "CR"]
MCLF == [kind |-> "LF"]
MCStrings == {<<0>>, <<1>>, <<1, 0>>, <<0, 1, 1>>}

Request(method, target, version, headers, body) ==
  [line |-> <<Word(method), target, Word(version)>>, headers |-> headers, body |-> body]

Get(path) == Request("GET", Target(path, <<>>), "HTTP/1.1", <<>>, <<>>)

Register(passwd) ==
  Request("POST", Target("/register", <<>>), "HTTP/1.1", <<>>,
          <<UserWord("u"), PasswdWord(passwd)>>)

LoginAt(path, query) == Request("GET", Target(path, query), "HTTP/1.1", <<>>, <<>>)
Login(query) == LoginAt("/login", query)

\* Requests that the network cuts.
Simple ==
  { Get("/"),
    Request("GET", Target("/a.jpg", <<>>), "HTTP/1.0", <<>>, <<>>),
    Request("HEAD", Target("/login", <<>>), "HTTP/1.1", <<>>, <<>>),
    Request("GET", Target("/welcome", <<>>), "HTTP/1.1",
            <<Header("Connection", "close")>>, <<>>),
    Request("GET", Target("/register", <<>>), "HTTP/1.0",
            <<Header("Connection", "close"), Header("Connection", "Keep-Alive")>>, <<>>) }

Bad ==
  { Request("GET", Target("/", <<>>), "HTTP/2.0", <<>>, <<>>),
    Request("BREW", Target("/", <<>>), "HTTP/1.1", <<>>, <<>>),
    [line |-> <<Word("GET"), Target("/", <<>>)>>, headers |-> <<>>, body |-> <<>>] }

\* Pairs of requests of one client, and requests of another whose callbacks
\* meet theirs.
Ours ==
  { <<Register("p1"), Login(<<"u", "p1">>)>>,
    <<Register("p1"), Register("p2")>>,
    <<Login(<<"v", "q">>), Get("/secret.jpg")>>,
    <<Get("/secret.jpg"), Login(<<"v", "p1">>)>> }

Theirs == { Get("/index.html"), Get("/secret.jpg"), Register("p2"), LoginAt("/a/login", <<"u", "p1">>) }

Idle == ClientPlan(<<>>, TRUE, FALSE)
NobodyAsks == [a |-> Idle, b |-> Idle]

MCPlans ==
  {NobodyAsks}
  \cup
  { [a |-> ClientPlan(<<r, s>>, TRUE, TRUE), b |-> Idle] :
      r \in Simple \cup Bad, s \in Simple \cup Bad }
  \cup
  { [a |-> ClientPlan(<<r, Get("/")>>, waits, TRUE), b |-> Idle] :
      r \in {Get("/login.jpg"), Register("p1")}, waits \in BOOLEAN }
  \cup
  { [a |-> ClientPlan(two, TRUE, FALSE), b |-> ClientPlan(<<one>>, TRUE, FALSE)] :
      two \in Ours, one \in Theirs }

MCFiles == [path \in {"/index.html", "/welcome.html", "/register.html",
                      "/registerFailed.html", "/loginFailed.html", "/404.html",
                      "/a.jpg", "/secret.jpg"} |->
              IF path = "/secret.jpg" THEN "refused" ELSE "file"]

MCConns == {"a", "b"}
MCThreads == {"t1", "t2"}
MCThreadOf == [a |-> "t1", b |-> "t2"]
MCJpgs == {"/a.jpg", "/secret.jpg", "/login.jpg"}
MCLogins == {"/login", "/loginFailed.html", "/a/login", "/login.jpg"}
MCInitialUsers == <<<<"v", "q">>>>

allVars == <<program, bufferVars, cdnVars, vars>>

Init ==
  /\ program \in {"buffer", "cdn", "http"}
  /\ BufferInit
  /\ CDNInit
  /\ AppInit
  /\ program = "http" <=> plan # NobodyAsks

Next ==
  \/ program = "buffer" /\ BufferNext /\ UNCHANGED <<program, cdnVars, vars>>
  \/ program = "cdn" /\ CDNNext /\ UNCHANGED <<program, bufferVars, vars>>
  \/ program = "http" /\ AppNext /\ UNCHANGED <<program, bufferVars, cdnVars>>

Spec == Init /\ [][Next]_allVars
=============================================================================
