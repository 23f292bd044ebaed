---------------------------- MODULE HttpContext -----------------------------
(***************************************************************************)
(* HttpContext.cc and HttpRequest.h: the parser of requests over a         *)
(* connection's input buffer.                                              *)
(*                                                                         *)
(* A byte of the buffer is CR, LF or a whole word: the words of a request  *)
(* line, a header, a part of a body.  Cutting inside a word is the same to *)
(* the parser as cutting before it, for it looks for CR LF first and for   *)
(* spaces, '?' and ':' only inside a whole line.                           *)
(***************************************************************************)
EXTENDS Buffer

Word(text) == [kind |-> "word", text |-> text]
Target(path, query) == [kind |-> "target", path |-> path, query |-> query]
Header(field, value) == [kind |-> "header", field |-> field, value |-> value]

Methods == {"GET", "POST", "HEAD", "PUT", "DELETE"}
Versions == {"HTTP/1.0", "HTTP/1.1"}

-----------------------------------------------------------------------------
(* HttpRequest                                                             *)

NewRequest ==
  [method |-> "kInvalid", version |-> "kUnknown", path |-> "", query |-> <<>>,
   headers |-> <<>>, body |-> <<>>]

\* setMethod(): the method, kInvalid if there is no such.
MethodOf(word) ==
  IF \E m \in Methods : word = Word(m)
  THEN CHOOSE m \in Methods : word = Word(m)
  ELSE "kInvalid"

\* setPath() and setQuery(), the latter only behind a '?'.  A word that is not
\* a target stands for a path nothing is found at.
SetTarget(request, word) ==
  CASE word.kind # "target" -> [request EXCEPT !.path = "other"]
    [] word.kind = "target" /\ word.query = <<>> -> [request EXCEPT !.path = word.path]
    [] OTHER -> [request EXCEPT !.path = word.path, !.query = word.query]

\* A map with these fields set.
WithFields(map, fields) ==
  [f \in DOMAIN map \cup DOMAIN fields |->
     IF f \in DOMAIN fields THEN fields[f] ELSE map[f]]

\* addHeader(): a later header of the same name replaces the earlier one.
AddHeader(request, word) ==
  [request EXCEPT !.headers = WithFields(@, [f \in {word.field} |-> word.value])]

GetHeader(request, field) ==
  IF field \in DOMAIN request.headers THEN request.headers[field] ELSE ""

-----------------------------------------------------------------------------
(* HttpContext                                                             *)

NewContext == [state |-> "kExpectRequestLine", request |-> NewRequest]

GotAll(context) == context.state = "kGotAll"

\* A bug: reset() forgets the request's contents.
ResetStateOnly(context) == [context EXCEPT !.state = "kExpectRequestLine"]

Reset(context) ==
  [context EXCEPT !.state = "kExpectRequestLine", !.request = NewRequest]

\* processRequestLine(): what it finds is stored at once, so that a line
\* refused for its version has set the method and the path.
ProcessRequestLine(request, line) ==
  LET method == IF line = <<>> THEN "kInvalid" ELSE MethodOf(line[1])
      withMethod == [request EXCEPT !.method = method]
      withTarget == SetTarget(withMethod, line[2])
      known == Len(line) = 3 /\ \E v \in Versions : line[3] = Word(v)
  IN  CASE Len(line) < 2 -> [ok |-> FALSE, request |-> request]
        [] Len(line) >= 2 /\ (method = "kInvalid" \/ Len(line) = 2) ->
             [ok |-> FALSE, request |-> withMethod]
        [] Len(line) > 2 /\ method # "kInvalid" /\ ~known ->
             [ok |-> FALSE, request |-> withTarget]
        [] OTHER ->
             [ok |-> TRUE, request |-> [withTarget EXCEPT !.version = line[3].text]]

\* The bytes before the CR LF at index crlf.
LineOf(b, crlf) == SubSeq(Content(b), 1, crlf - b.reader)

\* The iterations of parseRequest()'s loop, by the state they start in.
\* p is the loop's state: the context, the buffer, ok and hasMore.

\* A bug: the lines behind the request line wait for the next message.
OnRequestLineAlone(p) ==
  LET crlf == FindCRLF(p.buf)
      result == ProcessRequestLine(p.context.request, LineOf(p.buf, crlf))
  IN  CASE crlf = NotFound -> [p EXCEPT !.hasMore = FALSE]
        [] crlf # NotFound /\ ~result.ok ->
             [p EXCEPT !.context.request = result.request,
                       !.ok = FALSE, !.hasMore = FALSE]
        [] OTHER ->
             [p EXCEPT !.context = [state |-> "kExpectHeaders",
                                    request |-> result.request],
                       !.buf = RetrieveUntil(@, crlf + 2),
                       !.hasMore = FALSE]

OnRequestLine(p) ==
  LET crlf == FindCRLF(p.buf)
      result == ProcessRequestLine(p.context.request, LineOf(p.buf, crlf))
  IN  CASE crlf = NotFound -> [p EXCEPT !.hasMore = FALSE]
        [] crlf # NotFound /\ ~result.ok ->
             [p EXCEPT !.context.request = result.request,
                       !.ok = FALSE, !.hasMore = FALSE]
        [] OTHER ->
             [p EXCEPT !.context = [state |-> "kExpectHeaders",
                                    request |-> result.request],
                       !.buf = RetrieveUntil(@, crlf + 2)]

\* A line without a colon ends the headers, whether it is empty or not.
OnHeader(p) ==
  LET crlf == FindCRLF(p.buf)
      line == LineOf(p.buf, crlf)
  IN  CASE crlf = NotFound -> [p EXCEPT !.hasMore = FALSE]
        [] crlf # NotFound /\ \E i \in DOMAIN line : line[i].kind = "header" ->
             [p EXCEPT !.context.request =
                          AddHeader(@, CHOOSE w \in ToSet(line) : w.kind = "header"),
                       !.buf = RetrieveUntil(@, crlf + 2)]
        [] OTHER ->
             [p EXCEPT !.context.state = "kExpectBody",
                       !.buf = RetrieveUntil(@, crlf + 2)]

\* The body is whatever has arrived.
OnBody(p) ==
  [p EXCEPT !.context = [state |-> "kGotAll",
                         request |-> [@.request EXCEPT !.body = Content(p.buf)]],
            !.buf = RetrieveAll(@),
            !.hasMore = FALSE]

\* One iteration of parseRequest().
Iteration(context, b) ==
  LET p == [context |-> context, buf |-> b, ok |-> TRUE, hasMore |-> TRUE]
  IN  CASE context.state = "kExpectRequestLine" -> OnRequestLine(p)
        [] context.state = "kExpectHeaders" -> OnHeader(p)
        [] context.state = "kExpectBody" -> OnBody(p)
        [] OTHER -> p
=============================================================================
