---------------------------- MODULE UserverParse ----------------------------
(***************************************************************************)
(* parse_bytes of the userver, over tokens: a method, a slash, a name, a   *)
(* space, a version, the name of a header, a colon, a value, the end of a  *)
(* line, a unit of a body.  A token is what the states of the parser take  *)
(* in one go; a read() may end between any two of them.                    *)
(***************************************************************************)
EXTENDS UserverState

Tok(v) == [v |-> v, n |-> 0]

Number(n) == [v |-> "number", n |-> n]

Body == Tok("body")

\* A line that is empty may come before the request.
ParseMethod(q, t) ==
  IF t.v = "crlf" THEN q
  ELSE [q EXCEPT !.method = IF t.v \in {"GET", "HEAD", "POST"} THEN t.v ELSE "NOT_IMPL",
                 !.st = "URI", !.uri = << >>]

\* A request without a version is all there is.
ParseVersion(q, t) ==
  CASE t.v = "HTTP/1.1" -> [q EXCEPT !.st = "SKIP", !.close = FALSE]
    [] t.v = "HTTP/1.0" -> [q EXCEPT !.st = "SKIP", !.close = TRUE]
    [] t.v = "crlf" /\ q.method = "GET" -> [q EXCEPT !.st = "DONE", !.close = TRUE]
    [] OTHER -> [q EXCEPT !.st = "FAILED"]

\* A slash is skipped where the state is entered, be it for the first time or with what
\* a further read() brought.
ParseUri(q, t, entered) ==
  CASE t.v = "crlf" -> ParseVersion(q, t)
    [] t.v = "sp" -> [q EXCEPT !.st = "VERSION"]
    [] t.v = "/" /\ entered -> q
    [] OTHER -> [q EXCEPT !.uri = Append(@, t.v)]

ParseHeaderName(q, t) ==
  IF t.v = "crlf" THEN [q EXCEPT !.st = "DONE"] ELSE [q EXCEPT !.st = "COLON", !.hdr = t.v]

Valued == {"Content-Length", "If-Modified-Since"}

\* The length of the name is cleared before it is tested: a line that ends after a name
\* ends the header.
ParseColon(q, t) ==
  CASE t.v = "crlf" -> [q EXCEPT !.st = "DONE"]
    [] t.v = ":" /\ q.hdr \in Valued -> [q EXCEPT !.st = q.hdr]
    [] OTHER -> [q EXCEPT !.st = "SKIP"]

ParseContentLength(q, t) ==
  IF t.v = "number" THEN [q EXCEPT !.clen = t.n, !.st = "SKIP"] ELSE [q EXCEPT !.st = "FAILED"]

ParseIfModifiedSince(q, t) == [q EXCEPT !.ims = t.v, !.st = "SKIP"]

ParseSkip(q, t) == IF t.v = "crlf" THEN [q EXCEPT !.st = "NAME"] ELSE q

ParseToken(q, t, entered) ==
  CASE q.st = "METHOD" -> ParseMethod(q, t)
    [] q.st = "URI" -> ParseUri(q, t, entered)
    [] q.st = "VERSION" -> ParseVersion(q, t)
    [] q.st = "SKIP" -> ParseSkip(q, t)
    [] q.st = "NAME" -> ParseHeaderName(q, t)
    [] q.st = "COLON" -> ParseColon(q, t)
    [] q.st = "Content-Length" -> ParseContentLength(q, t)
    [] q.st = "If-Modified-Since" -> ParseIfModifiedSince(q, t)

PathOf(uri) == LET mark == SelectInSeq(uri, LAMBDA v : v = "?") IN
               IF mark = 0 THEN uri ELSE SubSeq(uri, 1, mark - 1)

\* A path with ".php" in it is for the application "php"; one with a query, and a POST,
\* are for the application of that name; a dynamic request for none is REQ_INVALID.
AnalyzeReq(q) ==
  LET path == PathOf(q.uri)
      php == ".php" \in Range(path)
      app == IF php THEN <<"php">> ELSE path
      dynamic == php \/ q.method = "POST" \/ "?" \in Range(q.uri)
      type == IF ~php /\ q.clen > 0 /\ q.method # "POST" THEN "INVALID"
              ELSE IF ~dynamic THEN "STATIC"
              ELSE IF app \in DOMAIN AppOf THEN "FASTCGI" ELSE "INVALID"
  IN [q EXCEPT !.uri = path, !.type = type,
               !.app = IF type = "FASTCGI" THEN AppOf[app] ELSE ""]

\* ts is what a read() added; what follows the request stays in the buffer.
ParseBytes(q, ts) ==
  LET step(a, t) ==
        IF a.q.st \in {"DONE", "FAILED"} THEN [a EXCEPT !.q.buf = Append(@, t)]
        ELSE [q |-> ParseToken(a.q, t, a.entered), entered |-> a.q.st = "METHOD"]
      p == FoldLeft(step, [q |-> q, entered |-> TRUE], ts).q
  IN IF p.st = "DONE" THEN AnalyzeReq(p) ELSE p
=============================================================================
