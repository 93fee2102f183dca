------------------------------ MODULE MCUserver -----------------------------
(***************************************************************************)
(* The userver on a small site, with two applications.                     *)
(***************************************************************************)
EXTENDS UserverServer

File(n) == [kind |-> "file", size |-> n]

Of(kind) == [kind |-> kind, size |-> 0]

MCSite == (<<"index.html">> :> File(1)) @@ (<<"a">> :> File(4)) @@ (<<"b">> :> File(2))
          @@ (<<"d", "/", "a">> :> File(1)) @@ (<<"d">> :> Of("dir")) @@ (<<"secret">> :> Of("denied"))

MCAppOf == (<<"x">> :> "x") @@ (<<"y">> :> "y")

MCContent == ("x" :> 1) @@ ("y" :> 4)

Eol == Tok("crlf")

Path(p) == <<Tok("/")>> \o [i \in DOMAIN p |-> Tok(p[i])]

\* The head of a request with header lines hs, and the line HTTP/1.0 or HTTP/1.1.
Head1(method, p, version, hs) ==
  <<Tok(method)>> \o Path(p) \o <<Tok("sp"), Tok(version), Eol>> \o hs \o <<Eol>>

Get(p) == <<Head1("GET", p, "HTTP/1.1", << >>)>>

Old(p) == <<Head1("GET", p, "HTTP/1.0", << >>)>>

Since(p, t) == <<Head1("GET", p, "HTTP/1.1", <<Tok("If-Modified-Since"), Tok(":"), Tok(t), Eol>>)>>

Query(app) == Get(<<app, "?", "v">>)

OldQuery(app) == Old(<<app, "?", "v">>)

\* A POST of body units, in pieces of the given sizes, the first with the head.
Units(n) == [i \in 1..n |-> Body]

Post(app, first, rest) ==
  LET n == first + FoldLeft(+, 0, rest) IN
  <<Head1("POST", <<app>>, "HTTP/1.1", <<Tok("Content-Length"), Tok(":"), Number(n), Eol>>) \o Units(first)>>
  \o [i \in DOMAIN rest |-> Units(rest[i])]

\* A request sent as two pieces, of which the first has k tokens.
Split(r, k) == <<SubSeq(r[1], 1, k), SubSeq(r[1], k + 1, Len(r[1]))>>

Base == [loop |-> "epoll", caching |-> FALSE, noexit |-> FALSE, maxconns |-> 2, table |-> 2, bytes |-> 5,
         queue |-> 1, bufs |-> 2, servers |-> << >>, requests |-> << >>, hangups |-> 0, slow |-> FALSE]

Loops(s) == {[s EXCEPT !.loop = l] : l \in {"select", "epoll"}}

One(r) == {<<r>>}

\* Files, without the cache: every answer there is, and a limit of one connection.
Files ==
  Loops([Base EXCEPT !.maxconns = 1, !.hangups = 1, !.slow = TRUE, !.requests =
    <<{<<Get(<<"a">>), Old(<< >>)>>, <<Since(<<"b">>, "old"), Since(<<"b">>, "mtime")>>,
       <<Get(<<"d">>), <<Head1("HEAD", <<"b">>, "HTTP/1.1", << >>)>>>>,
       <<<<Head1("PUT", <<"a">>, "HTTP/1.1", << >>)>>>>},
      {<<Get(<<"none">>), <<<<Tok("GET")>> \o Path(<<"a">>) \o <<Eol>>>>>>}>>])

\* The cache: files that take each other's place, one with a time, and what is not cached.
Cached ==
  Loops([Base EXCEPT !.caching = TRUE, !.hangups = 1, !.requests =
    <<{<<Get(<<"a">>), Get(<<"b">>)>>, <<Get(<<"b">>), Get(<<"d", "/", "a">>)>>},
      {<<Since(<<"b">>, "mtime"), Get(<< >>)>>, <<Get(<<"b">>), Get(<<"none">>)>>, <<Since(<<"a">>, "now")>>}>>])

\* More clients than an application has servers and room in its queue.
Crowd ==
  {[Base EXCEPT !.maxconns = 3, !.servers = <<"x">>, !.loop = l, !.hangups = IF l = "epoll" THEN 1 ELSE 0,
                !.requests = <<One(Query("x")), One(OldQuery("x")), One(OldQuery("x"))>>] : l \in {"select", "epoll"}}

\* Fewer buffers than servers.
Short == [Base EXCEPT !.maxconns = 3, !.servers = <<"x", "x", "y">>, !.bufs = 1, !.queue = 2]

Buffers ==
  {[Short EXCEPT !.noexit = TRUE, !.hangups = 1, !.requests = <<One(OldQuery("x")), One(OldQuery("y")), One(Query("x"))>>],
   [Short EXCEPT !.noexit = TRUE, !.requests = <<One(Query("x")), One(OldQuery("x")), One(OldQuery("x"))>>],
   [Short EXCEPT !.requests = <<One(Query("x")), One(Query("y"))>>]}

\* Replies longer than the room in the socket, on a connection that is kept.
Long == Loops([Base EXCEPT !.servers = <<"y">>, !.hangups = 1, !.slow = TRUE,
                           !.requests = <<{<<Query("y"), Get(<<"b">>)>>}, One(Query("y"))>>])

\* Bodies, in one or more pieces.
Posts ==
  Loops([Base EXCEPT !.servers = <<"x">>, !.hangups = 1, !.requests =
    <<{<<Post("x", 1, << >>)>>, <<Post("x", 0, <<1>>)>>, <<Post("x", 0, <<1, 1>>)>>, <<Post("x", 2, << >>)>>},
      {<<Query("x")>>}>>])

\* Requests that are cut, and what ends the server.
Others ==
  Loops([Base EXCEPT !.requests =
    <<{<<Split(Get(<<"d", "/", "a">>), k)>> : k \in 1..8}
      \cup {<<Get(<<"secret">>)>>, <<Query("z")>>, <<<<<<Tok("PUT"), Tok("/"), Eol>>>>>>}>>])

MCScenario == Files \cup Cached \cup Crowd \cup Buffers \cup Long \cup Posts \cup Others
=============================================================================
