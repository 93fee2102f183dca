----------------------------- MODULE UserverConn ----------------------------
(***************************************************************************)
(* A connection of the userver: how it is accepted, what a request sets    *)
(* up, how the reply is written and what happens at its end, and how the   *)
(* connection is closed.                                                   *)
(***************************************************************************)
EXTENDS UserverFcgi

\* do_close and post_sock_close.  The element of the cache that a reply uses has no
\* descriptor, and is not given back here; nor is the server of an application.
DoClose(w, c) ==
  LET v == InfoResetRepBuf(InterestSetChange(w, c, {}, {"r", "w"}, "done"), c)
      n == [v EXCEPT !.info[c] = NoInfo, !.num_idle = @ + 1, !.tcp[w.info[c].j].over = TRUE]
  IN IF ShouldEnableNewConns(n) THEN SocketNewConnOn(n) ELSE n

LowestFree(w) ==
  CHOOSE c \in ClientSd : /\ ~w.info[c].live
                          /\ \A d \in ClientSd : ~w.info[d].live => c <= d

\* The counts of the last reply stay in the struct info; they are read only once done_write
\* is set, and NoInfo leaves them out.
SocketSetup(w, c, j) ==
  LET v == [w EXCEPT !.num_idle = @ - 1]
      n == IF v.num_idle = 0 /\ v.on THEN SocketNewConnOff(v) ELSE v
  IN InterestSetChange([n EXCEPT !.info[c] = [NoInfo EXCEPT !.live = TRUE, !.j = j,
                                                           !.st = "READING_REQUEST"]],
                       c, {"r"}, {}, "init")

SocketNewConn(w) == SocketSetup([w EXCEPT !.backlog = Tail(@)], LowestFree(w), Head(w.backlog))

RECURSIVE RepeatAccept(_)
RepeatAccept(w) ==
  IF w.num_idle > 0 /\ w.on /\ w.backlog # << >> /\ w.exit = "" THEN RepeatAccept(SocketNewConn(w)) ELSE w
-----------------------------------------------------------------------------
(* Replies. *)
\* A page in the place of a reply.  The element of the cache that the reply would have
\* used is forgotten, and stays in use: w.leaked counts this.
ReplyStatusFill(w, c, status) ==
  LET i == w.info[c].rep.cached
      v == InfoResetRepBuf(InfoCloseRepFd(w, c), c)
      n == [v EXCEPT !.info[c].rep.cached = NONE, !.info[c].rep.out = <<Page(status)>>,
                     !.info[c].rep.end = 1, !.info[c].rep.total = 1, !.info[c].rep.nwritten = 0,
                     !.info[c].req.method = "RETURN_ERROR",
                     !.leaked = IF i = NONE THEN @ ELSE [@ EXCEPT ![i] = @ + 1]]
  IN Watch(n, c, {"w"}, {})

FcgiProcessRequest(w, c) ==
  IF Len(w.q[w.info[c].req.app]) < w.opt.queue THEN ProcessQueued(w, c)
  ELSE SetState(ReplyStatusFill(Watch(w, c, {}, {"r", "w"}), c, "503"), c, "WRITING_REPLY")

BuildHeader(w, c, fd, size) ==
  [w EXCEPT !.info[c].rep.fd = fd, !.info[c].rep.off = 0, !.info[c].rep.end = 1,
            !.info[c].rep.out = <<Header(w.info[c].req.uri)>>, !.info[c].rep.total = 1 + size]

\* The status of a page that takes the place of the file, or "200".
StatusOf(uri, since) ==
  IF uri \notin DOMAIN Site THEN "404"
  ELSE IF Site[uri].kind = "dir" THEN "403"
  ELSE IF ModifiedSince(since) THEN "200" ELSE "304"

\* A file that is there and cannot be opened ends the server.
SetupStaticNotCached(w, c) ==
  LET uri == w.info[c].req.uri
      status == StatusOf(uri, w.info[c].req.ims)
  IN IF uri \in DOMAIN Site /\ Site[uri].kind = "denied" THEN Fail(w, "open")
     ELSE IF status = "200" THEN BuildHeader(w, c, FILE, Site[uri].size)
     ELSE ReplyStatusFill([w EXCEPT !.info[c].rep.fd = IF status = "404" THEN NONE ELSE FILE], c, status)

\* The header and the mapped file are written from the cache.
SetupStaticCached(w, c, i) ==
  LET el == w.cache.el[i] IN
  IF ModifiedSince(w.info[c].req.ims)
  THEN [w EXCEPT !.info[c].rep.cached = i, !.info[c].rep.total = 1 + el.size,
                 !.info[c].rep.out = <<Header(el.uri)>> \o FileUnits(el.uri, 0, el.size)]
  ELSE ReplyStatusFill(CheckIfModifiedSince([w EXCEPT !.info[c].rep.cached = i], w.info[c].req.ims), c, "304")

SetupFrom(w, c, held) ==
  IF w.exit # "" THEN w
  ELSE IF held = {} THEN SetupStaticNotCached(w, c)
  ELSE SetupStaticCached(w, c, CHOOSE i \in held : TRUE)

WithCache(w, c) == SetupFrom(w, c, Holding(w, w.info[c].req.uri))

SetupStatic(w, c) == WithCache(IF w.opt.caching THEN CacheAdd(w, w.info[c].req.uri) ELSE w, c)

\* total_len is the length of the content: neither the header of the application nor the
\* one put before it is part of it.
SetupFastcgi(w, c) ==
  LET data == w.server[w.info[c].rep.fd].data IN
  [w EXCEPT !.info[c].rep.out = <<Header(w.info[c].req.uri)>> \o data,
            !.info[c].rep.end = 1 + Len(data), !.info[c].rep.total = Len(data) - 1,
            !.info[c].rep.done = TRUE]

\* For HEAD nothing is left to send once the header is written.
OnlyHeader(w, c) ==
  IF w.info[c].req.method = "HEAD" THEN [InfoCloseRepFd(w, c) EXCEPT !.info[c].rep.total = 0] ELSE w

SetupGetHeadPost(w, c) ==
  LET v == [w EXCEPT !.info[c].rep.nwritten = 0, !.info[c].rep.off = 0] IN
  OnlyHeader(IF w.info[c].req.type = "STATIC" THEN SetupStatic(v, c) ELSE SetupFastcgi(v, c), c)

DefaultName(uri) == IF uri = << >> \/ Last(uri) = "/" THEN Append(uri, "index.html") ELSE uri

SetupHttp(w, c) ==
  LET v == SetState([w EXCEPT !.info[c].req.uri = DefaultName(@)], c, "WRITING_REPLY") IN
  IF w.info[c].req.method = "NOT_IMPL"
  THEN [ReplyStatusFill(v, c, "501") EXCEPT !.info[c].req.close = TRUE]
  ELSE SetupGetHeadPost(v, c)
-----------------------------------------------------------------------------
(* Writing to a client. *)
\* Mutant: the offset in the file is not moved on.
AddToReplyBufferAgain(w, c) ==
  LET rep == w.info[c].rep
      uri == w.info[c].req.uri
      n == Least(REPBUF - rep.end, Site[uri].size - rep.off)
  IN IF rep.fd # FILE \/ w.info[c].req.method = "RETURN_ERROR" \/ rep.end >= REPBUF THEN w
     ELSE [w EXCEPT !.info[c].rep.out = @ \o FileUnits(uri, rep.off, n), !.info[c].rep.end = @ + n]

\* The file is read to the end of what is in the reply buffer; at its end it is closed.
AddToReplyBuffer(w, c) ==
  LET rep == w.info[c].rep
      uri == w.info[c].req.uri
      n == Least(REPBUF - rep.end, Site[uri].size - rep.off)
  IN IF rep.fd # FILE \/ w.info[c].req.method = "RETURN_ERROR" \/ rep.end >= REPBUF THEN w
     ELSE IF n = 0 THEN InfoCloseRepFd(w, c)
     ELSE [w EXCEPT !.info[c].rep.out = @ \o FileUnits(uri, rep.off, n),
                    !.info[c].rep.end = @ + n, !.info[c].rep.off = @ + n]

\* do_write: the buffer is empty once all of it is written.
DoWrite(w, c) ==
  LET out == w.info[c].rep.out
      n == Taken(w, w.info[c].j, out)
  IN [Write(w, w.info[c].j, out) EXCEPT
        !.info[c].rep.out = SubSeq(@, n + 1, Len(@)), !.info[c].rep.nwritten = @ + n,
        !.info[c].rep.end = IF n = Len(out) THEN 0 ELSE @]

Broken(w, c) == w.tcp[w.info[c].j].peer = "reset"

SendReplyFailed(w, c) ==
  DoClose(IF w.info[c].rep.cached = NONE THEN InfoCloseRepFd(w, c)
          ELSE CacheDecRefCount(w, w.info[c].rep.cached), c)

\* A pass of the loop has filled the buffer: w.  It is written, and the loop goes on as long
\* as all of it was taken and there is more; d is the state after the write.
GoesOn(w, d, c) ==
  /\ w.info[c].rep.out # << >> /\ d.info[c].rep.out = << >>
  /\ d.info[c].rep.fd # NONE /\ d.info[c].rep.nwritten < d.info[c].rep.total

RECURSIVE DoWriteNotCached(_, _)
DoWriteNotCached(w, c) ==
  IF Broken(w, c) THEN SendReplyFailed(w, c)
  ELSE LET d == DoWrite(w, c) IN
       IF GoesOn(w, d, c) THEN DoWriteNotCached(AddToReplyBuffer(d, c), c) ELSE d

DoWriteCached(w, c) == IF Broken(w, c) THEN SendReplyFailed(w, c) ELSE DoWrite(w, c)

SendReply(w, c) ==
  IF w.info[c].rep.cached # NONE THEN DoWriteCached(w, c)
  ELSE DoWriteNotCached(AddToReplyBuffer(w, c), c)

\* The reply is complete.
EndReply(w, c) ==
  LET i == w.info[c].rep.cached
      v == InfoResetRepBuf(InfoCloseRepFd(w, c), c)
      r == IF i = NONE THEN v ELSE CacheDecRefCount([v EXCEPT !.info[c].rep.cached = NONE], i)
      n == [r EXCEPT !.info[c].req = [NoReq EXCEPT !.close = w.info[c].req.close]]
  IN IF w.info[c].req.close THEN DoClose(n, c)
     ELSE Watch(SetState(n, c, "READING_NEXT_REQUEST"), c, {"r"}, {"w"})

\* Not for a connection that the write has closed.
PostSocketWritable(w, c) ==
  IF w.info[c].live /\ w.info[c].rep.nwritten >= w.info[c].rep.total THEN EndReply(w, c) ELSE w

SocketWritable(w, c) == PostSocketWritable(SendReply(SetState(w, c, "WRITING_REPLY"), c), c)
-----------------------------------------------------------------------------
(* Reading from a client. *)
Dispatch(w, c) ==
  CASE w.info[c].req.st = "FAILED" -> Fail(w, "malformed request")
    [] w.info[c].req.st = "DONE" /\ w.info[c].req.type = "INVALID" -> Fail(w, "invalid request")
    [] w.info[c].req.st = "DONE" /\ w.info[c].req.type = "STATIC" ->
         SetupHttp(Watch(w, c, {"w"}, {"r"}), c)
    [] w.info[c].req.st = "DONE" /\ w.info[c].req.type = "FASTCGI" -> FcgiProcessRequest(w, c)
    [] OTHER -> w

\* A read() that brings some of the body passes the turn to the server.
MoreBody(w, c) ==
  IF w.info[c].st # "WRITING_STDIN" THEN Fail(w, "post_sock_read")
  ELSE Watch(Watch(w, c, {}, {"r"}), w.info[c].rep.fd, {"w"}, {})

SocketReadable(w, c) ==
  LET j == w.info[c].j
      ts == w.tcp[j].rcv
      v == [w EXCEPT !.tcp[j].rcv = << >>]
  IN IF ts = << >> THEN (IF w.tcp[j].peer = "open" THEN w ELSE DoClose(w, c))
     ELSE IF w.info[c].req.st = "DONE" THEN MoreBody([v EXCEPT !.info[c].req.buf = @ \o ts], c)
     ELSE Dispatch([v EXCEPT !.info[c].req = ParseBytes(@, ts)], c)
-----------------------------------------------------------------------------
(* The connection to an application server. *)
\* The application has read all that is written to its socket: who it works for and how
\* much of the body it has, and with the end of the body its reply is ready to be sent.
Receive(app, r) ==
  CASE r.type = "WRITING_BEGIN_REQUEST" -> [app EXCEPT !.body = 0]
    [] r.type = "WRITING_PARAMS_1" -> [app EXCEPT !.j = r.j, !.n = r.n]
    [] r.type = "STDIN" -> [app EXCEPT !.body = @ + r.k]
    [] r.type = "WRITING_END_STDIN" ->
         [app EXCEPT !.pend = <<Unit("STDOUT", << >>, 0, 0, Content[app.name] + 1)>>
                              \o Reply(app.name, app.j, app.n, app.body)
                              \o <<Unit("END_REQUEST", << >>, 0, 0, 1), Unit("END", << >>, 0, 0, 0)>>]
    [] OTHER -> app

ServerWritable(w, a) ==
  LET c == w.server[a].fd
      v == FcgiAddToReply(w, a, c)
      s == [v EXCEPT !.app[a] = FoldLeft(Receive, @, v.server[a].out), !.server[a].out = << >>]
  IN IF c = NONE THEN Fail(w, "post_socket_writable")
     ELSE IF s.info[c].st = "WAITING_FOR_REPLY" THEN Watch(s, a, {"r"}, {"w"}) ELSE s

\* The machine of post_sock_read, a unit at a time.
TakeUnit(s, u) ==
  CASE s.st = "HEADER" /\ u.what = "STDOUT" -> [s EXCEPT !.st = "STDOUT", !.clen = u.k]
    [] s.st = "HEADER" /\ u.what = "END_REQUEST" -> [s EXCEPT !.st = "END", !.clen = u.k]
    [] s.st = "STDOUT" -> [s EXCEPT !.data = Append(@, u), !.clen = @ - 1,
                                    !.st = IF s.clen = 1 THEN "HEADER" ELSE @]
    [] s.st = "END" -> [s EXCEPT !.st = "ENDED"]

EndRequest(w, a) ==
  LET c == w.server[a].fd
      v == Watch(w, a, {}, {"r"})
  IN IF ~w.info[c].live THEN Fail(w, "end of a request whose client is gone")
     ELSE SetupHttp(InterestSetChange(v, c, {"w"}, {"r"}, IF w.info[c].hup THEN "init" ELSE "change"), c)

\* Mutant: no room for the header of the next record.
ServerReadableLess(w, a) ==
  LET n == Least(w.server[a].clen, Len(w.app[a].out))
      s == FoldLeft(TakeUnit, w.server[a], SubSeq(w.app[a].out, 1, n))
      v == [w EXCEPT !.server[a] = s, !.app[a].out = SubSeq(@, n + 1, Len(@))]
  IN IF s.st = "ENDED" THEN EndRequest([v EXCEPT !.server[a].st = "HEADER"], a) ELSE v

ServerReadable(w, a) ==
  LET n == Least(w.server[a].clen + 1, Len(w.app[a].out))
      s == FoldLeft(TakeUnit, w.server[a], SubSeq(w.app[a].out, 1, n))
      v == [w EXCEPT !.server[a] = s, !.app[a].out = SubSeq(@, n + 1, Len(@))]
  IN IF s.st = "ENDED" THEN EndRequest([v EXCEPT !.server[a].st = "HEADER"], a) ELSE v
=============================================================================
