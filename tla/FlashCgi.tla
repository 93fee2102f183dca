------------------------------ MODULE FlashCgi ------------------------------
(***************************************************************************)
(* cgi.c and the CGI processes it keeps (gscgi.c, dummycgi.c).  A process  *)
(* is forked for a program, names a socket, and then serves one request    *)
(* after the other on one connection to it; between requests the socket is *)
(* on the list of free sockets.  It exits when it has waited too long.     *)
(*                                                                         *)
(* st of a connection's CGIInfo says which handler waits: "child" for the  *)
(* name (ChildReadHandler), "env" to write the environment                 *)
(* (WriteEnvHandler), "rw" for the content and the answer                  *)
(* (ReadWriteHandler), "client" for the client (WriteToClient).            *)
(***************************************************************************)
EXTENDS FlashConn

App == 1..MaxApps

NoApp == [st |-> "none", url |-> "", open |-> FALSE, env |-> FALSE, need |-> 0,
          body |-> 0, out |-> << >>]

HandleCGIFailure(w, c, o) == DoneWithConnection(w, c, TRUE, o)

\* The environment goes out in one write: the socket is empty.
WriteEnvHandler(w, c) ==
  [w EXCEPT !.conn[c].cgi.st = "rw", !.app[w.conn[c].cgi.app].env = TRUE,
            !.app[w.conn[c].cgi.app].need = w.conn[c].req.body]

\* A process that has exited cannot be written to: HandleCGIFailure releases the
\* socket, and -1, which also means that the write would block, makes the caller set a
\* handler on it.
ConnectToExistingSock(w, c) ==
  IF w.app[w.conn[c].cgi.app].st = "dead" THEN Fail(w, "handler on a released cgi socket")
  ELSE WriteEnvHandler(w, c)

StartConnect(w, c) ==
  WriteEnvHandler([w EXCEPT !.app[w.conn[c].cgi.app].st = "idle"], c)

\* GET or POST of a program.  The result says whether the caller is to close the
\* connection; HEAD is answered and the connection left as it is.
cgi(w, c, addToHNE, o) ==
  LET hc == w.conn[c]
      v == IF addToHNE THEN EnterIntoHotCGICache(w, c) ELSE w
      i == First(v.freeSock, LAMBDA b : v.app[b].url = hc.req.url)
      old == v.freeSock[i]
      new == CHOOSE b \in App : v.app[b] = NoApp
      start(a) == [NoCgi EXCEPT !.app = a, !.body = hc.req.body]
      reuse == ConnectToExistingSock(
                 [v EXCEPT !.freeSock = Without(@, old), !.conn[c].cgi = start(old)], c)
      fork == SetTimer([v EXCEPT
                !.app[new] = [NoApp EXCEPT !.st = "fork", !.url = hc.req.url, !.open = TRUE],
                !.conn[c].cgi = [start(new) EXCEPT !.st = "child"],
                !.conn[c].pid = new], c, "cgi", o)
  IN CASE hc.req.method = "HEAD" -> SendMime(w, c, "200")
       [] hc.req.method # "HEAD" /\ i # 0 -> reuse
       [] hc.req.method # "HEAD" /\ i = 0 -> fork

ChildReadHandler(w, c, o) ==
  LET a == w.conn[c].cgi.app
      v == [w EXCEPT !.app[a].out = << >>]
  IN IF w.app[a].st = "dead" THEN HandleCGIFailure(w, c, o) ELSE StartConnect(v, c)

\* All of the answer is collected before any of it goes to the client.  An empty chunk
\* ends it and the socket is free; the end of the stream is a failure.
ReadWriteHandler(w, c, o) ==
  LET a == w.conn[c].cgi.app
      out == w.app[a].out
      ends == out # << >> /\ Last(out) = Msg("end")
      v == [w EXCEPT !.app[a].out = << >>,
                     !.conn[c].cgi.ret = @ \o IF ends THEN Front(out) ELSE out]
      wrote == [v EXCEPT !.app[a].body = @ + w.conn[c].cgi.body, !.conn[c].cgi.body = 0]
  IN CASE ends -> SetSelectHandler(
                    [v EXCEPT !.freeSock = <<a>> \o @, !.conn[c].cgi.app = NULL,
                              !.conn[c].cgi.st = "client"], c, "cgi")
       [] ~ends /\ w.app[a].st = "dead" -> HandleCGIFailure(v, c, o)
       [] ~ends /\ w.app[a].st # "dead" -> wrote

WriteToClient(w, c, o) ==
  LET hc == w.conn[c]
      us == hc.cgi.ret
      n == Written(w, hc.client, us)
      v == [Write(w, hc.client, us) EXCEPT !.conn[c].cgi.ret = SubSeq(us, n + 1, Len(us))]
  IN IF us = << >> THEN DoneWithConnection(w, c, FALSE, o)
     ELSE IF n < 1 THEN HandleCGIFailure(w, c, o)
     ELSE IF n = Len(us) THEN DoneWithConnection(v, c, FALSE, o)
     ELSE v

\* Something happened on a free socket: its process has exited.
IdleSockHandler(w, a) == KillFreeSock([w EXCEPT !.freeSock = Without(@, a)], a)

\* The timer of a connection signals the process it forked, whatever that process
\* does by now.
CGITimeout(w, c, o) ==
  LET a == w.conn[c].pid IN
  IF w.app[a].st = "dead" THEN DoneWithConnection(w, c, TRUE, o)
  ELSE SetTimer([w EXCEPT !.app[a].st = "dead"], c, "cgi2", o)

CGITimeout2(w, c, o) ==
  LET a == w.conn[c].pid IN
  IF w.app[a].st = "dead" THEN DoneWithConnection(w, c, TRUE, o)
  ELSE [w EXCEPT !.app[a].st = "dead"]
-----------------------------------------------------------------------------
(* The process: GSCGI_EstablishConnection, GSCGI_AcceptNextRequest with     *)
(* GSCGI_GetContentData, and the loop of dummycgi.c.                        *)
EstablishConnection(w, a) ==
  [w EXCEPT !.app[a].st = "named", !.app[a].out = <<Msg("name")>>]

AcceptNextRequest(w, a) == [w EXCEPT !.app[a].st = "busy", !.app[a].env = FALSE]

WriteAnswer(w, a) ==
  [w EXCEPT !.app[a].st = "wrote", !.app[a].body = 0,
            !.app[a].out = @ \o BodyOf(w.app[a].url, 0, Size[w.app[a].url])]

EndAnswer(w, a) ==
  [w EXCEPT !.app[a].st = "idle", !.app[a].out = Append(@, Msg("end"))]

IdleExit(w, a) == [w EXCEPT !.app[a].st = "dead"]
=============================================================================
