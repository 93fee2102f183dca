----------------------------- MODULE UserverFcgi ----------------------------
(***************************************************************************)
(* Requests for applications: the queue of each application, its servers,  *)
(* the pool of dynamic buffers and the FastCGI records (app.c, bufpool.c,  *)
(* dll.c, fcgi.c, and what info.c does with them when a reply ends).       *)
(*                                                                         *)
(* A queued request is taken by a server that is idle, if there is a       *)
(* dynamic buffer for the reply.  If there is none the application is      *)
(* blocked; the reply that gives a buffer back unblocks the first one.     *)
(***************************************************************************)
EXTENDS UserverCache

\* A client that hung up while it was queued is watched again, so that read() fails and
\* closes it.
UnblockHuppedClient(w, c) ==
  IF w.info[c].st \notin {"WAITING_FOR_REPLY", "REQUEST_QUEUED"} THEN Fail(w, "unblock_hupped_client")
  ELSE InterestSetChange(SetState(w, c, "READING_NEXT_REQUEST"), c, {"r"}, {"w"}, "init")

\* Mutant: a client that hung up is not passed over.
FirstOfAny(w, app) == IF w.q[app] = << >> THEN 0 ELSE 1

\* fcgi_find_next_request: the first request of the queue whose client has not hung up
\* (NONE if there is none), and the state when it and those before it are taken off.
FirstLive(w, app) == SelectInSeq(w.q[app], LAMBDA c : ~w.info[c].hup)

FindNextRequest(w, app) ==
  IF FirstLive(w, app) = 0 THEN NONE ELSE w.q[app][FirstLive(w, app)]

TakeNextRequest(w, app) ==
  LET k == FirstLive(w, app)
      gone == IF k = 0 THEN w.q[app] ELSE SubSeq(w.q[app], 1, k - 1)
      rest == IF k = 0 THEN << >> ELSE SubSeq(w.q[app], k + 1, Len(w.q[app]))
  IN FoldLeft(UnblockHuppedClient, [w EXCEPT !.q[app] = rest], gone)

\* The servers of an application are on a list in the order in which they were given.
Idle(w, app) == {a \in Server : w.server[a].app = app /\ w.server[a].fd = NONE}

FcgiFindIdle(w, app) ==
  IF Idle(w, app) = {} THEN NONE ELSE CHOOSE a \in Idle(w, app) : \A b \in Idle(w, app) : a <= b
-----------------------------------------------------------------------------
(* The dynamic buffers: w.used lists the clients that have one, oldest first. *)
Finished(rep) == rep.done /\ rep.nwritten > 0 /\ rep.nwritten >= rep.total

Rotate(s) == Append(Tail(s), Head(s))

Rotated(s, k) == FoldLeft(LAMBDA r, i : Rotate(r), s, [i \in 1..k |-> i])

\* At most three clients are looked at, from the head; those that are not finished go to
\* the tail.  A finished one loses its buffer to c.
RemoveFromHead(w, c) ==
  LET n == IF Len(w.used) = 1 THEN 1 ELSE 3
      k == {i \in 0..(n - 1) : Finished(w.info[Head(Rotated(w.used, i))].rep)}
      used == Rotated(w.used, IF k = {} THEN n ELSE CHOOSE i \in k : \A m \in k : i <= m)
  IN IF k = {} THEN [w EXCEPT !.used = used]
     ELSE [w EXCEPT !.used = Append(Tail(used), c), !.info[c].rep.dyn = TRUE,
                    !.info[Head(used)].rep.dyn = FALSE, !.info[Head(used)].rep.out = << >>,
                    !.info[Head(used)].rep.end = 0]

BufpoolAlloc(w, c) ==
  IF Len(w.used) < w.opt.bufs
  THEN [w EXCEPT !.used = Append(@, c), !.info[c].rep.dyn = TRUE]
  ELSE RemoveFromHead(w, c)

AppBlock(w, app) ==
  IF app \in Range(w.blocked) THEN Fail(w, "app_block") ELSE [w EXCEPT !.blocked = Append(@, app)]

QueuePush(w, app, c) ==
  IF Len(w.q[app]) < w.opt.queue THEN [w EXCEPT !.q[app] = <<c>> \o @] ELSE w

\* b is the state after the attempt to give c a buffer.
Served(b, a, c) ==
  IF b.info[c].rep.dyn
  THEN Watch(SetState([b EXCEPT !.server[a].fd = c, !.server[a].data = << >>,
                                !.info[c].rep.fd = a, !.info[c].rep.out = << >>,
                                !.info[c].rep.end = 0],
                      c, "WRITING_SET_VALUES"), a, {"w"}, {})
  ELSE LET v == AppBlock(QueuePush(b, b.server[a].app, c), b.server[a].app)
       IN IF b.opt.noexit THEN v ELSE Fail(v, "out of buffers")

FcgiServiceRequest(w, a, c) ==
  IF w.info[c].rep.dyn THEN Fail(w, "fcgi_service_request") ELSE Served(BufpoolAlloc(w, c), a, c)

FcgiGoIdle(w, a) ==
  Watch([w EXCEPT !.server[a].fd = NONE, !.server[a].data = << >>], a, {}, {"r", "w"})

IdleUnless(w, a, c) == IF w.server[a].fd = c THEN w ELSE FcgiGoIdle(w, a)

FcgiServiceNextRequest(w, a) ==
  LET app == w.server[a].app
      v == [w EXCEPT !.server[a].out = << >>]
      next == FindNextRequest(v, app)
      t == TakeNextRequest(v, app)
  IN IF app \in Range(w.blocked) THEN FcgiGoIdle(v, a)
     ELSE IF next = NONE THEN FcgiGoIdle(t, a)
     ELSE IdleUnless(FcgiServiceRequest(t, a, next), a, next)

\* fcgi_process_request when the queue has room.
ServeFirst(w, a, app) ==
  IF a = NONE THEN w ELSE FcgiServiceRequest(TakeNextRequest(w, app), a, FindNextRequest(w, app))

ProcessQueued(w, c) ==
  LET app == w.info[c].req.app
      v == SetState([Watch(w, c, {}, {"r", "w"}) EXCEPT !.q[app] = Append(@, c)], c, "REQUEST_QUEUED")
  IN IF w.info[c].hup THEN Fail(w, "fcgi_process_request")
     ELSE ServeFirst(v, FcgiFindIdle(v, app), app)
-----------------------------------------------------------------------------
(* What the end of a reply sets free. *)
InfoCloseRepFd(w, c) ==
  LET a == w.info[c].rep.fd IN
  CASE a = NONE -> w
    [] a = FILE -> [w EXCEPT !.info[c].rep.fd = NONE]
    [] a \in Server -> IF w.server[a].fd # c THEN Fail(w, "info_close_rep_fd")
                       ELSE [FcgiServiceNextRequest(w, a) EXCEPT !.info[c].rep.fd = NONE]

\* The request at the head of the unblocked application's queue is queued again, as if it
\* had come only now.
AppUnblockNext(w) ==
  LET app == Head(w.blocked)
      v == [w EXCEPT !.blocked = Tail(@)]
      next == FindNextRequest(v, app)
      t == TakeNextRequest(v, app)
  IN IF w.blocked = << >> THEN w
     ELSE IF next = NONE THEN t ELSE ProcessQueued(t, next)

\* Mutant: no application is unblocked.
FreeDynBufOnly(w, c) ==
  IF w.info[c].rep.dyn THEN [w EXCEPT !.used = Without(@, c), !.info[c].rep.dyn = FALSE] ELSE w

FreeDynBuf(w, c) ==
  IF w.info[c].rep.dyn
  THEN AppUnblockNext([w EXCEPT !.used = Without(@, c), !.info[c].rep.dyn = FALSE])
  ELSE w

InfoResetRepBuf(w, c) ==
  [FreeDynBuf(w, c) EXCEPT !.info[c].rep.done = FALSE, !.info[c].rep.out = << >>,
                           !.info[c].rep.end = 0]
-----------------------------------------------------------------------------
(* The records that are built for a server, and those that it sends. *)
Record(type, j, n, k) == [type |-> type, j |-> j, n |-> n, k |-> k]

Following == [WRITING_BEGIN_REQUEST |-> "WRITING_PARAMS_1", WRITING_PARAMS_1 |-> "WRITING_PARAMS_2",
              WRITING_PARAMS_2 |-> "WRITING_END_PARAMS", WRITING_END_PARAMS |-> "WRITING_STDIN",
              WRITING_END_STDIN |-> "WAITING_FOR_REPLY"]

\* A record of one unit is added and the state moves on, if there is room for it.
AddRecord(w, a, c) ==
  LET j == w.info[c].j IN
  SetState([w EXCEPT !.server[a].out = Append(@, Record(w.info[c].st, j, w.tcp[j].n, 0))],
           c, Following[w.info[c].st])

\* As much of the body as has been read and fits in a record.  If more is expected, the
\* server waits for the client, even if some of the body is still in the buffer.
AddStdin(w, a, c, max) ==
  LET q == w.info[c].req
      n == Least(Least(Len(q.buf), q.clen), max - 1)
      v == [w EXCEPT !.server[a].out = IF n = 0 THEN @ ELSE Append(@, Record("STDIN", 0, 0, n)),
                     !.info[c].req.clen = @ - n, !.info[c].req.buf = SubSeq(@, n + 1, Len(@))]
  IN IF q.clen > n THEN Watch(Watch(v, a, {}, {"w"}), c, {"r"}, {}) ELSE v

Size(out) == FoldLeft(LAMBDA n, r : n + 1 + r.k, 0, out)

RECURSIVE FcgiAddToReply(_, _, _)
FcgiAddToReply(w, a, c) ==
  LET st == w.info[c].st
      max == REPBUF - Size(w.server[a].out)
      body == AddStdin(w, a, c, max)
  IN CASE w.exit # "" -> w
       [] w.exit = "" /\ st = "WAITING_FOR_REPLY" ->
            [w EXCEPT !.server[a].st = "HEADER", !.server[a].clen = 0]
       [] w.exit = "" /\ st = "WRITING_SET_VALUES" ->
            FcgiAddToReply(SetState(w, c, "WRITING_BEGIN_REQUEST"), a, c)
       [] w.exit = "" /\ st = "WRITING_STDIN" /\ w.info[c].req.clen > 0 ->
            IF body.info[c].req.clen > 0 THEN body ELSE FcgiAddToReply(body, a, c)
       [] w.exit = "" /\ st = "WRITING_STDIN" /\ w.info[c].req.clen = 0 ->
            FcgiAddToReply(SetState(w, c, "WRITING_END_STDIN"), a, c)
       [] w.exit = "" /\ st = "WRITING_END_STDIN" /\ max > 0 ->
            FcgiAddToReply(Watch(AddRecord(w, a, c), a, {}, {"w"}), a, c)
       [] w.exit = "" /\ st \in DOMAIN Following \ {"WRITING_END_STDIN"} /\ max > 0 ->
            FcgiAddToReply(AddRecord(w, a, c), a, c)
       [] OTHER -> w
=============================================================================
