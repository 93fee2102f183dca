------------------------------ MODULE FlashConn -----------------------------
(***************************************************************************)
(* DoneWithConnection (loop.c) and what it releases, and the helper        *)
(* processes a connection waits for: read_master.c and convert_master.c,   *)
(* which are the same code for two kinds of work, and the queue of         *)
(* dir_master.c.                                                           *)
(*                                                                         *)
(* A pool has an array of helpers.  A helper is the master's HelperInfo,   *)
(* with hc the connection it works for followed by that connection's       *)
(* siblings, and the slave process behind its socket pair: in and out are  *)
(* what each has written and the other has not read, job what the slave is *)
(* working on.  waiting is the list of connections no helper was free for, *)
(* each with its siblings; started is timeWaitListStarted.tv_sec # 0.      *)
(***************************************************************************)
EXTENDS FlashCache

KillFreeSock(w, a) == [w EXCEPT !.app[a].st = "dead", !.app[a].open = FALSE]

\* Mutant: the process of a closed connection is forgotten.
ForgetCGIInfo(w, c) == [w EXCEPT !.conn[c].cgi = NoCgi]

ReleaseCGIInfo(w, c) ==
  [IF w.conn[c].cgi.app = NULL THEN w ELSE KillFreeSock(w, w.conn[c].cgi.app)
     EXCEPT !.conn[c].cgi = NoCgi]

\* Mutant: new clients are not allowed again.
ShutDisallowed(w, c) ==
  [ClearTimer(w, c) EXCEPT
     !.conn[c].h = "none", !.conn[c].client = NULL,
     !.tcp[w.conn[c].client].peer = IF @ = "open" THEN "shut" ELSE @,
     !.num = @ - 1, !.bits = @ \cup {c}]

Shut(w, c) ==
  [ClearTimer(w, c) EXCEPT
     !.conn[c].h = "none", !.conn[c].client = NULL,
     !.tcp[w.conn[c].client].peer = IF @ = "open" THEN "shut" ELSE @,
     !.num = @ - 1, !.bits = @ \cup {c}, !.listen = TRUE]

Unlock(w, c) ==
  LET hc == w.conn[c] IN
  IF hc.locks = 0 THEN w
  ELSE [DecChunkLock(w, hc.ent, hc.sent) EXCEPT
          !.conn[c].locks = IF Locks(w, hc.ent, hc.sent) THEN @ - 1 ELSE @]

Release(w, c) ==
  IF w.exit # "" THEN w
  ELSE IF w.conn[c].locks # 0 THEN Fail(w, "still have chunk locks")
  ELSE ReleaseCGIInfo(ReleaseCacheEntry(w, c), c)

\* The connection stays open for its next request, or its socket and slot are given
\* up, and with it all it holds of the caches.
DoneWithConnection(w, c, forceClose, o) ==
  LET closeConn == ~w.conn[c].keep \/ forceClose
      ready == IF closeConn THEN Shut(w, c)
               ELSE SetTimer(SetSelectHandler(w, c, "read"), c, "idle", o)
  IN IF w.conn[c].client = NULL THEN w
     ELSE [Release(Unlock(ReleaseHNE(ready, c), c), c) EXCEPT
             !.conn[c] = IF closeConn THEN NoConn ELSE PrepareConnForNextRequest(@)]
-----------------------------------------------------------------------------
NewHelper == [hc |-> << >>, h |-> "idle", in |-> << >>, out |-> << >>, job |-> NoRequest,
              idles |-> FALSE]

NoPool == [helper |-> << >>, waiting |-> << >>, started |-> FALSE]

\* What two connections of a pool share when one answer serves both: the name to
\* translate, or the entry and the byte to read.
Key(w, p, c) ==
  IF p = "convert" THEN <<w.conn[c].req.url>> ELSE <<w.conn[c].ent, w.conn[c].sent>>

\* The request of the group's first connection goes to helper i.  One that has been
\* closed has no name any more, and no cache entry.
AddCurrentReader(w, p, i, group) ==
  IF w.conn[Head(group)].client = NULL THEN Fail(w, "request of a closed connection")
  ELSE [w EXCEPT !.pool[p].helper[i] =
     [@ EXCEPT !.hc = group, !.h = "done",
               !.in = Append(@, w.conn[Head(group)].req)]]

Join(group, c) == <<Head(group), c>> \o Tail(group)

\* What the three masters have in common: share the answer of a helper at work or of
\* a connection that waits (not for a listing, which has one consumer), take a free
\* helper, fork one, or wait at the end of the list.
Schedule(w, p, c, o) ==
  LET v == SetSelectHandler(w, c, "none")
      pool == v.pool[p]
      n == Len(pool.helper)
      gone(g) == v.conn[Head(g)].client = NULL
      same(g) == /\ p # "dir" /\ g # << >>
                 /\ (p = "convert" /\ gone(g)) \/ Key(v, p, Head(g)) = Key(v, p, c)
      busy == First(pool.helper, LAMBDA x : same(x.hc))
      idle == First(pool.helper, LAMBDA x : x.hc = << >>)
      wait == First(pool.waiting, same)
      fork == n = 0 \/ (n < w.maxHelp /\ pool.started /\ o.late)
      joined == IF busy # 0 THEN pool.helper[busy].hc ELSE pool.waiting[wait]
  IN IF (busy # 0 \/ (idle = 0 /\ wait # 0)) /\ gone(joined)
     THEN Fail(v, "name of a closed connection")
     ELSE IF busy # 0 THEN [v EXCEPT !.pool[p].helper[busy].hc = Join(@, c)]
     ELSE IF idle # 0 THEN AddCurrentReader(v, p, idle, <<c>>)
     ELSE IF wait # 0 THEN [v EXCEPT !.pool[p].waiting[wait] = Join(@, c)]
     ELSE IF fork
     THEN AddCurrentReader([v EXCEPT !.pool[p].helper = Append(@, NewHelper),
                                     !.pool[p].started = TRUE], p, n + 1, <<c>>)
     ELSE [v EXCEPT !.pool[p].waiting = Append(@, <<c>>),
                    !.pool[p].started = @ \/ pool.waiting = << >>]

ScheduleAsyncRead(w, c, o) == Schedule(w, "read", c, o)

ScheduleNameConversion(w, c, o) == Schedule(w, "convert", c, o)

ScheduleDirHelp(w, c, o) == Schedule(w, "dir", c, o)

TakeWaiter(w, p, i) ==
  LET rest == Tail(w.pool[p].waiting) IN
  IF w.pool[p].waiting = << >> THEN w
  ELSE AddCurrentReader([w EXCEPT !.pool[p].waiting = rest,
                                  !.pool[p].started = @ /\ rest # << >>],
                        p, i, Head(w.pool[p].waiting))

\* Mutant: the helper is free and nobody takes it.
FreeHelper(w, p, i) ==
  [w EXCEPT !.pool[p].helper[i].hc = << >>, !.pool[p].helper[i].h = "idle"]

\* Helper i, free again, takes the first connection that waits.
ScheduleNextWaiter(w, p, i) ==
  TakeWaiter([w EXCEPT !.pool[p].helper[i].hc = << >>, !.pool[p].helper[i].h = "idle"], p, i)

KillHelperConn(w, p, i) == [w EXCEPT !.pool[p].helper = RemoveAt(@, i)]

\* A helper without work has written: that it is idle, and it is closed down.
HelperGoneIdle(w, p, i) ==
  IF Head(w.pool[p].helper[i].out) # Msg("idle") THEN Fail(w, "helper returned short message")
  ELSE KillHelperConn(w, p, i)
-----------------------------------------------------------------------------
(* The slave processes, read_slave.c, convert_slave.c and dir_slave.c.  One   *)
(* read takes all that the master has written and one request is made of it.  *)
(* On Linux select leaves in its timeout what was left of it, so a slave      *)
(* reports once that it is idle.                                              *)
SlaveTake(w, p, i) ==
  [w EXCEPT !.pool[p].helper[i] = [@ EXCEPT !.job = Head(w.pool[p].helper[i].in),
                                            !.in = << >>]]

\* Whatever became of the read or of the translation, the master only learns that it
\* is over.
ReadSlave == <<Msg("done")>>

ConvertSlave == <<Msg("done")>>

\* The size of the listing and, but for HEAD, the listing; or that there is none.
DirSlave(r) ==
  IF Kind[r.url] = "nols" THEN <<Msg("none")>>
  ELSE <<Unit("list", r.url, Size[r.url])>>
         \o IF r.method = "HEAD" THEN << >> ELSE BodyOf(r.url, 0, Size[r.url])

SlaveReply(w, p, i) ==
  LET reply == CASE p = "read" -> ReadSlave
                 [] p = "convert" -> ConvertSlave
                 [] p = "dir" -> DirSlave(w.pool[p].helper[i].job)
  IN [w EXCEPT !.pool[p].helper[i].out = @ \o reply,
               !.pool[p].helper[i].job = NoRequest]

SlaveIdle(w, p, i) ==
  [w EXCEPT !.pool[p].helper[i].out = Append(@, Msg("idle")),
            !.pool[p].helper[i].idles = TRUE]
=============================================================================
