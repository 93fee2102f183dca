----------------------------- MODULE FlashServer ----------------------------
(***************************************************************************)
(* MainLoop of the Flash server with the clients, the helper processes and *)
(* the CGI processes around it.  A step of the server is one handler that  *)
(* MainLoop calls for a ready descriptor, one expired timer, or one turn   *)
(* of the loop of AcceptConnections.                                       *)
(*                                                                         *)
(* A client sends a request in pieces, and the next one when it has the    *)
(* answer to the last; it closes the connection when it has all.           *)
(***************************************************************************)
EXTENDS FlashRequests

VARIABLE w

Init ==
  \E s \in Scenario :
    w = [conn |-> [c \in Slot |-> NoConn], tcp |-> [k \in Client |-> NoSocket],
         hne |-> NamesInit.hne, names |-> << >>, cgis |-> << >>, mru |-> << >>,
         total |-> 0, spare |-> FALSE,
         ent |-> CacheInit.ent, bin |-> << >>, lru |-> << >>, all |-> 0, free |-> 0,
         disk |-> [u \in Url |-> [mod |-> 0, open |-> "ok"]],
         pool |-> [p \in Pool |-> NoPool],
         app |-> [a \in App |-> NoApp], freeSock |-> << >>,
         num |-> 0, bits |-> Slot, listen |-> TRUE,
         arrived |-> 0, accepted |-> 0,
         maxHelp |-> s.maxHelp, offer |-> s.requests,
         left |-> s.faults, faults |-> {}, exit |-> ""]

\* Once the server has ended nothing else is told apart.
Becomes(v) == w' = IF v.exit = "" THEN v ELSE [w EXCEPT !.exit = v.exit, !.faults = v.faults]

Running == w.exit = ""

\* What the clock can say that makes a difference.
Clocks ==
  {o \in Oracle : /\ o.late => w.maxHelp > 1 /\ \E p \in Pool : w.pool[p].started
                  /\ o.same => \E c \in Slot : w.conn[c].timer # "none"
                  /\ o.sweep => \E n \in Name : w.hne[n].old}
-----------------------------------------------------------------------------
(* The server. *)
Named(c) ==
  \E p \in Pool :
    \/ \E i \in DOMAIN w.pool[p].helper : c \in Range(w.pool[p].helper[i].hc)
    \/ \E i \in DOMAIN w.pool[p].waiting : c \in Range(w.pool[p].waiting[i])

AwaitRequest(r, c) ==
  IF r.dcr = "READMORE" THEN SetSelectHandler(r.w, c, "read") ELSE r.w

DisallowIfFull(v) == [v EXCEPT !.listen = @ /\ v.num < maxConnects]

Arriving == Running /\ w.listen /\ w.num < maxConnects /\ w.accepted < w.arrived

\* The lowest free connection takes the client, and its request is read if it is
\* there.  A connection that a helper or a waiting list still names from before has
\* its links overwritten: what follows is not modelled.
AcceptConnections ==
  /\ Arriving
  /\ \E o \in Clocks :
       LET c == CHOOSE b \in w.bits : \A d \in w.bits : b <= d
           v == [w EXCEPT !.accepted = @ + 1, !.num = @ + 1, !.bits = @ \ {c},
                          !.conn[c] = [NoConn EXCEPT !.client = w.accepted + 1]]
       IN Becomes(IF Named(c) THEN Fail(w, "connection reused while named")
                  ELSE DisallowIfFull(AwaitRequest(DoConnReadingBackend(v, c, o), c)))

Peer(c) == w.tcp[w.conn[c].client]

Readable(c) ==
  Running /\ w.conn[c].h = "read" /\ (Peer(c).rcv > 0 \/ Peer(c).peer # "open")

ClientReadable(c) ==
  /\ Readable(c)
  /\ \E o \in Clocks : Becomes(DoConnReading(w, c, o))

Writable(c) ==
  /\ Running /\ w.conn[c].h \in {"write", "stream", "cgi"}
  /\ Room(w, w.conn[c].client) > 0 \/ Peer(c).peer # "open"

ClientWritable(c) ==
  /\ Writable(c)
  /\ \E o \in Clocks :
       Becomes(CASE w.conn[c].h = "write" -> DoSingleWriteBackend(w, c, FALSE, o)
                 [] w.conn[c].h = "stream" -> WriteStreamToClient(w, c, o)
                 [] w.conn[c].h = "cgi" -> WriteToClient(w, c, o))

HelperReady(p, i) ==
  /\ Running /\ i \in DOMAIN w.pool[p].helper
  /\ w.pool[p].helper[i].h # "none" /\ w.pool[p].helper[i].out # << >>

HelperReadable(p, i) ==
  /\ HelperReady(p, i)
  /\ \E o \in Clocks :
       LET h == w.pool[p].helper[i].h IN
       Becomes(CASE h = "done" /\ p = "dir" -> DirReaderDone(w, i, o)
                 [] h = "done" /\ p # "dir" -> CurrentReaderDone(w, p, i, o)
                 [] h = "consume" -> ConsumeHelperStream(w, i)
                 [] h = "idle" -> HelperGoneIdle(w, p, i))

\* The socket of the CGI process of connection c.
CgiSockReady(c) ==
  LET g == w.conn[c].cgi IN
  /\ Running /\ g.st \in {"child", "rw"}
  /\ \/ w.app[g.app].out # << >> \/ w.app[g.app].st = "dead"
     \/ g.st = "rw" /\ g.body > 0

CgiReady(c) ==
  /\ CgiSockReady(c)
  /\ \E o \in Clocks : Becomes(IF w.conn[c].cgi.st = "child" THEN ChildReadHandler(w, c, o)
                               ELSE ReadWriteHandler(w, c, o))

FreeSockDead(a) == Running /\ a \in Range(w.freeSock) /\ w.app[a].st = "dead"

FreeSockReadable(a) == FreeSockDead(a) /\ Becomes(IdleSockHandler(w, a))

IdleTimeout(v, c, o) == DoneWithConnection(v, c, TRUE, o)

TimerFires(c) ==
  /\ Running /\ w.conn[c].timer # "none" /\ Allowed(w, "timeout")
  /\ \E o \in Clocks :
       LET v == Suffer(w, "timeout") IN
       Becomes(CASE w.conn[c].timer = "idle" -> IdleTimeout(v, c, o)
                 [] w.conn[c].timer = "cgi" -> CGITimeout(v, c, o)
                 [] w.conn[c].timer = "cgi2" -> CGITimeout2(v, c, o))
-----------------------------------------------------------------------------
(* The clients. *)
\* The answers the code gives to a request for what the disk holds.
Answers(r) ==
  LET status(s) == IF r.mime THEN <<Unit(s, r.url, 0)>> ELSE << >>
      page(s) == <<Unit(s, r.url, 0)>>
      body == IF r.method = "HEAD" THEN << >> ELSE BodyOf(r.url, 0, Size[r.url])
  IN CASE r.method = "ERROR" -> {page("501")}
       [] r.method # "ERROR" /\ Kind[r.url] = "file" ->
            {page("200") \o body} \cup (IF r.ims THEN {page("304")} ELSE {})
              \cup (IF CanOpen(w, r.url) THEN {} ELSE {page(w.disk[r.url].open)})
       [] r.method # "ERROR" /\ Kind[r.url] = "ls" -> {status("200") \o body}
       [] r.method # "ERROR" /\ Kind[r.url] \in {"nols", "missing"} -> {page("404")}
       [] r.method # "ERROR" /\ Kind[r.url] = "forbidden" -> {page("403")}
       [] r.method # "ERROR" /\ Kind[r.url] = "redirect" -> {page("500")}
       [] r.method # "ERROR" /\ Kind[r.url] = "cgi" ->
            {IF r.method = "HEAD" THEN status("200") ELSE body}

\* The sequences of whole answers to the first n requests of rs.
RECURSIVE Whole(_, _)
Whole(rs, n) ==
  IF n = 0 THEN {<< >>}
  ELSE {s \o a : s \in Whole(rs, n - 1), a \in Answers(rs[n])}

Answered(k) == w.tcp[k].sent \in Whole(w.tcp[k].reqs, w.tcp[k].req)

Connect ==
  /\ Running /\ w.arrived < Len(w.offer)
  /\ \E rs \in w.offer[w.arrived + 1] :
       w' = [w EXCEPT !.arrived = @ + 1,
                      !.tcp[w.arrived + 1] = [NoSocket EXCEPT
                         !.peer = "open", !.reqs = rs, !.req = 1, !.unsent = Pieces(rs[1])]]

ClientBusy(k) ==
  /\ Running /\ w.tcp[k].peer = "open"
  /\ w.tcp[k].unsent > 0 \/ w.tcp[k].inflight > 0 \/ Answered(k)

ClientSend(k) ==
  /\ Running /\ w.tcp[k].peer = "open" /\ w.tcp[k].unsent > 0
  /\ \E n \in {1, w.tcp[k].unsent} :
       w' = [w EXCEPT !.tcp[k].unsent = @ - n, !.tcp[k].rcv = @ + n]

ClientRead(k) ==
  /\ Running /\ w.tcp[k].peer = "open" /\ w.tcp[k].inflight > 0
  /\ w' = [w EXCEPT !.tcp[k].inflight = 0]

Satisfied(k) ==
  w.tcp[k].peer = "open" /\ w.tcp[k].unsent = 0 /\ w.tcp[k].inflight = 0 /\ Answered(k)

ClientNext(k) ==
  /\ Running /\ Satisfied(k) /\ w.tcp[k].req < Len(w.tcp[k].reqs)
  /\ w' = [w EXCEPT !.tcp[k].req = @ + 1,
                    !.tcp[k].unsent = Pieces(w.tcp[k].reqs[w.tcp[k].req + 1])]

ClientClose(k) ==
  /\ Running /\ Satisfied(k) /\ w.tcp[k].req = Len(w.tcp[k].reqs)
  /\ w' = [w EXCEPT !.tcp[k].peer = "closed"]

\* A client that hangs up with data it has not read resets the connection.
ClientHangup(k) ==
  /\ Running /\ w.tcp[k].peer = "open" /\ Allowed(w, "hangup")
  /\ w' = [Suffer(w, "hangup") EXCEPT
             !.tcp[k].peer = IF w.tcp[k].inflight > 0 THEN "reset" ELSE "closed"]
-----------------------------------------------------------------------------
(* The helper processes, the CGI processes, and time. *)
SlaveBusy(p, i) ==
  /\ Running /\ i \in DOMAIN w.pool[p].helper
  /\ w.pool[p].helper[i].in # << >> \/ w.pool[p].helper[i].job # NoRequest

SlaveReads(p, i) ==
  /\ Running /\ i \in DOMAIN w.pool[p].helper
  /\ w.pool[p].helper[i].in # << >> /\ w.pool[p].helper[i].job = NoRequest
  /\ w' = SlaveTake(w, p, i)

SlaveAnswers(p, i) ==
  /\ Running /\ i \in DOMAIN w.pool[p].helper
  /\ w.pool[p].helper[i].job # NoRequest
  /\ w' = SlaveReply(w, p, i)

SlaveGivesUp(p, i) ==
  /\ Running /\ Allowed(w, "idle") /\ i \in DOMAIN w.pool[p].helper
  /\ w.pool[p].helper[i].in = << >> /\ w.pool[p].helper[i].job = NoRequest
  /\ ~w.pool[p].helper[i].idles
  /\ w' = SlaveIdle(Suffer(w, "idle"), p, i)

AppBusy(a) ==
  /\ Running
  /\ \/ w.app[a].st \in {"fork", "wrote"}
     \/ w.app[a].st = "idle" /\ w.app[a].env
     \/ w.app[a].st = "busy" /\ w.app[a].body = w.app[a].need

AppStep(a) ==
  /\ Running
  /\ \/ w.app[a].st = "fork" /\ w' = EstablishConnection(w, a)
     \/ w.app[a].st = "idle" /\ w.app[a].env /\ w' = AcceptNextRequest(w, a)
     \/ w.app[a].st = "busy" /\ w.app[a].body = w.app[a].need /\ w' = WriteAnswer(w, a)
     \/ w.app[a].st = "wrote" /\ w' = EndAnswer(w, a)

AppGivesUp(a) ==
  /\ Running /\ Allowed(w, "idle") /\ w.app[a].st = "idle" /\ ~w.app[a].env
  /\ w' = IdleExit(Suffer(w, "idle"), a)

\* A cached name passes NAMECACHELIFETIME, a cached file is due to be looked at again,
\* a file is changed.
Aging ==
  /\ Running /\ Allowed(w, "aging")
  /\ \/ \E n \in Name : /\ w.hne[n].type # "none" /\ ~w.hne[n].old
                        /\ w' = [Suffer(w, "aging") EXCEPT !.hne[n].old = TRUE]
     \/ \E e \in Range(w.bin) : /\ ~w.ent[e].stale
                                /\ w' = [Suffer(w, "aging") EXCEPT !.ent[e].stale = TRUE]
     \/ \E e \in Range(w.bin) :
          /\ w.disk[w.ent[e].url].mod = 0
          /\ w' = [Suffer(w, "aging") EXCEPT !.disk[w.ent[e].url].mod = 1]

\* A file is removed, or made unreadable, or open() fails for another reason.
Loss ==
  /\ Running /\ Allowed(w, "loss")
  /\ \E u \in Url : \E error \in {"404", "403", "500"} :
       /\ Kind[u] = "file" /\ CanOpen(w, u)
       /\ w' = [Suffer(w, "loss") EXCEPT !.disk[u].open = error]

Helpers == Pool \X (1..MaxHelp)

\* What goes on as long as there is something to do.
Progress ==
  \/ AcceptConnections
  \/ \E c \in Slot : ClientReadable(c) \/ ClientWritable(c) \/ CgiReady(c)
  \/ \E h \in Helpers : \/ HelperReadable(h[1], h[2])
                        \/ SlaveReads(h[1], h[2]) \/ SlaveAnswers(h[1], h[2])
  \/ \E a \in App : FreeSockReadable(a) \/ AppStep(a)
  \/ \E k \in Client : ClientSend(k) \/ ClientRead(k) \/ ClientNext(k) \/ ClientClose(k)

Chance ==
  \/ Connect
  \/ \E c \in Slot : TimerFires(c)
  \/ \E k \in Client : ClientHangup(k)
  \/ \E h \in Helpers : SlaveGivesUp(h[1], h[2])
  \/ \E a \in App : AppGivesUp(a)
  \/ Aging \/ Loss

Next == Progress \/ Chance

Spec == Init /\ [][Next]_w

\* ENABLED Progress, from the guards.
CanGoOn ==
  \/ Arriving
  \/ \E c \in Slot : Readable(c) \/ Writable(c) \/ CgiSockReady(c)
  \/ \E h \in Helpers : HelperReady(h[1], h[2]) \/ SlaveBusy(h[1], h[2])
  \/ \E a \in App : FreeSockDead(a) \/ AppBusy(a)
  \/ \E k \in Client : ClientBusy(k)

\* MainLoop blocks only while no descriptor is ready, and clients, helpers and CGI
\* processes do not stop in the middle: while something can go on, something does.  As a
\* scenario bounds the steps of Chance, this is WF_w(Progress), which is weaker than
\* fairness to each part.  No timer has to expire.
FairSpec == Spec /\ (<>[]CanGoOn => []<><<TRUE>>_w)
-----------------------------------------------------------------------------
(* Properties. *)
Open == {c \in Slot : w.conn[c].client # NULL}

Held(n) == {c \in Open : w.conn[c].hne = n}

\* hotname.c: the reference count of a cached name is the number of connections that
\* use it, a name is on the MRU list, from which GetEmptyHNE takes victims, exactly when
\* no connection uses it, and the total that is compared with maxNameCacheSize is the
\* number of names, each in one of the two tables.
HotNamesAccounted ==
  LET used == {n \in Name : w.hne[n].type # "none"} IN
  Running =>
    /\ w.total = Cardinality(used) /\ Len(w.names) + Len(w.cgis) = w.total
    /\ Range(w.names) \cup Range(w.cgis) = used
    /\ \A n \in used : w.hne[n].ref = Cardinality(Held(n))
    /\ Range(w.mru) = {n \in used : Held(n) = {}} /\ Len(w.mru) = Cardinality(Range(w.mru))

Holders(e, k) ==
  {c \in Open : w.conn[c].ent = e /\ w.conn[c].locks = 1 /\ w.conn[c].sent \div READBLOCK = k}

ChunkIds == {x \in Entry \X (0..MaxEntries) : x[2] < Len(w.ent[x[1]].chunk)}

Bytes(S) == FoldLeft(LAMBDA n, x : n + GetRoundedChunkSize(w, x[1], x[2]), 0, SetToSeq(S))

\* datacache.c: a chunk counts the connections whose next byte lies in it, is a candidate
\* for unmapping only while it counts none, the two byte totals that decide when to unmap
\* are those of the mapped and of the unmappable chunks, and the cache exceeds
\* maxLRUCacheSizeBytes only by chunks that are in use.
ChunksAccounted ==
  LET mapped == {x \in ChunkIds : Chunk(w, x[1], x[2]).data}
      listed == {x \in ChunkIds : Chunk(w, x[1], x[2]).mru}
  IN Running =>
    /\ \A x \in ChunkIds : Chunk(w, x[1], x[2]).refs = Cardinality(Holders(x[1], x[2]))
    /\ Range(w.lru) = listed /\ \A x \in listed : Holders(x[1], x[2]) = {}
    /\ w.all = Bytes(mapped) /\ w.free = Bytes(listed)
    /\ w.all > maxLRUCacheSize => mapped \cap listed = {}
    /\ \A e \in Entry : /\ w.ent[e].refs = Cardinality({c \in Open : w.conn[c].ent = e})
                        /\ w.ent[e].open => w.ent[e].refs > 0

\* A connection that waits for a helper: no descriptor of its own is selected.
Parked(c) ==
  /\ c \in Open /\ w.conn[c].h = "none" /\ w.conn[c].cgi.st = "none"
  /\ ~(w.conn[c].req.method = "HEAD" /\ Kind[w.conn[c].req.url] = "cgi")

\* The master of a pool of helpers: a connection none of whose descriptors is selected
\* is named by a helper or by a waiting list, so that an answer will resume it, and a
\* list is only waited on while a helper is at work.  The exception is the list of
\* dir_master.c after a client hung up in the middle of its listing: KillHelperConn
\* does not look at the list.
WaitersReachable ==
  Running =>
    /\ \A c \in Slot : Parked(c) => Named(c)
    /\ \A p \in Pool :
         w.pool[p].waiting # << >> =>
           \/ \E i \in DOMAIN w.pool[p].helper : w.pool[p].helper[i].hc # << >>
           \/ p = "dir" /\ "hangup" \in w.faults

\* cgi.c: a CGI process works for one connection, or its socket is on the list of free
\* sockets, or it has been ended; never two of these.
OneOwnerPerProcess ==
  Running =>
    \A a \in App :
      LET users == {c \in Open : w.conn[c].cgi.app = a}
          spare == {i \in DOMAIN w.freeSock : w.freeSock[i] = a}
      IN Cardinality(users) + Cardinality(spare) = IF w.app[a].open THEN 1 ELSE 0

\* The request client k sent last.
Asked(k) == w.tcp[k].reqs[w.tcp[k].req]

\* A helper said that it was idle when a request was on its way: dir_master.c sends the
\* request again, and the helper answers both.
CrossedWires(k) == "idle" \in w.faults /\ Kind[Asked(k).url] = "ls"

\* What a client was sent is a prefix of the answers to its requests, in their order,
\* whatever shares the caches, the helpers and the CGI processes with it; and the server
\* closes the connection of a client that is still there only when it has sent the whole
\* answer, or a timer has expired, or the CGI process that was to answer has exited, or
\* the file can no longer be opened.  The exception to both is a listing after crossed
\* wires: the second answer to the request that was sent twice goes to the next client
\* that waits for a listing.
FlashAnswersWhole ==
  \A k \in 1..w.arrived :
    \/ CrossedWires(k)
    \/ /\ \E s \in Whole(w.tcp[k].reqs, w.tcp[k].req) : IsPrefix(w.tcp[k].sent, s)
       /\ w.tcp[k].peer = "shut" =>
            \/ Answered(k) \/ "timeout" \in w.faults
            \/ "idle" \in w.faults /\ Kind[Asked(k).url] = "cgi"
            \/ ~CanOpen(w, Asked(k).url)

\* A request that may be answered without data of the file.
Dataless(r) == Kind[r.url] = "file" /\ (r.ims \/ Size[r.url] = 0)

\* The server ends for three reasons only.  A timer closed a connection that a helper or
\* a waiting list still named.  A helper, or a CGI process, gave up waiting while a
\* request was on its way to it.  A connection was done with before its chunk had been
\* read, because of a timer, a file that could not be opened again, a 304 or an empty
\* file: the chunk is then listed without data, and stays listed when its entry is freed,
\* after a change of the file or to make room.  The consistency checks of hotname.c,
\* datacache.c, hotfile.c and loop.c ("still have chunk locks", "negative chunks in
\* mem", "hne shouldn't be on MRU", ...) never fire, and without timeouts, idle helpers,
\* lost files, conditional requests and empty files nothing does.
FlashEndsOnlyWhen ==
  CASE w.exit = "" -> TRUE
    [] w.exit \in {"answer for a closed connection", "listing for a closed connection",
                   "name of a closed connection", "request of a closed connection",
                   "connection reused while named"} -> "timeout" \in w.faults
    [] w.exit \in {"helper returned short message", "helper index out of range"} ->
         "idle" \in w.faults
    [] w.exit = "handler on a released cgi socket" -> w.faults \cap {"idle", "timeout"} # {}
    [] w.exit = "freed chunk on list" ->
         \/ w.faults \cap {"timeout", "loss"} # {}
         \/ \E k \in 1..w.arrived : \E i \in 1..w.tcp[k].req : Dataless(w.tcp[k].reqs[i])
    [] OTHER -> FALSE

Served(k) == w.tcp[k].peer \in {"shut", "closed", "reset"}

\* A helper for listings was closed down with its client, under the list of those who
\* wait for it.
Stranded(k) == "hangup" \in w.faults /\ k <= w.arrived /\ Kind[Asked(k).url] = "ls"

\* Every client that connects is answered and its connection ends.  Beside the end of
\* the server, what can prevent it is a timer, which leaves a helper to a connection that
\* is gone, and, for a listing, another client that hung up in the middle of its own.
FlashEveryClientServed ==
  \A k \in Client :
    k <= w.arrived ~> Served(k) \/ ~Running \/ "timeout" \in w.faults \/ Stranded(k)

=============================================================================
