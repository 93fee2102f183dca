---------------------------- MODULE UserverServer ---------------------------
(***************************************************************************)
(* The userver as a system: the loop (select_loop or epoll_loop) with the  *)
(* events it has got and not handled yet, the clients and the application  *)
(* servers.                                                                *)
(***************************************************************************)
EXTENDS UserverConn

VARIABLE w

\* An application server's process: who it works for, the body it has read, the part of
\* its reply that is ready, and the part that the userver has not read.
NoApp == [name |-> "", j |-> 0, n |-> 0, body |-> 0, pend |-> << >>, out |-> << >>]

\* A client: what it will ask, the request and the piece it has come to, and the sent
\* units that precede the answer to that request; over says that the userver has closed.
NewClient(requests) ==
  [requests |-> requests, peer |-> "none", n |-> 1, k |-> 0, from |-> 0, rcv |-> << >>,
   inflight |-> 0, sent |-> << >>, over |-> FALSE]

InitServer(s, a) == IF a \in DOMAIN s.servers THEN [NoServer EXCEPT !.app = s.servers[a]] ELSE NoServer

InitApp(s, a) == IF a \in DOMAIN s.servers THEN [NoApp EXCEPT !.name = s.servers[a]] ELSE NoApp

\* The sequences of requests a client of scenario s may send; a client it does not have
\* sends none.
Asks(s, j) == IF j \in DOMAIN s.requests THEN s.requests[j] ELSE {<< >>}

State(s, choice) ==
  [opt |-> s, exit |-> "", on |-> TRUE, num_idle |-> s.maxconns,
   reg |-> {Listener} \cup DOMAIN s.servers,
   watch |-> [sd \in {Listener} \cup Server \cup ClientSd |-> IF sd = Listener THEN {"r"} ELSE {}],
   info |-> [c \in ClientSd |-> NoInfo], server |-> [a \in Server |-> InitServer(s, a)],
   cache |-> InitCache(s), leaked |-> [i \in 1..s.table |-> 0],
   q |-> [app \in AppName |-> << >>], blocked |-> << >>, used |-> << >>,
   batch |-> {}, backlog |-> << >>, hangups |-> s.hangups,
   app |-> [a \in Server |-> InitApp(s, a)], tcp |-> [j \in Client |-> NewClient(choice[j])]]

Init == \E s \in Scenario : \E choice \in [Client -> UNION {Asks(s, j) : j \in Client}] :
          /\ \A j \in Client : choice[j] \in Asks(s, j)
          /\ w = State(s, choice)

\* What is assigned to w: after the end of the server the rest of a step is not run.
Becomes(v) == w' = IF v.exit = "" THEN v ELSE [w EXCEPT !.exit = v.exit]
-----------------------------------------------------------------------------
(* The loop. *)
Readable(sd) ==
  IF sd = Listener THEN w.backlog # << >>
  ELSE IF sd \in Server THEN w.app[sd].out # << >>
  ELSE w.info[sd].live /\ (w.tcp[w.info[sd].j].rcv # << >> \/ w.tcp[w.info[sd].j].peer # "open")

Writable(sd) ==
  sd \in ClientSd => w.tcp[w.info[sd].j].inflight < SNDBUF \/ w.tcp[w.info[sd].j].peer # "open"

HungUp(sd) == sd \in ClientSd /\ w.info[sd].live /\ w.tcp[w.info[sd].j].peer = "reset"

\* What select() and epoll_wait() report of sd: epoll reports that the connection is
\* reset as long as sd is registered, whatever it is watched for.
Events(sd) ==
  {e \in w.watch[sd] : IF e = "r" THEN Readable(sd) ELSE Writable(sd)}
  \cup (IF w.opt.loop = "epoll" /\ sd \in w.reg /\ HungUp(sd) THEN {"hup"} ELSE {})

Ready == {sd \in DOMAIN w.watch : Events(sd) # {}}

Poll == /\ w.exit = "" /\ w.batch = {} /\ Ready # {}
        /\ w' = [w EXCEPT !.batch = {[sd |-> sd, ev |-> Events(sd)] : sd \in Ready}]

DoReadable(v, sd) ==
  IF sd = Listener THEN RepeatAccept(v)
  ELSE IF sd \in Server THEN ServerReadable(v, sd) ELSE SocketReadable(v, sd)

DoWritable(v, sd) == IF sd \in Server THEN ServerWritable(v, sd) ELSE SocketWritable(v, sd)

ConvertToHupped(v, c) ==
  IF v.info[c].hup THEN Fail(v, "convert_to_hupped")
  ELSE InterestSetChange([v EXCEPT !.info[c].hup = TRUE], c, {}, {"r", "w"}, "done")

\* What do_epoll_event calls for an element of epoll_wait()'s result.  A client is written
\* to only if it is in the state for it; one that hung up is left to the function that
\* its state calls for.
EpollCall(e) ==
  LET st == IF e.sd \in ClientSd THEN w.info[e.sd].st ELSE "LISTENING"
      reading == st \in {"READING_REQUEST", "READING_NEXT_REQUEST"}
  IN IF "hup" \in e.ev
     THEN (IF reading THEN "read" ELSE IF st = "WRITING_REPLY" THEN "write" ELSE "hupped")
     ELSE IF "r" \in e.ev THEN "read"
     ELSE IF e.sd \in Server \/ st = "WRITING_REPLY" THEN "write" ELSE "nothing"

\* What check_and_do_read_write calls for a descriptor that select() reported.
SelectCall(e) == IF "r" \in e.ev THEN "read" ELSE "write"

Handle(v, sd, call) ==
  CASE call = "read" -> DoReadable(v, sd)
    [] call = "write" -> DoWritable(v, sd)
    [] call = "hupped" -> ConvertToHupped(v, sd)
    [] call = "nothing" -> v

\* The elements of epoll_wait()'s result come in the order that the kernel gives them;
\* after select() the descriptors are looked at from the highest down.
Process ==
  \E e \in w.batch :
    /\ w.exit = "" /\ (w.opt.loop = "select" => \A o \in w.batch : o.sd <= e.sd)
    /\ Becomes(Handle([w EXCEPT !.batch = @ \ {e}], e.sd,
                      IF w.opt.loop = "epoll" THEN EpollCall(e) ELSE SelectCall(e)))
-----------------------------------------------------------------------------
(* The clients.  One that gets an answer to a request asks the next one; after the last *)
(* it closes.                                                                           *)
Asked(j, n) == w.tcp[j].requests[n]

Pieces(j) == Asked(j, w.tcp[j].n)

\* A request as the parser takes it when it comes in these pieces.
Parse(pieces) ==
  FoldLeft(LAMBDA q, p : IF q.st = "DONE" THEN [q EXCEPT !.buf = @ \o p] ELSE ParseBytes(q, p), NoReq, pieces)

Requests == UNION {Range(rs) : rs \in UNION {UNION Range(s.requests) : s \in Scenario}}

ParsedInPieces == [r \in Requests |-> Parse(r)]

ParsedAtOnce == [r \in Requests |-> Parse(<<FlattenSeq(r)>>)]

Parsed(j) == ParsedInPieces[Pieces(j)]

Intended(j) == ParsedAtOnce[Pieces(j)]

StaticAnswer(q, uri) ==
  CASE q.method = "NOT_IMPL" -> <<Page("501")>>
    [] q.method # "NOT_IMPL" /\ uri \notin DOMAIN Site -> <<Page("404")>>
    [] q.method # "NOT_IMPL" /\ uri \in DOMAIN Site /\ Site[uri].kind # "file" -> <<Page("403")>>
    [] q.method # "NOT_IMPL" /\ uri \in DOMAIN Site /\ Site[uri].kind = "file" ->
         IF ~ModifiedSince(q.ims) THEN <<Page("304")>>
         ELSE <<Header(uri)>> \o (IF q.method = "HEAD" THEN << >> ELSE FileUnits(uri, 0, Site[uri].size))

\* What answers q, as request n of client j: an application may be too busy.
Answers(q, j, n) ==
  CASE q.type = "STATIC" -> {StaticAnswer(q, DefaultName(q.uri))}
    [] q.type = "FASTCGI" -> {<<Page("503")>>, <<Header(DefaultName(q.uri))>> \o Reply(q.app, j, n, q.clen)}
    [] OTHER -> {}

Got(j) == SubSeq(w.tcp[j].sent, w.tcp[j].from + 1, Len(w.tcp[j].sent))

\* Pieces may be read together.
Understood(j) == {Parsed(j), Intended(j)}

Answered(j) == /\ w.tcp[j].k = Len(Pieces(j)) /\ w.tcp[j].inflight = 0
               /\ \E q \in Understood(j) : Got(j) \in Answers(q, j, w.tcp[j].n)

\* In a slow scenario data may move in parts.
Portions(part, all) == IF w.opt.slow THEN {part, all} ELSE {all}

Open(j) == w.tcp[j].peer = "open"

\* What a client does before it is accepted shows only then, and nothing that it does
\* after the userver has closed shows: it acts in between.
Talks(j) == Open(j) /\ j \notin Range(w.backlog) /\ ~w.tcp[j].over

\* The clients are numbered in the order in which they connect.
CanConnect(j) == /\ w.tcp[j].peer = "none" /\ w.tcp[j].requests # << >>
                 /\ \A i \in 1..(j - 1) : w.tcp[i].peer # "none"

CanSend(j) == Talks(j) /\ w.tcp[j].k < Len(Pieces(j))

CanAskNext(j) == Talks(j) /\ Answered(j) /\ w.tcp[j].n < Len(w.tcp[j].requests)

CanDrain(j) == Talks(j) /\ w.tcp[j].inflight > 0

CanFinish(j) == Talks(j) /\ Answered(j) /\ w.tcp[j].n = Len(w.tcp[j].requests)

Connect(j) == /\ w.exit = "" /\ CanConnect(j)
              /\ w' = [w EXCEPT !.tcp[j].peer = "open", !.backlog = Append(@, j)]

Send(j) == /\ w.exit = "" /\ CanSend(j)
           /\ w' = [w EXCEPT !.tcp[j].rcv = @ \o Pieces(j)[w.tcp[j].k + 1], !.tcp[j].k = @ + 1]

AskNext(j) == /\ w.exit = "" /\ CanAskNext(j)
              /\ w' = [w EXCEPT !.tcp[j].n = @ + 1, !.tcp[j].k = 0, !.tcp[j].from = Len(w.tcp[j].sent)]

Drain(j) == /\ w.exit = "" /\ CanDrain(j)
            /\ \E n \in Portions(1, w.tcp[j].inflight) : w' = [w EXCEPT !.tcp[j].inflight = @ - n]

Finish(j) == /\ w.exit = "" /\ CanFinish(j)
             /\ w' = [w EXCEPT !.tcp[j].peer = "closed"]

HangUp(j) ==
  /\ w.exit = "" /\ Talks(j) /\ w.hangups > 0
  /\ \E how \in {"closed", "reset"} :
       w' = [w EXCEPT !.hangups = @ - 1, !.tcp[j].peer = how, !.tcp[j].inflight = 0,
                      !.tcp[j].rcv = IF how = "reset" THEN << >> ELSE @]

\* An application server's process writes its reply, in one or in several pieces.
CanReply(a) == w.app[a].pend # << >>

AppWrite(a) ==
  /\ w.exit = "" /\ CanReply(a)
  /\ \E n \in Portions(Least(2, Len(w.app[a].pend)), Len(w.app[a].pend)) :
       w' = [w EXCEPT !.app[a].out = @ \o SubSeq(w.app[a].pend, 1, n),
                      !.app[a].pend = SubSeq(@, n + 1, Len(@))]

ClientStep == \E j \in Client : Connect(j) \/ Send(j) \/ AskNext(j) \/ Drain(j) \/ Finish(j) \/ HangUp(j)

Next == Poll \/ Process \/ ClientStep \/ (\E a \in Server : AppWrite(a))

Spec == Init /\ [][Next]_w

\* Fairness: the kernel runs each process; as long as one has something to do, some step
\* is taken.
CanGoOn ==
  /\ w.exit = ""
  /\ \/ w.batch # {} \/ Ready # {}
     \/ \E j \in Client : CanConnect(j) \/ CanSend(j) \/ CanAskNext(j) \/ CanDrain(j) \/ CanFinish(j)
     \/ \E a \in Server : CanReply(a)

FairSpec == Spec /\ (<>[]CanGoOn => []<><<TRUE>>_w)
-----------------------------------------------------------------------------
(* Properties. *)
Live == {c \in ClientSd : w.info[c].live}

NoDuplicates(s) == Cardinality(Range(s)) = Len(s)

\* The cache counts right (cache_mapped_new.c): an element counts exactly the replies that
\* are being sent from it, and those whose count the answer 304 has lost
\* (setup_http.c:402); every element is either free or in the order of use; no two hold
\* the same file; the bytes are those of the elements in use, and within the limit.
UserverCacheCounted ==
  LET cache == w.cache IN
  /\ \A i \in DOMAIN cache.el :
       cache.el[i].ref = Cardinality({c \in Live : w.info[c].rep.cached = i}) + w.leaked[i]
  /\ NoDuplicates(cache.lru \o cache.free)
  /\ Range(cache.lru \o cache.free) = DOMAIN cache.el
  /\ NoDuplicates([k \in DOMAIN cache.lru |-> cache.el[cache.lru[k]].uri])
  /\ cache.bytes = FoldLeft(LAMBDA n, i : n + cache.el[i].size, 0, cache.lru)
  /\ cache.bytes <= w.opt.bytes

\* A server whose client closed its connection before the body was complete: do_close does
\* not give the server back.
Lost(a) ==
  LET c == w.server[a].fd IN c # NONE /\ ~(w.info[c].live /\ w.info[c].rep.fd = a)

\* The links between clients, servers, queues and buffers agree (fcgi.c, app.c, bufpool.c):
\* a server that is not lost and its client name each other, and the client has a buffer;
\* the queue of an application holds exactly its clients that wait, once each; the list
\* of buffers names exactly the clients that have one; and no server is idle while a
\* client of its application waits, unless the application is blocked for want of a
\* buffer.  A blocked application for which there is a buffer occurs only after a client
\* hung up: the buffer went to an application none of whose clients was left.
FcgiLinksAccounted ==
  /\ \A a \in Server : w.server[a].fd # NONE =>
       IF Lost(a) THEN w.watch[a] = {} /\ w.hangups < w.opt.hangups ELSE w.info[w.server[a].fd].rep.dyn
  /\ \A c \in Live : w.info[c].rep.fd \in Server => w.server[w.info[c].rep.fd].fd = c
  /\ \A app \in AppName :
       /\ NoDuplicates(w.q[app]) /\ Len(w.q[app]) <= w.opt.queue
       /\ Range(w.q[app]) = {c \in Live : w.info[c].st = "REQUEST_QUEUED" /\ w.info[c].req.app = app}
       /\ Idle(w, app) # {} /\ FindNextRequest(w, app) # NONE => app \in Range(w.blocked)
       /\ app \in Range(w.blocked) => Len(w.used) = w.opt.bufs \/ w.hangups < w.opt.hangups
  /\ NoDuplicates(w.blocked) /\ NoDuplicates(w.used) /\ Len(w.used) <= w.opt.bufs
  /\ Range(w.used) = {c \in Live : w.info[c].rep.dyn}

Reading == {"READING_REQUEST", "READING_NEXT_REQUEST"}

\* What a client in this state is watched for.
WatchFor(st) ==
  CASE st \in Reading -> {{"r"}}
    [] st = "WRITING_REPLY" -> {{"w"}}
    [] st = "WRITING_STDIN" -> {{}, {"r"}}
    [] OTHER -> {{}}

\* A client that hung up with part of its body to come: nothing is watched for it any more.
Stranded(c) == w.info[c].st = "WRITING_STDIN" /\ w.info[c].hup

\* What is watched is what the state of each connection calls for (interest_set.c): of a
\* client and the server that works for it exactly one is; a client that hung up is
\* watched again once it can be closed; the listener is watched exactly when another
\* connection can be taken; and no event is left for a connection that is closed.
InterestMatchesState ==
  /\ \A c \in Live :
       /\ w.watch[c] \in WatchFor(w.info[c].st)
       /\ w.opt.loop = "epoll" =>
            (c \in w.reg <=> (w.info[c].hup => w.info[c].st \in Reading \cup {"WRITING_REPLY"}))
       /\ w.info[c].rep.fd \in Server /\ ~Stranded(c) =>
            Cardinality({sd \in {c, w.info[c].rep.fd} : w.watch[sd] # {}}) = 1
  /\ \A a \in Server : w.server[a].fd = NONE => w.watch[a] = {}
  /\ \A c \in ClientSd \ Live : w.watch[c] = {} /\ c \notin w.reg
  /\ w.num_idle = w.opt.maxconns - Cardinality(Live)
  /\ w.on <=> w.num_idle > 0
  /\ w.watch[Listener] = IF w.on THEN {"r"} ELSE {}
  /\ \A e \in w.batch : e.sd \in {Listener} \cup Server \cup Live

\* The units of a FastCGI reply that the userver takes for its length: total_len leaves
\* out both headers (setup_http.c:848).
Counted(j) == LET q == Parsed(j) IN
              IF q.type = "FASTCGI" THEN Content[q.app] ELSE 10 * REPBUF

\* A request that was cut before a slash: parse_bytes skips the slash (parse.c:595).
Cut(j) == Parsed(j).uri # Intended(j).uri

Whole(j) == Got(j) \in Answers(Intended(j), j, w.tcp[j].n)

\* What a client has got for a request is a beginning of one answer to it (send_reply.c,
\* do_write.c), its own and in order, with the body that it sent, whatever the pieces
\* were; once the userver has turned to the next request, or closed, it is all of it
\* unless it is a reply of an application of which total_len was sent.
UserverRepliesWhole ==
  \A j \in Client : Open(j) /\ ~Cut(j) =>
    /\ Got(j) # << >> => \E r \in Answers(Intended(j), j, w.tcp[j].n) : IsPrefix(Got(j), r)
    /\ Whole(j) \/ Len(Got(j)) >= Counted(j)
       \/ ~(w.tcp[j].over \/ (Got(j) # << >> /\ \E c \in Live : w.info[c].j = j /\ w.info[c].st \in Reading))

SomeRequest(P(_)) == \E j \in Client : w.tcp[j].requests # << >> /\ P(Parsed(j))

\* No element is left for a victim when a file of the given size is added: the elements in
\* use leave too few bytes for it, or the table is full as well and all others go to make
\* room, the most recently used one last.
VictimsRunOut(size) ==
  LET unused == SelectSeq(w.cache.lru, LAMBDA i : w.cache.el[i].ref = 0)
      room == FoldLeft(LAMBDA n, i : n + w.cache.el[i].size, w.opt.bytes - w.cache.bytes, unused)
  IN \/ size > room
     \/ w.cache.free = << >> /\ (unused = << >> \/ size > room - w.cache.el[Head(unused)].size)

\* The server ends (a failed assert, an exit) only in these cases, which the README
\* discusses: no other assertion of the modelled code fails.
UserverEndsOnlyWhen ==
  CASE w.exit = "" -> TRUE
    [] w.exit = "open" -> SomeRequest(LAMBDA q : q.uri \in DOMAIN Site /\ Site[q.uri].kind = "denied")
    [] w.exit = "malformed request" -> SomeRequest(LAMBDA q : q.st = "FAILED")
    [] w.exit = "invalid request" -> SomeRequest(LAMBDA q : q.st = "DONE" /\ q.type = "INVALID")
    [] w.exit = "out of buffers" -> ~w.opt.noexit /\ Len(w.used) = w.opt.bufs
    [] w.exit = "app_block" -> w.opt.noexit /\ \E app \in Range(w.blocked) : Idle(w, app) # {}
    [] w.exit = "epoll_ctl" -> \E c \in Live : w.info[c].hup /\ w.info[c].rep.fd \in Server /\ w.info[c].req.clen > 0
    [] w.exit = "cache_free_element" -> w.cache.free = << >>
    [] w.exit = "no victim in the cache" -> SomeRequest(LAMBDA q : Cacheable(w, q.uri) /\ VictimsRunOut(Site[q.uri].size))
    [] w.exit = "fstat of a cached file" -> SomeRequest(LAMBDA q : q.ims = "now")
    [] OTHER -> FALSE

\* A server that will never be idle again: its client is gone, or hung up, in the middle of
\* the body, or the rest of the body is in the buffer while more is waited for.
Jammed(a) ==
  LET c == w.server[a].fd IN
  c # NONE /\ (Lost(a) \/ Stranded(c)
               \/ (w.info[c].st = "WRITING_STDIN" /\ w.info[c].req.buf # << >> /\ w.watch[c] = {"r"}))

\* Why client j gets no whole answer: a reply ended with total_len, its application has a
\* jammed server, or it is blocked while there is a buffer.
Excused(j) ==
  LET app == Parsed(j).app IN
  /\ Open(j) /\ app # ""
  /\ \/ Len(Got(j)) >= Counted(j) /\ ~Whole(j)
     \/ \E a \in Server : w.server[a].app = app /\ Jammed(a)
     \/ app \in Range(w.blocked) /\ Len(w.used) < w.opt.bufs

\* Every client that does not hang up gets its answers and leaves, unless the server ends
\* or one of the three cases above lasts forever.
UserverEveryClientServed ==
  \A j \in Client :
    \/ <>(\/ w.exit # "" \/ w.tcp[j].requests = << >>
          \/ w.tcp[j].over \/ w.tcp[j].peer \in {"closed", "reset"})
    \/ <>[]Excused(j)
=============================================================================
