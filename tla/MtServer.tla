------------------------------ MODULE MtServer ------------------------------
(***************************************************************************)
(* The multi-threaded server of mt_server: main() accepts connections and  *)
(* hands them to a pool of workers, each of which reads one request with   *)
(* blocking calls, writes the response and closes the connection           *)
(* (ed_server.c, ed_http.c, the line reader of csapp.c).  The shared       *)
(* buffer between them is WorkQueue, which Sbuf is proved to implement.    *)
(*                                                                         *)
(* A CGI script is a child process.  fork() copies every descriptor that   *)
(* is open at that moment and nothing is closed on exec, so a child also   *)
(* holds the connections of other clients, and the writing end of a pipe   *)
(* that another worker has just made.                                      *)
(*                                                                         *)
(* A request is a sequence of lines: "get" (a request line), "bad" (one    *)
(* that does not parse), "field" and "crlf"; "part" is a line cut short.   *)
(***************************************************************************)
EXTENDS TcpClients, FiniteSetsExt

CONSTANTS
  Worker,      \* the NTHREADS worker threads
  Capacity,    \* SBUFSIZE
  PIPEBUF,     \* units a pipe holds
  MaxOpen      \* how many descriptors the process may have open

ASSUME MtAssumption ==
  /\ IsFiniteSet(Worker) /\ Capacity \in Nat \ {0}
  /\ PIPEBUF >= CHUNK /\ MaxOpen \in Nat
  /\ \A p \in Plan : \A c \in Conn : \A r \in p.request[c] :
       r.form \in Seq({"get", "bad", "field", "crlf"})

VARIABLES
  accepted,  \* how many connections accept() has returned
  conn_fd,   \* the connection main() has accepted and not yet inserted
  waiting,   \* the connections in the shared buffer
  serving,   \* the connection each worker handles
  at,        \* the next statement of each worker
  page,      \* the page that each worker's header asks for, NoPage if it does not parse
  temp_buf,  \* the last line read_request_headers has read, or "?"
  out,       \* what each worker has yet to send in the current send()
  fp,        \* the position in the file, pipe or FastCGI answer, or NULL
  child,     \* the CGI process of each worker
  pipe,      \* the units in the pipe of each worker's CGI process
  orphans,   \* the CGI processes that were forked though there was no pipe
  fds,       \* how many descriptors the server process has open
  leaked     \* how many of them nobody refers to

pool == <<accepted, conn_fd, waiting, serving>>

locals == <<page, temp_buf, out, fp>>

processes == <<child, pipe, orphans, leaked>>

server == <<pool, at, locals, processes, fds>>

vars == <<network, server>>

Pool == INSTANCE WorkQueue WITH Job <- Conn, NoJob <- NoConn
-----------------------------------------------------------------------------
Open(c) == c > accepted \/ conn_fd = c \/ c \in Pool!Waiting \cup Pool!Serving

ClientStep ==
  /\ \/ Connect
     \/ \E c \in Conn : ClientSend(c) \/ ClientRead(c)
     \/ \E c \in Conn : Open(c) /\ ClientClose(c, {<<"part">>})
  /\ UNCHANGED server
-----------------------------------------------------------------------------
(* main()                                                                  *)

\* accept(); without a descriptor it fails, and the loop tries again.
Accept ==
  /\ conn_fd = NoConn /\ accepted < arrived /\ fds < MaxOpen
  /\ accepted' = accepted + 1
  /\ conn_fd' = accepted + 1
  /\ fds' = fds + 1
  /\ UNCHANGED <<network, waiting, serving, at, locals, processes>>

Insert ==
  /\ conn_fd # NoConn
  /\ Pool!Submit(conn_fd)
  /\ conn_fd' = NoConn
  /\ UNCHANGED <<network, accepted, at, locals, processes, fds>>

MainStep == Accept \/ Insert
-----------------------------------------------------------------------------
(* handle_request: the request                                             *)

At(w, from) == at[w] = from /\ out[w] = << >>

Goto(w, to) == at' = [at EXCEPT ![w] = to]

Take(w) ==
  /\ At(w, "remove")
  /\ Pool!Start(w)
  /\ Goto(w, "request")
  /\ UNCHANGED <<network, accepted, conn_fd, locals, processes, fds>>

Line(w) == Head(rcv[serving[w]])

\* rio_readlineb finds a line; a read() that meets the pending error returns
\* -1 once; after the end of the data it returns 0 and stores nothing.
Readable(w) == rcv[serving[w]] # << >>

ReadFails(w) == ~Readable(w) /\ peer[serving[w]] = "reset"

AtEnd(w) == ~Readable(w) /\ peer[serving[w]] \in {"closed", "dead"}

ReadRequestLine(w) ==
  /\ At(w, "request") /\ Readable(w)
  /\ Receive(serving[w], 1)
  /\ IF Line(w) = "get"
     THEN /\ Goto(w, "headers")
          /\ page' = [page EXCEPT ![w] = want[serving[w]].page]
     ELSE /\ Goto(w, "close")
          /\ page' = [page EXCEPT ![w] = NoPage]
  /\ UNCHANGED <<pool, temp_buf, out, fp, processes, fds>>

\* The connection ended before the first line: header is uninitialised, and what
\* its place on the stack holds is parsed, perhaps the line of the request before.
ReadNoRequest(w) ==
  /\ At(w, "request") /\ AtEnd(w)
  /\ \/ Goto(w, "close") /\ page' = [page EXCEPT ![w] = NoPage]
     \/ page[w] # NoPage /\ Goto(w, "headers") /\ UNCHANGED page
  /\ UNCHANGED <<network, pool, temp_buf, out, fp, processes, fds>>

ReadError(w) ==
  /\ at[w] \in {"request", "headers"} /\ ReadFails(w)
  /\ ReceiveError(serving[w])
  /\ Goto(w, "close")
  /\ temp_buf' = [temp_buf EXCEPT ![w] = "?"]
  /\ UNCHANGED <<pool, page, out, fp, processes, fds>>

\* read_request_headers reads a line, and goes on until it is CRLF.
ReadHeader(w) ==
  /\ At(w, "headers") /\ Readable(w)
  /\ Receive(serving[w], 1)
  /\ IF Line(w) = "crlf"
     THEN Goto(w, "respond") /\ temp_buf' = [temp_buf EXCEPT ![w] = "?"]
     ELSE UNCHANGED at /\ temp_buf' = [temp_buf EXCEPT ![w] = Line(w)]
  /\ UNCHANGED <<pool, page, out, fp, processes, fds>>

\* At the end of the data temp_buf keeps the last line.  When none was read it
\* is uninitialised, and may hold the CRLF of an earlier request.
ReadNoHeader(w) ==
  /\ At(w, "headers") /\ AtEnd(w)
  /\ \/ /\ temp_buf[w] = "?"
        /\ Goto(w, "respond") /\ UNCHANGED temp_buf
     \/ /\ temp_buf' = [temp_buf EXCEPT ![w] = IF @ = "?" THEN "field" ELSE @]
        /\ UNCHANGED at
  /\ UNCHANGED <<network, pool, page, out, fp, processes, fds>>
-----------------------------------------------------------------------------
(* send() on the blocking socket of a client                               *)

\* The call returns once all is taken; on a connection whose client is gone it
\* returns an error, which no caller looks at.
Send(w) ==
  LET c == serving[w] IN
  /\ out[w] # << >> /\ (Room(c) > 0 \/ peer[c] # "open")
  /\ Transmit(c, out[w])
  /\ out' = [out EXCEPT ![w] = IF peer[c] = "open" THEN SubSeq(@, Room(c) + 1, Len(@))
                               ELSE << >>]
  /\ UNCHANGED <<pool, at, page, temp_buf, fp, processes, fds>>

\* A response stage of worker w: units to send, then the statement to go on at.
Stage(w, units, next) ==
  /\ out' = [out EXCEPT ![w] = units]
  /\ Goto(w, next)
  /\ UNCHANGED <<network, pool, page, temp_buf>>

Opens(w, k) ==
  /\ fp' = [fp EXCEPT ![w] = 0]
  /\ fds' = fds + k

Closes(w) ==
  /\ fp' = [fp EXCEPT ![w] = NULL]
  /\ fds' = fds - 1

Fails(w, call) == FailsAt[page[w]] = call
-----------------------------------------------------------------------------
(* write_http_response: a file                                             *)

OpenFile(w) ==
  /\ At(w, "respond") /\ page[w] \in FilePage
  /\ IF Fails(w, "open") \/ fds = MaxOpen
     THEN Stage(w, <<NotFound>>, "close") /\ UNCHANGED <<fp, fds>>
     ELSE Stage(w, << >>, "seek") /\ Opens(w, 1)
  /\ UNCHANGED processes

\* Mutant: no fclose when fseek fails.
WriteHeader_NoFclose(w) ==
  /\ At(w, "seek")
  /\ Stage(w, IF Fails(w, "seek") THEN <<ServerError>> ELSE <<Header>>,
              IF Fails(w, "seek") THEN "close" ELSE "data")
  /\ UNCHANGED <<fp, fds, processes>>

WriteHeader(w) ==
  /\ At(w, "seek")
  /\ IF Fails(w, "seek")
     THEN Stage(w, <<ServerError>>, "close") /\ Closes(w)
     ELSE Stage(w, <<Header>>, "data") /\ UNCHANGED <<fp, fds>>
  /\ UNCHANGED processes

\* One round of the loop: fread, and only a short read meets the end.
WriteChunk(w) ==
  LET n == Least(CHUNK, Size[page[w]] - fp[w]) IN
  /\ At(w, "data")
  /\ IF Fails(w, "read")
     THEN Stage(w, <<ServerError>>, "close") /\ Closes(w)
     ELSE /\ Stage(w, Units(page[w], fp[w], n), IF n < CHUNK THEN "fclose" ELSE "data")
          /\ fp' = [fp EXCEPT ![w] = @ + n]
          /\ UNCHANGED fds
  /\ UNCHANGED processes

\* fclose, or close_socket after the relay of a FastCGI answer.
Fclose(w) ==
  /\ At(w, "fclose")
  /\ Stage(w, << >>, "close")
  /\ Closes(w)
  /\ UNCHANGED processes
-----------------------------------------------------------------------------
(* write_http_cgi_response and run_cgi_file                                *)

FindCgi(w) ==
  /\ At(w, "respond") /\ page[w] \in CgiPage
  /\ IF Fails(w, "open") \/ fds = MaxOpen
     THEN Stage(w, <<NotFound>>, "close")
     ELSE Stage(w, << >>, "pipe")
  /\ UNCHANGED <<fp, fds, processes>>

\* pipe() may fail, which is not checked.
Pipe(w) ==
  /\ At(w, "pipe")
  /\ IF fds + 2 =< MaxOpen
     THEN /\ Stage(w, << >>, "fork") /\ Opens(w, 2)
          /\ pipe' = [pipe EXCEPT ![w] = [units |-> 0, w_open |-> TRUE]]
     ELSE Stage(w, << >>, "fork_no_pipe") /\ UNCHANGED <<fp, fds, pipe>>
  /\ UNCHANGED <<child, orphans, leaked>>

\* A child gets a copy of every open descriptor: connections, and the writing ends
\* of pipes that their workers have not closed yet.
Copies == [pipes |-> {v \in Worker : pipe[v].w_open}, conns |-> {c \in 1..accepted : Open(c)}]

Fork(w) ==
  /\ At(w, "fork")
  /\ Stage(w, << >>, "close_w")
  /\ child' = [child EXCEPT ![w] =
       [left |-> Size[page[w]], pipes |-> Copies.pipes, conns |-> Copies.conns]]
  /\ UNCHANGED <<fp, fds, pipe, orphans, leaked>>

\* Without a pipe fds is uninitialised.  As long as it holds no open descriptors
\* close() does nothing, fdopen fails, and the script writes to the standard output
\* of the server; otherwise a descriptor of some worker is closed under it, and what
\* the process does from then on is not followed.
ForkNoPipe(w) ==
  /\ At(w, "fork_no_pipe")
  /\ Stage(w, <<ServerError>>, "close") \/ Stage(w, << >>, "stray")
  /\ orphans' = orphans \cup {Copies}
  /\ UNCHANGED <<fp, fds, child, pipe, leaked>>

Followed == \A w \in Worker : at[w] # "stray"

CloseWriteEnd(w) ==
  /\ At(w, "close_w")
  /\ Stage(w, << >>, "cgi")
  /\ pipe' = [pipe EXCEPT ![w].w_open = FALSE]
  /\ fds' = fds - 1
  /\ UNCHANGED <<fp, child, orphans, leaked>>

NoWriter(w) ==
  /\ ~pipe[w].w_open
  /\ \A v \in Worker : w \notin child[v].pipes
  /\ \A o \in orphans : w \notin o.pipes

\* Mutant: a short read is taken for the end of the output.
Filled_Short(w) == pipe[w].units > 0 \/ NoWriter(w)

\* fread returns a full chunk, or what is left when nobody can write any more.
Filled(w) == pipe[w].units >= CHUNK \/ NoWriter(w)

\* read() of a pipe does not fail: the branch for ferror is left out.
WriteCgiChunk(w) ==
  LET n == Least(CHUNK, pipe[w].units) IN
  /\ At(w, "cgi") /\ Filled(w)
  /\ Stage(w, Units(page[w], fp[w], n), IF n < CHUNK THEN "fclose" ELSE "cgi")
  /\ fp' = [fp EXCEPT ![w] = @ + n]
  /\ pipe' = [pipe EXCEPT ![w].units = @ - n]
  /\ UNCHANGED <<fds, child, orphans, leaked>>

\* The script writes to the pipe it has as standard output, and exits.
Alive(w) == child[w].pipes # {}

NoChild == [left |-> 0, pipes |-> {}, conns |-> {}]

ScriptWrite(w) ==
  /\ Alive(w) /\ child[w].left > 0 /\ pipe[w].units < PIPEBUF
  /\ child' = [child EXCEPT ![w].left = @ - 1]
  /\ pipe' = [pipe EXCEPT ![w].units = @ + 1]
  /\ UNCHANGED <<network, pool, at, locals, orphans, leaked, fds>>

ScriptExit(w) ==
  /\ Alive(w) /\ child[w].left = 0
  /\ child' = [child EXCEPT ![w] = NoChild]
  /\ UNCHANGED <<network, pool, at, locals, pipe, orphans, leaked, fds>>

Script(w) == ScriptWrite(w) \/ ScriptExit(w)

OrphanExit ==
  /\ \E o \in orphans : orphans' = orphans \ {o}
  /\ UNCHANGED <<network, pool, at, locals, child, pipe, leaked, fds>>
-----------------------------------------------------------------------------
(* write_http_fastcgi_response                                             *)

\* socket(), connect() and send().  After a failed connect() or send() nobody
\* closes the new socket.
FastCgiStart(w) ==
  /\ At(w, "respond") /\ page[w] \in FastCgiPage
  /\ \/ /\ fds = MaxOpen
        /\ Stage(w, <<ServerError>>, "close")
        /\ UNCHANGED <<fp, fds, leaked>>
     \/ /\ fds < MaxOpen /\ Fails(w, "open")
        /\ Stage(w, <<ServerError>>, "close")
        /\ fds' = fds + 1 /\ leaked' = leaked + 1
        /\ UNCHANGED fp
     \/ /\ fds < MaxOpen /\ ~Fails(w, "open")
        /\ Stage(w, << >>, "relay") /\ Opens(w, 1)
        /\ UNCHANGED leaked
  /\ UNCHANGED <<child, pipe, orphans>>

\* Mutant: the loop is not left at the end of the answer.
FastCgiRelay_NoBreak(w) ==
  LET n == Least(CHUNK, Size[page[w]] - fp[w]) IN
  /\ At(w, "relay")
  /\ Stage(w, Units(page[w], fp[w], n), "relay")
  /\ fp' = [fp EXCEPT ![w] = @ + n]
  /\ UNCHANGED <<fds, processes>>

\* read() returns a chunk, 0 at the end of the answer, or -1 where it breaks off.
FastCgiRelay(w) ==
  LET n == Least(CHUNK, Size[page[w]] - fp[w]) IN
  /\ At(w, "relay")
  /\ \/ /\ Stage(w, Units(page[w], fp[w], n), IF n = 0 THEN "fclose" ELSE "relay")
        /\ fp' = [fp EXCEPT ![w] = @ + n]
     \/ Broken(page[w]) /\ Stage(w, << >>, "fclose") /\ UNCHANGED fp
  /\ UNCHANGED <<fds, processes>>

\* close(conn_fd), and around the loop of conn_handler.
Close(w) ==
  /\ At(w, "close")
  /\ Pool!Finish(w)
  /\ Goto(w, "remove")
  /\ fds' = fds - 1
  /\ UNCHANGED <<network, accepted, conn_fd, locals, processes>>

handle_request(w) ==
  \/ ReadRequestLine(w) \/ ReadNoRequest(w) \/ ReadError(w) \/ ReadHeader(w) \/ ReadNoHeader(w)
  \/ OpenFile(w) \/ WriteHeader(w) \/ WriteChunk(w) \/ Fclose(w)
  \/ FindCgi(w) \/ Pipe(w) \/ Fork(w) \/ ForkNoPipe(w) \/ CloseWriteEnd(w)
  \/ WriteCgiChunk(w) \/ FastCgiStart(w) \/ FastCgiRelay(w) \/ Send(w)

conn_handler(w) == Take(w) \/ handle_request(w) \/ Close(w)
-----------------------------------------------------------------------------
Init ==
  /\ NetworkInit
  /\ accepted = 0 /\ conn_fd = NoConn
  /\ Pool!Init
  /\ at = [w \in Worker |-> "remove"]
  /\ page = [w \in Worker |-> NoPage]
  /\ temp_buf = [w \in Worker |-> "?"]
  /\ out = [w \in Worker |-> << >>]
  /\ fp = [w \in Worker |-> NULL]
  /\ child = [w \in Worker |-> NoChild]
  /\ pipe = [w \in Worker |-> [units |-> 0, w_open |-> FALSE]]
  /\ orphans = {}
  /\ fds = 0 /\ leaked = 0

\* Everyone waits: main() in accept(), or around a failing one, and every worker
\* in sbuf_remove.
Idle ==
  /\ arrived = MaxConns /\ waiting = << >> /\ conn_fd = NoConn
  /\ accepted = arrived \/ fds = MaxOpen
  /\ \A w \in Worker : at[w] = "remove"

ServerStep ==
  Followed /\ (MainStep \/ \E w \in Worker : conn_handler(w) \/ Script(w))

Next ==
  \/ ClientStep
  \/ ServerStep
  \/ OrphanExit
  \/ (Idle \/ ~Followed) /\ UNCHANGED vars

Spec == Init /\ [][Next]_vars

\* Threads and scripts are scheduled, the FastCGI server answers; a client sends
\* its whole request and reads what it is sent.
FairSpec ==
  /\ Spec
  /\ WF_vars(Followed /\ MainStep)
  /\ \A w \in Worker : WF_vars(Followed /\ conn_handler(w)) /\ WF_vars(Followed /\ Script(w))
  /\ WF_vars(OrphanExit)
  /\ \A c \in Conn : /\ WF_vars(ClientSend(c) /\ UNCHANGED server)
                     /\ WF_vars(ClientRead(c) /\ UNCHANGED server)
-----------------------------------------------------------------------------
\* What worker w holds beside its connection.
Holds(w) ==
  CASE at[w] \in {"seek", "data", "fclose", "cgi", "relay"} -> 1
    [] at[w] \in {"fork", "close_w"} -> 2
    [] OTHER -> 0

\* Every open descriptor of the process is a connection, a file, pipe or socket
\* of the request that a worker is handling, or the socket of a FastCGI request
\* that failed: every other way out of ed_http.c closes what it opened.
DescriptorsAccounted ==
  fds = Cardinality({c \in 1..accepted : Open(c)}) + MapThenSumSet(Holds, Worker) + leaked

WellFormed(f) == f # << >> /\ f[1] = "get" /\ Last(f) = "crlf"

\* The client sees the end of its connection: neither the server nor a script
\* that was forked meanwhile has it open.
Released(c) ==
  /\ c =< accepted /\ ~Open(c)
  /\ \A w \in Worker : c \notin child[w].conns
  /\ \A o \in orphans : c \notin o.conns

\* A client is sent the units of the page it asked for, in order and without a
\* gap, or one error, whatever the other workers and their scripts do; and one
\* that sees the end of its connection has been sent all of it, unless the FastCGI
\* server broke off: the end of a CGI pipe is never taken for the end of the output
\* too early.
MtPagesSentWhole ==
  \A c \in Conn :
    /\ \/ sent[c] = << >> \/ sent[c] \in Errors
       \/ want[c].page \in Page /\ IsPrefix(sent[c], Response(want[c].page))
    /\ Released(c) /\ peer[c] = "open" /\ WellFormed(want[c].form)
         => sent[c] = Response(want[c].page) \/ sent[c] \in Errors \/ Broken(want[c].page)

\* A client that hung up before its request was complete.
CutShort(c) == Gone(c) /\ unsent[c] # << >>

\* Every client that stays sees the end of its response, though scripts hold each
\* other's pipes and connections open (conn_handler, run_cgi_file).  There are three
\* exceptions.  Some client hung up within its request, which may cost a worker.  The
\* sockets of FastCGI requests that failed were never closed, and accept() may have no
\* descriptor left.  A pipe() that failed made run_cgi_file close a descriptor at random.
MtEveryClientServed ==
  \A c \in Conn :
    (c =< arrived) ~> \/ Released(c) \/ peer[c] # "open"
                      \/ \E d \in Conn : CutShort(d)
                      \/ leaked > 0
                      \/ ~Followed

\* "reads an discards request headers until CRLF": reading the headers comes to
\* an end, also when the client is gone.
HeadersReadEnd ==
  \A w \in Worker : (at[w] = "headers") ~> (at[w] # "headers")
=============================================================================
