----------------------------- MODULE EventLoop ------------------------------
(***************************************************************************)
(* The event loop that web_server and amped_server have in common: epoll   *)
(* and the table of clients (ed_epoll_event.c), the callbacks of the       *)
(* listening socket and of the clients' sockets (ed_server.c), and the     *)
(* parts of ed_http.c that are the same in both: the request parser, CGI   *)
(* and FastCGI.  One thread runs it all; clients and the kernel move       *)
(* between any two system calls of it.  epoll_wait reports a batch of      *)
(* events, and the callbacks then run on what was true at that time.       *)
(***************************************************************************)
EXTENDS TcpClients

CONSTANTS
  LOWAT,         \* free units from which epoll reports EPOLLOUT
  MAX_READ,      \* BUF_SIZE_PER_READ, in fragments of a request
  REQUEST_SIZE,  \* fragments the request buffer holds
  Fd,            \* the numbers a client's descriptor may have
  maxfds         \* MAX_ED_EVENTS

ASSUME LoopAssumption ==
  /\ LOWAT \in Nat /\ LOWAT >= CHUNK /\ SNDBUF >= LOWAT
  /\ MAX_READ \in Nat \ {0} /\ REQUEST_SIZE \in Nat \ {0}
  /\ Fd \subseteq Nat \ {0} /\ IsFiniteSet(Fd) /\ maxfds \in Nat
  /\ \A p \in Plan :
       /\ p.open \in Nat
       /\ Cardinality(Fd) >= MaxConns \/ Cardinality(Fd) >= p.open
       /\ \A c \in Conn : \A r \in p.request[c] : r.form \in Seq({"get", "eol", "text", "lf"})

VARIABLES
  accepted,    \* how many clients accept() has returned
  sock,        \* the connection of each open descriptor
  interest,    \* the events epoll watches for on a descriptor, or {} if none
  ed_clients,  \* epoll_obj->ed_clients
  fds_used,    \* epoll_obj->fds_used
  leaked,      \* descriptors that are open but no longer referenced
  batch,       \* the events of the last epoll_wait that are yet to dispatch
  running,     \* "wait", "dispatch", "accept", "relay" or "stray": what the thread does
  relay        \* in a loop that sends chunk after chunk: its descriptor, and the units done

epoll == <<interest, ed_clients, fds_used>>

loop == <<accepted, sock, epoll, leaked, batch, running, relay>>

Listener == 0

-----------------------------------------------------------------------------
ClientStep ==
  /\ \/ Connect
     \/ \E c \in Conn : ClientSend(c) \/ ClientRead(c)
     \/ \E c \in Conn : /\ c > accepted \/ \E fd \in Fd : sock[fd] = c
                        /\ ClientClose(c, {})
  /\ UNCHANGED loop
-----------------------------------------------------------------------------
(* ed_epoll_event.c                                                        *)

Cleared == [callback |-> FALSE, data |-> FALSE, buffer |-> << >>,
            page |-> NoPage, status |-> "START", fp |-> NULL]

\* What epoll reports for a descriptor (level-triggered).
Events(fd) ==
  LET c == sock[fd] IN
  IF interest[fd] = {} THEN {} ELSE
     (IF peer[c] = "reset" THEN {"ERR"} ELSE {})
     \cup (IF peer[c] \in {"reset", "dead"} THEN {"HUP"} ELSE {})
     \cup (IF peer[c] # "open" THEN {"RDHUP"} ELSE {})
     \cup (interest[fd] \cap
            ((IF Room(c) >= LOWAT \/ peer[c] \in {"reset", "dead"}
              THEN {"OUT"} ELSE {})
             \cup (IF rcv[c] # << >> \/ peer[c] # "open" THEN {"IN"} ELSE {})))

\* ed_epoll_dispatch_events: epoll_wait fetches every ready descriptor, with the
\* events of descriptors other than the clients' and the listening one.  An
\* event keeps the connection it is about, for the properties only.
EpollWait(others) ==
  LET ready == {fd \in Fd : Events(fd) # {}}
      accepts == IF accepted < arrived THEN {Listener} ELSE {}
  IN /\ running = "wait"
     /\ batch' = [fd \in ready \cup accepts \cup DOMAIN others |->
                   CASE fd \in ready -> [mask |-> Events(fd), conn |-> sock[fd]]
                     [] fd = Listener -> [mask |-> {"IN"}, conn |-> NoConn]
                     [] OTHER -> others[fd]]
     /\ DOMAIN batch' # {}
     /\ running' = "dispatch"
     /\ UNCHANGED <<network, accepted, sock, epoll, leaked, relay>>

\* Mutant: events that were handled are dispatched again.
Next_event_Again(fd) == batch' = batch /\ running' \in {"wait", "dispatch"}

\* The callback of an event has returned: the next event, or epoll_wait.
Next_event(fd) ==
  /\ batch' = [f \in DOMAIN batch \ {fd} |-> batch[f]]
  /\ running' = IF DOMAIN batch = {fd} THEN "wait" ELSE "dispatch"

\* Mutant: a descriptor is counted before it is refused.
ed_epoll_add_CountFirst(fd) ==
  /\ fds_used' = fds_used + 1
  /\ IF fd < maxfds
     THEN /\ interest' = [interest EXCEPT ![fd] = {"IN", "OUT"}]
          /\ ed_clients' = [ed_clients EXCEPT ![fd].callback = TRUE, ![fd].data = FALSE]
     ELSE UNCHANGED <<interest, ed_clients>>

\* ed_epoll_add; a descriptor from maxfds on is refused, and stays open.
ed_epoll_add(fd) ==
  IF fd < maxfds
  THEN /\ interest' = [interest EXCEPT ![fd] = {"IN", "OUT"}]
       /\ fds_used' = fds_used + 1
       /\ ed_clients' = [ed_clients EXCEPT ![fd].callback = TRUE, ![fd].data = FALSE]
  ELSE UNCHANGED epoll

ed_epoll_set(fd, code, client, data) ==
  /\ interest' = [interest EXCEPT ![fd] = {code}]
  /\ ed_clients' = [ed_clients EXCEPT ![fd] = [client EXCEPT !.data = data]]
  /\ UNCHANGED fds_used

\* Mutant: http_req is left as it is.
ed_epoll_del_KeepRequest(fd, lost) ==
  /\ interest' = [interest EXCEPT ![fd] = {}]
  /\ ed_clients' = [ed_clients EXCEPT ![fd].callback = FALSE, ![fd].data = FALSE,
                                      ![fd].buffer = << >>]
  /\ fds_used' = fds_used - 1
  /\ sock' = [sock EXCEPT ![fd] = NoConn]
  /\ leaked' = leaked

\* ed_epoll_del and close_socket, which always go together.  The record of the
\* client is wiped without fclose: a descriptor that is still open is lost.
ed_epoll_del(fd, lost) ==
  /\ interest' = [interest EXCEPT ![fd] = {}]
  /\ ed_clients' = [ed_clients EXCEPT ![fd] = Cleared]
  /\ fds_used' = fds_used - 1
  /\ sock' = [sock EXCEPT ![fd] = NoConn]
  /\ leaked' = IF lost THEN leaked + 1 ELSE leaked
-----------------------------------------------------------------------------
(* ed_accept_callback                                                      *)

FilesOpen == leaked + Cardinality({fd \in Fd : ed_clients[fd].fp # NULL})

\* The descriptors of clients, the files and pipes of responses and the lost
\* ones count against the limit of the process.
DescriptorsLeft(k) ==
  Cardinality({fd \in Fd : sock[fd] # NoConn}) + FilesOpen + k =< plan.open

StartAccepting ==
  /\ running = "dispatch" /\ Listener \in DOMAIN batch /\ fds_used > 0
  /\ running' = "accept"
  /\ UNCHANGED <<network, accepted, sock, epoll, leaked, batch, relay>>

AcceptOne ==
  /\ running = "accept" /\ accepted < arrived /\ DescriptorsLeft(1)
  /\ accepted' = accepted + 1
  /\ \E fd \in Fd : /\ sock[fd] = NoConn
                    /\ sock' = [sock EXCEPT ![fd] = accepted + 1]
                    /\ ed_epoll_add(fd)
  /\ UNCHANGED <<network, leaked, batch, running, relay>>

\* EAGAIN, or an error such as EMFILE: the loop is left either way.
StopAccepting ==
  /\ running = "accept" /\ (accepted = arrived \/ ~DescriptorsLeft(1))
  /\ Next_event(Listener)
  /\ UNCHANGED <<network, accepted, sock, epoll, leaked, relay>>
-----------------------------------------------------------------------------
(* The response state machine of ed_http.c.  A stage yields the new record *)
(* of the client and the units to send.                                    *)

Stage(client, out) == [client |-> client, out |-> out]

\* Mutant: fclose is forgotten.
Finish_NoFclose(client, out) == Stage([client EXCEPT !.status = "FINISH"], out)

Finish(client, out) == Stage([client EXCEPT !.status = "FINISH", !.fp = NULL], out)

Reach(client, status, out) == Stage([client EXCEPT !.status = status], out)

\* fread of a chunk at the position of the file or pipe, and whether it met
\* the end: only a short read does.
Chunk(client) ==
  LET n == Least(CHUNK, Size[client.page] - client.fp)
  IN [out |-> Units(client.page, client.fp, n), eof |-> n < CHUNK, to |-> client.fp + n]

FindCgi(client) ==
  IF FailsAt[client.page] # "open" /\ DescriptorsLeft(1)
  THEN Reach(client, "CGI_FILE_FOUND", << >>)
  ELSE Finish(client, <<NotFound>>)

\* run_cgi_file: pipe, fork and fdopen.  A failed pipe() goes unnoticed, and fds is
\* uninitialised: as long as it holds no open descriptors close() does nothing and
\* fdopen fails.  The child that is forked all the same has no part in what follows.
RunCgi(client) ==
  IF DescriptorsLeft(2)
  THEN Stage([client EXCEPT !.status = "CGI_PROC_RUNNING", !.fp = 0], << >>)
  ELSE Finish(client, <<ServerError>>)

WriteCgiChunk(client) ==
  IF FailsAt[client.page] = "read" THEN Finish(client, << >>)
  ELSE IF Chunk(client).eof THEN Finish(client, Chunk(client).out)
  ELSE Stage([client EXCEPT !.status = "CGI_RESPONSE_WRITING", !.fp = Chunk(client).to],
             Chunk(client).out)

-----------------------------------------------------------------------------
(* ed_socket_callback: EPOLLERR, EPOLLHUP and EPOLLRDHUP, EPOLLOUT and     *)
(* EPOLLIN are tested in this order, and the first one set decides.        *)

First(mask) ==
  CASE "ERR" \in mask -> "ERR"
    [] "ERR" \notin mask /\ mask \cap {"HUP", "RDHUP"} # {} -> "HUP"
    [] mask \subseteq {"OUT", "IN"} /\ "OUT" \in mask -> "OUT"
    [] OTHER -> "IN"

Callback(fd, event) ==
  /\ running = "dispatch" /\ fd \in DOMAIN batch /\ fds_used > 0
  /\ First(batch[fd].mask) = event

OnError(fd) ==
  /\ Callback(fd, "ERR")
  /\ Next_event(fd)
  /\ UNCHANGED <<network, accepted, sock, epoll, leaked, relay>>

OnHangup(fd) ==
  /\ Callback(fd, "HUP")
  /\ ed_epoll_del(fd, ed_clients[fd].fp # NULL)
  /\ Next_event(fd)
  /\ UNCHANGED <<network, accepted, relay>>

\* Mutant: EPOLLOUT stays on.
OnWritableIdle_KeepsOut(fd) ==
  /\ Callback(fd, "OUT") /\ ~ed_clients[fd].data
  /\ Next_event(fd)
  /\ UNCHANGED <<network, accepted, sock, epoll, leaked, relay>>

OnWritableIdle(fd) ==
  /\ Callback(fd, "OUT") /\ ~ed_clients[fd].data
  /\ ed_epoll_set(fd, "IN", ed_clients[fd], FALSE)
  /\ Next_event(fd)
  /\ UNCHANGED <<network, accepted, sock, leaked, relay>>

\* A stage of the response, and the end of the connection with the last one.
Respond(fd, stage) ==
  /\ Transmit(sock[fd], stage.out)
  /\ IF stage.client.status = "FINISH"
     THEN ed_epoll_del(fd, stage.client.fp # NULL)
     ELSE /\ ed_clients' = [ed_clients EXCEPT ![fd] = stage.client]
          /\ UNCHANGED <<interest, fds_used, sock, leaked>>
  /\ Next_event(fd)
  /\ UNCHANGED <<accepted, relay>>

\* A failed pipe() left the number of an open descriptor in fds: run_cgi_file closes
\* it under whoever uses it, or takes it for the output of the script.  What the
\* process does from then on is not followed.
StrayPipe(fd) ==
  /\ Callback(fd, "OUT") /\ ed_clients[fd].data
  /\ ed_clients[fd].status = "CGI_FILE_FOUND" /\ ~DescriptorsLeft(2)
  /\ running' = "stray"
  /\ batch' = << >>
  /\ UNCHANGED <<network, accepted, sock, epoll, leaked, relay>>

FastCgiRequested(client) == client.status = "START" /\ client.page \in FastCgiPage

\* The regular expression of process_http_request matches once the request
\* line is there and the buffer ends with a line end.
process_http_request(buffer) ==
  /\ Len(buffer) >= 2 /\ buffer[1] = "get" /\ buffer[2] = "eol"
  /\ Last(buffer) = "eol"

Max_read(client) == Least(MAX_READ, REQUEST_SIZE - Len(client.buffer))

\* One read into the free part of the buffer, then the parser.  EPOLLIN without
\* EPOLLERR or EPOLLRDHUP was reported for data, and only this thread reads it:
\* it is still there, even if the client has reset the connection since, so the
\* branch for n == -1, which only logs, is not reached.
OnReadable(fd) ==
  LET c == sock[fd]
      client == ed_clients[fd]
      n == Least(Max_read(client), Len(rcv[c]))
      buffer == client.buffer \o SubSeq(rcv[c], 1, n)
      read == [client EXCEPT !.buffer = buffer]
  IN /\ Callback(fd, "IN")
     /\ Receive(c, n)
     /\ \/ /\ process_http_request(buffer)
           /\ ed_epoll_set(fd, "OUT", [read EXCEPT !.page = want[c].page], TRUE)
           /\ UNCHANGED <<sock, leaked>>
        \/ /\ ~process_http_request(buffer) /\ buffer # << >> /\ Last(buffer) \in {"eol", "lf"}
           /\ ed_epoll_del(fd, client.fp # NULL)
        \/ /\ ~process_http_request(buffer)
           /\ buffer = << >> \/ Last(buffer) \notin {"eol", "lf"}
           /\ ed_clients' = [ed_clients EXCEPT ![fd] = read]
           /\ UNCHANGED <<interest, fds_used, sock, leaked>>
     /\ Next_event(fd)
     /\ UNCHANGED <<accepted, relay>>
-----------------------------------------------------------------------------
(* write_http_fastcgi_response: the thread connects to the FastCGI server, *)
(* sends the request and relays the answer chunk by chunk, blocking in     *)
(* read(); only the client's socket is non-blocking.                       *)

FastCgiStart(fd) ==
  /\ Callback(fd, "OUT") /\ ed_clients[fd].data /\ FastCgiRequested(ed_clients[fd])
  /\ DescriptorsLeft(1) /\ FailsAt[ed_clients[fd].page] # "open"
  /\ running' = "relay"
  /\ relay' = [fd |-> fd, done |-> 0]
  /\ UNCHANGED <<network, accepted, sock, epoll, leaked, batch>>

\* socket(), connect() or send() fails: 500, and the request is finished.  After
\* a failed connect() or send() nobody closes the new socket.
FastCgiFails(fd) ==
  /\ Callback(fd, "OUT") /\ ed_clients[fd].data /\ FastCgiRequested(ed_clients[fd])
  /\ ~DescriptorsLeft(1) \/ FailsAt[ed_clients[fd].page] = "open"
  /\ Transmit(sock[fd], <<ServerError>>)
  /\ ed_epoll_del(fd, DescriptorsLeft(1))
  /\ Next_event(fd)
  /\ UNCHANGED <<accepted, relay>>

FastCgiRelay ==
  LET fd == relay.fd
      p == ed_clients[fd].page
      n == Least(CHUNK, Size[p] - relay.done)
  IN /\ running = "relay" /\ n > 0
     /\ Transmit(sock[fd], Units(p, relay.done, n))
     /\ relay' = [relay EXCEPT !.done = @ + n]
     /\ UNCHANGED <<accepted, sock, epoll, leaked, batch, running>>

\* read() returns 0 at the end of the answer, or -1 where the connection breaks.
FastCgiEnd ==
  LET p == ed_clients[relay.fd].page IN
  /\ running = "relay" /\ (relay.done = Size[p] \/ Broken(p))
  /\ ed_epoll_del(relay.fd, FALSE)
  /\ Next_event(relay.fd)
  /\ relay' = [fd |-> NoConn, done |-> 0]
  /\ UNCHANGED <<network, accepted>>
-----------------------------------------------------------------------------
\* ed_epoll_init and main(), with some descriptors already in the epoll set.
LoopInit(others) ==
  /\ NetworkInit
  /\ accepted = 0
  /\ sock = [fd \in Fd |-> NoConn]
  /\ interest = [fd \in Fd |-> {}]
  /\ ed_clients = [fd \in Fd |-> Cleared]
  /\ fds_used = 1 + others
  /\ leaked = 0
  /\ batch = << >>
  /\ running = "wait"
  /\ relay = [fd |-> NoConn, done |-> 0]

AcceptCallback == StartAccepting \/ AcceptOne \/ StopAccepting

\* ed_socket_callback up to the stages of a response.
SocketCallback(fd) ==
  \/ OnError(fd) \/ OnHangup(fd) \/ OnWritableIdle(fd)
  \/ OnReadable(fd)
-----------------------------------------------------------------------------
Closed(c) == c =< accepted /\ \A fd \in Fd : sock[fd] # c

\* A request whose lines all end in CRLF and that fits the buffer.
WellFormed(f) ==
  /\ Len(f) >= 2 /\ f[1] = "get" /\ f[2] = "eol"
  /\ \A i \in 1..Len(f) : f[i] # "lf"
  /\ Last(f) = "eol" /\ Len(f) =< REQUEST_SIZE
=============================================================================
