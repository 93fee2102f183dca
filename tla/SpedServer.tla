----------------------------- MODULE SpedServer -----------------------------
(***************************************************************************)
(* The single-process event-driven server of web_server: the event loop,   *)
(* and the stages in which its thread itself reads a file and sends it, a  *)
(* chunk for every EPOLLOUT (ed_http.c).                                   *)
(***************************************************************************)
EXTENDS EventLoop

vars == <<network, loop>>
-----------------------------------------------------------------------------
(* A stage yields the new record of the client and the units to send.      *)

FindFile(client) ==
  IF FailsAt[client.page] # "open" /\ DescriptorsLeft(1)
  THEN Stage([client EXCEPT !.status = "FILE_FOUND", !.fp = 0], << >>)
  ELSE Finish(client, <<NotFound>>)

WriteHeader(client) ==
  IF FailsAt[client.page] = "seek" THEN Finish(client, <<ServerError>>)
  ELSE Reach(client, "HEADER_WRITTEN", <<Header>>)

WriteChunk(client) ==
  IF FailsAt[client.page] = "read" THEN Finish(client, <<ServerError>>)
  ELSE IF Chunk(client).eof THEN Finish(client, Chunk(client).out)
  ELSE Stage([client EXCEPT !.status = "DATA_WRITING", !.fp = Chunk(client).to],
             Chunk(client).out)

\* write_http_response and write_http_cgi_response, by status.
write_http_response(client) ==
  CASE client.status = "START" /\ client.page \in CgiPage -> FindCgi(client)
    [] client.status = "START" /\ client.page \in FilePage -> FindFile(client)
    [] client.status = "FILE_FOUND" -> WriteHeader(client)
    [] client.status \in {"HEADER_WRITTEN", "DATA_WRITING"} -> WriteChunk(client)
    [] client.status = "CGI_FILE_FOUND" -> RunCgi(client)
    [] client.status \in {"CGI_PROC_RUNNING", "CGI_RESPONSE_WRITING"} -> WriteCgiChunk(client)

OnWritable(fd) ==
  /\ Callback(fd, "OUT") /\ ed_clients[fd].data /\ ~FastCgiRequested(ed_clients[fd])
  /\ Respond(fd, write_http_response(ed_clients[fd]))
-----------------------------------------------------------------------------
Init == LoopInit(0)

ServerStep ==
  \/ EpollWait(<< >>) \/ AcceptCallback
  \/ \E fd \in Fd : \/ SocketCallback(fd) \/ OnWritable(fd) \/ StrayPipe(fd)
                     \/ FastCgiStart(fd) \/ FastCgiFails(fd)
  \/ FastCgiRelay \/ FastCgiEnd

\* The loop has something to do: it is in the middle of a batch, or epoll_wait
\* would return an event.
Runnable ==
  /\ running # "stray"
  /\ running = "wait" => accepted < arrived \/ \E fd \in Fd : Events(fd) # {}

\* epoll_wait returns after EVENT_WAIT_TIMEOUT with no event.
Timeout == ~Runnable /\ UNCHANGED vars

Next == ClientStep \/ ServerStep \/ Timeout

Spec == Init /\ [][Next]_vars

\* The process is scheduled and the FastCGI server answers; a client sends its
\* whole request and reads what it is sent.  Weak fairness, the guard of the loop
\* written out and its steps told by "loop", which every one of them changes and
\* no client does.
FairSpec ==
  /\ Spec
  /\ <>[]Runnable => []<><<TRUE>>_loop
  /\ \A c \in Conn : /\ WF_vars(ClientSend(c) /\ UNCHANGED loop)
                     /\ WF_vars(ClientRead(c) /\ UNCHANGED loop)
-----------------------------------------------------------------------------
\* "how come for event_fd": the callback of every event still to dispatch is
\* set, and its descriptor still is the connection the event was reported for,
\* whatever the callbacks before it in the batch closed and accepted.
DispatchesLiveClient ==
  \A fd \in DOMAIN batch \ {Listener} :
    ed_clients[fd].callback /\ sock[fd] = batch[fd].conn

\* fds_used, on which the dispatcher decides to ignore events, is the number of
\* descriptors in the epoll set, the listening one included.
FdsUsedCounted ==
  fds_used = 1 + Cardinality({fd \in Fd : interest[fd] # {}})

Staged(c) == want[c].page \in FilePage \cup CgiPage

\* A client of a file or CGI page is sent the units of the page it asked for,
\* in order and without a gap, or one error: never a unit of another page,
\* though descriptors and their ed_clients records are used again.  When the
\* server closes a connection whose client is still there, it has sent the whole
\* page, or an error; a request whose lines all end in CRLF is never taken for an
\* illegal one, however its fragments arrive.
PagesSentWhole ==
  \A c \in Conn : Staged(c) =>
    /\ IsPrefix(sent[c], Response(want[c].page)) \/ sent[c] \in Errors
    /\ WellFormed(want[c].form) /\ Closed(c) /\ peer[c] = "open"
         => sent[c] = Response(want[c].page) \/ sent[c] \in Errors

\* A descriptor is lost only with the connection of a client that hung up, or
\* with a FastCGI request that failed: every other way out of the state machine
\* of ed_http.c closes its file, and no connection loses more than one.
LeakedOnlyByHangup ==
  leaked =< Cardinality({c \in Conn :
    Gone(c) \/ want[c].page \in FastCgiPage})

\* "this response written back to http client": a client of a FastCGI page that
\* stays is sent all of it before the server closes the connection, unless the
\* FastCGI server breaks off.
FastCgiRelayedWhole ==
  \A c \in Conn :
    want[c].page \in FastCgiPage /\ ~Broken(want[c].page)
      /\ WellFormed(want[c].form) /\ Closed(c) /\ peer[c] = "open"
      => sent[c] = Response(want[c].page) \/ sent[c] \in Errors

\* A connection that ed_epoll_add refused stays open and is never looked at.
Refused(c) == \E fd \in Fd : sock[fd] = c /\ fd >= maxfds

\* Every client with a well-formed request that stays is served and its
\* connection closed, unless its descriptor is one that ed_epoll_add refuses, or a
\* pipe() that failed made run_cgi_file close a descriptor at random.
EveryClientServed ==
  \A c \in Conn : (c =< arrived /\ WellFormed(want[c].form))
                    ~> (Closed(c) \/ peer[c] # "open" \/ Refused(c) \/ running = "stray")
=============================================================================
