----------------------------- MODULE AmpedServer ----------------------------
(***************************************************************************)
(* The asymmetric multi-process server of amped_server: the event loop,    *)
(* with helper processes (reader_slave.c) that copy a file into a shared   *)
(* memory segment so that the loop itself never waits for the disk.  The   *)
(* loop sends a helper "key size path" over a socket pair, the helper      *)
(* answers "done", and the loop then sends the segment to the client.      *)
(*                                                                         *)
(* Two pointers of the code outlive what they point to, and are modelled   *)
(* as what they then mean.  hi_client points to a record of ed_clients,    *)
(* which the next connection on that descriptor uses again.  The path      *)
(* given to ed_epoll_set for a helper is the array file_path of a call of  *)
(* write_http_response that has returned by the time the path is read:     *)
(* the next call puts its own path at that place, and any other function   *)
(* may leave garbage there.                                                *)
(*                                                                         *)
(* "aborted" is the end of the main process, by assert(0) or by a memory   *)
(* fault.                                                                  *)
(***************************************************************************)
EXTENDS EventLoop, FiniteSetsExt

ASSUME AmpedAssumption ==
  /\ \A p \in Plan : p.helpers \in Nat \ {0} /\ Fd \cap 1..p.helpers = {}
  /\ \A p \in FilePage : FailsAt[p] # "read"

N_HELPER_PROCS == plan.helpers

\* The descriptors of the helpers are the first that main() opens.
Helper == 1..N_HELPER_PROCS

VARIABLES
  hi_client,      \* helper_info[h].hi_client: a descriptor's record, or NULL
  helpers_inuse,
  key,            \* epoll_obj->key, the next key
  client_key,     \* ed_clients[fd].key
  file_path,      \* what is at the place that the data of the helpers points to
  helper,         \* each helper: its process and its socket pair
  shm,            \* the shared memory segment of each key
  misled          \* history: some helper was sent a path that is not its client's

pool == <<hi_client, helpers_inuse, key, client_key>>

amped == <<pool, file_path, helper, shm, misled>>

vars == <<network, loop, amped>>

Garbage == "garbage"

NoSegment == [page |-> NoPage, full |-> FALSE]

\* What a call leaves at the place of file_path, which matters only as long as
\* some helper's data points to it: write_http_response its own path, any other
\* function what was there or garbage.
Leave(path) == file_path' = IF \E h \in Helper : helper'[h].data THEN path ELSE Garbage

Clobber == Leave(file_path) \/ Leave(Garbage)

\* assert(0), or a memory fault.
Abort ==
  /\ running' = "aborted"
  /\ batch' = << >>
  /\ UNCHANGED <<network, accepted, sock, epoll, leaked, relay, amped>>
-----------------------------------------------------------------------------
(* helper_info                                                             *)

\* hi_get_next_helper: the first that is free, or -1.
hi_get_next_helper ==
  LET free == {h \in Helper : hi_client[h] = NULL}
  IN IF free = {} THEN NULL ELSE Min(free)

\* hi_get_helper_for_fd: the first whose client is the record of fd, or -1.
hi_get_helper_for_fd(fd) ==
  LET busy == {h \in Helper : hi_client[h] = fd}
  IN IF busy = {} THEN NULL ELSE Min(busy)

\* Mutant: the helper is taken but not counted.
Associate_NotCounted(fd, h) ==
  /\ hi_client' = [hi_client EXCEPT ![h] = fd]
  /\ key' = key + 1
  /\ client_key' = [client_key EXCEPT ![fd] = key]
  /\ helper' = [helper EXCEPT ![h].interest = {"OUT"}, ![h].data = TRUE]
  /\ UNCHANGED <<helpers_inuse, shm, misled>>

\* A helper gets a client, the client a key, and epoll is to report when the
\* request can be written to the helper.
Associate(fd, h) ==
  /\ hi_client' = [hi_client EXCEPT ![h] = fd]
  /\ helpers_inuse' = helpers_inuse + 1
  /\ key' = key + 1
  /\ client_key' = [client_key EXCEPT ![fd] = key]
  /\ helper' = [helper EXCEPT ![h].interest = {"OUT"}, ![h].data = TRUE]
  /\ UNCHANGED <<shm, misled>>
-----------------------------------------------------------------------------
(* write_http_response, called for EPOLLOUT on a client's socket           *)

Writable(fd) ==
  Callback(fd, "OUT") /\ ed_clients[fd].data /\ ~FastCgiRequested(ed_clients[fd])

OpenFile(client) ==
  IF FailsAt[client.page] # "open" /\ DescriptorsLeft(1)
  THEN Stage([client EXCEPT !.status = "FILE_FOUND", !.fp = 0, !.buffer = << >>], << >>)
  ELSE Finish(client, <<NotFound>>)

\* The stages that no helper has a part in.  A status that the code has no
\* branch for is left as it is, CGI_RESPONSE_WRITING among them.
Unassisted(client) ==
  CASE client.status = "START" /\ client.page \in CgiPage -> FindCgi(client)
    [] client.status = "START" /\ client.page \in FilePage -> OpenFile(client)
    [] client.status = "CGI_FILE_FOUND" -> RunCgi(client)
    [] client.status = "CGI_PROC_RUNNING" -> WriteCgiChunk(client)
    [] OTHER -> Stage(client, << >>)

OnUnassisted(fd) ==
  /\ Writable(fd)
  /\ ed_clients[fd].status \in {"START", "CGI_FILE_FOUND", "CGI_PROC_RUNNING",
                                "CGI_RESPONSE_WRITING", "HEADER_WRITTEN"}
  /\ Respond(fd, Unassisted(ed_clients[fd]))
  /\ UNCHANGED <<pool, helper, shm, misled>>

\* The size is known and the header sent; the file itself is for a helper.
WriteHeader(fd) ==
  LET sized == [ed_clients[fd] EXCEPT !.fp = NULL]
      h == hi_get_next_helper
  IN /\ Writable(fd) /\ ed_clients[fd].status = "FILE_FOUND"
     /\ \/ /\ FailsAt[sized.page] = "seek"
           /\ Respond(fd, Finish(sized, <<ServerError>>))
           /\ UNCHANGED <<pool, helper, shm, misled>>
        \/ /\ FailsAt[sized.page] # "seek" /\ h = NULL
           /\ Respond(fd, Reach(sized, "WAITLISTED", <<Header>>))
           /\ UNCHANGED <<pool, helper, shm, misled>>
        \/ /\ FailsAt[sized.page] # "seek" /\ h # NULL
           /\ Respond(fd, Reach(sized, "HEADER_WRITTEN", <<Header>>))
           /\ Associate(fd, h)

\* Mutant: a client that was put off is never looked at again.
Waitlisted_Forgotten(fd) ==
  /\ Writable(fd) /\ ed_clients[fd].status = "WAITLISTED"
  /\ Respond(fd, Stage(ed_clients[fd], << >>))
  /\ UNCHANGED <<pool, helper, shm, misled>>

\* A client that was put off looks again, every time it can be written to.
Waitlisted(fd) ==
  /\ Writable(fd) /\ ed_clients[fd].status = "WAITLISTED"
  /\ \/ /\ helpers_inuse = N_HELPER_PROCS
        /\ Respond(fd, Stage(ed_clients[fd], << >>))
        /\ UNCHANGED <<pool, helper, shm, misled>>
     \/ /\ helpers_inuse # N_HELPER_PROCS
        /\ Respond(fd, Reach(ed_clients[fd], "HEADER_WRITTEN", << >>))
        /\ Associate(fd, hi_get_next_helper)

\* Mutant: the segment is taken to be there without waiting for "done".
MapRequested_NoWait(fd) ==
  /\ Writable(fd) /\ ed_clients[fd].status = "MAP_REQUESTED"
  /\ Respond(fd, Reach(ed_clients[fd], "DATA_WRITING", << >>))
  /\ UNCHANGED <<pool, helper, shm, misled>>

MapRequested(fd) ==
  LET client == ed_clients[fd] IN
  /\ Writable(fd) /\ client.status = "MAP_REQUESTED"
  /\ Respond(fd, IF client.buffer # << >> /\ Head(client.buffer) = "done"
                 THEN Reach(client, "DATA_WRITING", << >>) ELSE Stage(client, << >>))
  /\ UNCHANGED <<pool, helper, shm, misled>>

\* shmget and shmat; without a segment the loop copies from address -1.
StartWriting(fd) ==
  /\ Writable(fd) /\ ed_clients[fd].status = "DATA_WRITING"
  /\ shm[client_key[fd]] # NoSegment
  /\ running' = "mapped"
  /\ relay' = [fd |-> fd, done |-> 0]
  /\ UNCHANGED <<network, accepted, sock, epoll, leaked, batch, pool, helper, shm, misled>>

StartWritingFault(fd) ==
  /\ Callback(fd, "OUT") /\ ed_clients[fd].data /\ ed_clients[fd].status = "DATA_WRITING"
  /\ shm[client_key[fd]] = NoSegment
  /\ Abort

\* What lies at a place of a segment: zeros where nothing was copied to.
Mapped(segment, from, n) ==
  [i \in 1..n |-> IF segment.full /\ from + i =< Size[segment.page]
                  THEN <<segment.page, from + i>> ELSE <<NoPage, from + i>>]

\* Mutant: what is left after the last whole chunk is not sent.
WriteMapped_NoRemainder ==
  LET fd == relay.fd
      n == Least(CHUNK, Size[ed_clients[fd].page] - relay.done)
  IN /\ running = "mapped" /\ n > 0
     /\ Transmit(sock[fd], IF n < CHUNK THEN << >>
                           ELSE Mapped(shm[client_key[fd]], relay.done, n))
     /\ relay' = [relay EXCEPT !.done = @ + n]
     /\ UNCHANGED <<accepted, sock, epoll, leaked, batch, running, amped>>

\* The chunks are sent one after the other in the same call.
WriteMapped ==
  LET fd == relay.fd
      n == Least(CHUNK, Size[ed_clients[fd].page] - relay.done)
  IN /\ running = "mapped" /\ n > 0
     /\ Transmit(sock[fd], Mapped(shm[client_key[fd]], relay.done, n))
     /\ relay' = [relay EXCEPT !.done = @ + n]
     /\ UNCHANGED <<accepted, sock, epoll, leaked, batch, running, amped>>

\* Mutant: the segment is not removed.
EndWriting_KeepsSegment ==
  LET fd == relay.fd IN
  /\ running = "mapped" /\ relay.done = Size[ed_clients[fd].page]
  /\ hi_client' = [hi_client EXCEPT ![hi_get_helper_for_fd(fd)] = NULL]
  /\ helpers_inuse' = helpers_inuse - 1
  /\ ed_epoll_del(fd, FALSE)
  /\ Next_event(fd)
  /\ relay' = [fd |-> NoConn, done |-> 0]
  /\ UNCHANGED <<network, accepted, key, client_key, file_path, helper, shm, misled>>

\* The segment is removed and detached, the helper freed, the client finished.
\* The assert that a helper is found never fails (HelpersAccounted).
EndWriting ==
  LET fd == relay.fd IN
  /\ running = "mapped" /\ relay.done = Size[ed_clients[fd].page]
  /\ shm' = [shm EXCEPT ![client_key[fd]] = NoSegment]
  /\ hi_client' = [hi_client EXCEPT ![hi_get_helper_for_fd(fd)] = NULL]
  /\ helpers_inuse' = helpers_inuse - 1
  /\ ed_epoll_del(fd, FALSE)
  /\ Next_event(fd)
  /\ relay' = [fd |-> NoConn, done |-> 0]
  /\ UNCHANGED <<network, accepted, key, client_key, file_path, helper, misled>>
-----------------------------------------------------------------------------
(* ed_reader_callback: the events of a helper's socket                     *)

\* A helper that exits with a request unread resets the connection.
HelperEvents(h) ==
  IF helper[h].at = "exited"
  THEN {"HUP"} \cup (IF helper[h].inbox # << >> THEN {"ERR"} ELSE {})
  ELSE helper[h].interest \cap ({"OUT"} \cup (IF helper[h].replies > 0 THEN {"IN"} ELSE {}))

ReaderCallback(h, event) ==
  /\ running = "dispatch" /\ h \in DOMAIN batch /\ fds_used > 0
  /\ First(batch[h].mask) = event

\* EPOLLERR, and EPOLLOUT while there is no request or no client.
ReaderIgnores(h) ==
  /\ \/ ReaderCallback(h, "ERR")
     \/ ReaderCallback(h, "OUT") /\ (~helper[h].data \/ hi_client[h] = NULL)
  /\ Next_event(h)
  /\ UNCHANGED <<network, accepted, sock, epoll, leaked, relay, amped>>

ReaderHangup(h) == ReaderCallback(h, "HUP") /\ Abort

ReaderWritable(h) ==
  ReaderCallback(h, "OUT") /\ helper[h].data /\ hi_client[h] # NULL

\* The request was written by an earlier call: wait for the answer.
ReaderWaits(h) ==
  /\ ReaderWritable(h) /\ ed_clients[hi_client[h]].status # "HEADER_WRITTEN"
  /\ helper' = [helper EXCEPT ![h].interest = {"IN"}, ![h].data = FALSE]
  /\ Leave(file_path)
  /\ Next_event(h)
  /\ UNCHANGED <<network, accepted, sock, epoll, leaked, relay, pool, shm, misled>>

\* "key size path": page stands for the size.  If the helper has exited since
\* epoll_wait, nobody is there to read it and write() fails.
ReaderRequests(h) ==
  LET fd == hi_client[h]
      request == [key |-> client_key[fd], page |-> ed_clients[fd].page, path |-> file_path]
  IN /\ ReaderWritable(h) /\ ed_clients[fd].status = "HEADER_WRITTEN"
     /\ IF helper[h].at = "exited" THEN Abort
        ELSE /\ helper' = [helper EXCEPT ![h].inbox = Append(@, request)]
             /\ misled' = (misled \/ request.path # request.page)
             /\ ed_clients' = [ed_clients EXCEPT ![fd].status = "MAP_REQUESTED"]
             /\ Clobber
             /\ Next_event(h)
             /\ UNCHANGED <<network, accepted, sock, interest, fds_used, leaked, relay, pool, shm>>

Waiting(h) == hi_client[h] # NULL /\ ed_clients[hi_client[h]].status = "MAP_REQUESTED"

ReaderReply(h) ==
  /\ ReaderCallback(h, "IN") /\ Waiting(h)
  /\ ed_clients' = [ed_clients EXCEPT ![hi_client[h]].buffer = Append(@, "done")]
  /\ helper' = [helper EXCEPT ![h].replies = 0]
  /\ Next_event(h)
  /\ UNCHANGED <<network, accepted, sock, interest, fds_used, leaked, relay, pool,
                 file_path, shm, misled>>

\* "why is there data to be read but process is not waiting?"
ReaderReplyUnexpected(h) == ReaderCallback(h, "IN") /\ ~Waiting(h) /\ Abort

ed_reader_callback(h) ==
  \/ ReaderIgnores(h) \/ ReaderHangup(h) \/ ReaderWaits(h) \/ ReaderRequests(h)
  \/ ReaderReply(h) \/ ReaderReplyUnexpected(h)
-----------------------------------------------------------------------------
(* reader_slave.c                                                          *)

\* One read() takes all that was sent; sscanf sees the first request of it.
HelperRead(h) ==
  LET request == Head(helper[h].inbox) IN
  /\ helper[h].at = "read" /\ helper[h].inbox # << >>
  /\ helper' = [helper EXCEPT ![h].inbox = << >>, ![h].job = request,
                              ![h].at = IF request.path = Garbage THEN "exited" ELSE "map"]
  /\ UNCHANGED <<network, loop, pool, file_path, shm, misled>>

\* fopen and shmget: a segment of no bytes is refused, and a file that could not
\* be opened is found out by the memory fault of feof(NULL).
HelperMap(h) ==
  LET job == helper[h].job
      opened == job.path \in FilePage \cup CgiPage /\ FailsAt[job.path] # "open"
  IN /\ helper[h].at = "map"
     /\ shm' = IF Size[job.page] = 0 THEN shm
               ELSE [shm EXCEPT ![job.key] = [page |-> job.path, full |-> FALSE]]
     /\ helper' = [helper EXCEPT ![h].at =
                     IF Size[job.page] > 0 /\ opened THEN "fill" ELSE "exited"]
     /\ UNCHANGED <<network, loop, pool, file_path, misled>>

\* The file is copied and "done" sent.  A segment that was removed meanwhile is
\* still attached, but found by nobody else.  A file longer than the segment may
\* or may not fault; one that fread cannot read is tried for ever.
HelperFill(h) ==
  LET job == helper[h].job IN
  /\ helper[h].at = "fill" /\ FailsAt[job.path] = "never"
  /\ \/ /\ shm' = [shm EXCEPT ![job.key].full = shm[job.key] # NoSegment]
        /\ helper' = [helper EXCEPT ![h].at = "read", ![h].job = NULL, ![h].replies = @ + 1]
     \/ /\ Size[job.path] > Size[job.page]
        /\ helper' = [helper EXCEPT ![h].at = "exited"]
        /\ UNCHANGED shm
  /\ UNCHANGED <<network, loop, pool, file_path, misled>>

reader_slave(h) == HelperRead(h) \/ HelperMap(h) \/ HelperFill(h)
-----------------------------------------------------------------------------
Init ==
  /\ LoopInit(N_HELPER_PROCS)
  /\ hi_client = [h \in Helper |-> NULL]
  /\ helpers_inuse = 0
  /\ key = 1
  /\ client_key = [fd \in Fd |-> 0]
  /\ file_path = Garbage
  /\ helper = [h \in Helper |-> [interest |-> {"IN", "OUT"}, data |-> FALSE, inbox |-> << >>,
                                 job |-> NULL, at |-> "read", replies |-> 0]]
  /\ shm = [k \in Conn |-> NoSegment]
  /\ misled = FALSE

Dispatch ==
  LET ready == {h \in Helper : HelperEvents(h) # {}}
  IN /\ EpollWait([h \in ready |-> [mask |-> HelperEvents(h), conn |-> NoConn]])
     /\ UNCHANGED amped

ed_accept_callback == AcceptCallback /\ UNCHANGED <<pool, helper, shm, misled>> /\ Clobber

write_http_response(fd) ==
  /\ \/ OnUnassisted(fd) \/ WriteHeader(fd) \/ Waitlisted(fd)
     \/ MapRequested(fd) \/ StartWriting(fd)
     \/ (FastCgiStart(fd) \/ FastCgiFails(fd)) /\ UNCHANGED <<pool, helper, shm, misled>>
  /\ Leave(ed_clients[fd].page)

ed_socket_callback(fd) ==
  \/ SocketCallback(fd) /\ UNCHANGED <<pool, helper, shm, misled>> /\ Clobber
  \/ StrayPipe(fd) /\ UNCHANGED amped
  \/ write_http_response(fd) \/ StartWritingFault(fd)

\* The loops inside write_http_response.
Loops ==
  \/ WriteMapped \/ EndWriting
  \/ (FastCgiRelay \/ FastCgiEnd) /\ UNCHANGED amped

ServerStep ==
  \/ Dispatch \/ ed_accept_callback \/ Loops
  \/ \E fd \in Fd : ed_socket_callback(fd)
  \/ \E h \in Helper : ed_reader_callback(h)

\* The loop has something to do: it is in the middle of a batch, or epoll_wait
\* would return an event.
Runnable ==
  /\ running \notin {"aborted", "stray"}
  /\ running = "wait" => \/ accepted < arrived
                         \/ \E fd \in Fd : Events(fd) # {}
                         \/ \E h \in Helper : HelperEvents(h) # {}

HelperAt(h) == IF h \in Helper THEN helper[h].at ELSE "none"

HelperRunnable(h) ==
  /\ h \in Helper
  /\ \/ helper[h].at = "read" /\ helper[h].inbox # << >>
     \/ helper[h].at = "map"
     \/ helper[h].at = "fill" /\ FailsAt[helper[h].job.path] = "never"

ClientRunnable == \E c \in Conn : peer[c] = "open" /\ (unsent[c] # << >> \/ inflight[c] > 0)

\* epoll_wait returns with no event; or nothing is left to wait for.
Idle == ~Runnable /\ UNCHANGED vars

Next ==
  \/ ClientStep /\ UNCHANGED amped
  \/ ServerStep
  \/ \E h \in Helper : reader_slave(h)
  \/ Idle

Spec == Init /\ [][Next]_vars

\* The processes are scheduled and the FastCGI server answers; a client sends its
\* whole request and reads what it is sent.  Weak fairness, with the guards of the
\* actions written out, and a step of a process told by the variable that every
\* one of its steps changes and no other process does.
FairSpec ==
  /\ Spec
  /\ <>[]Runnable => []<><<TRUE>>_loop
  /\ \A h \in 1..Max({p.helpers : p \in Plan}) :
       <>[]HelperRunnable(h) => []<><<TRUE>>_(HelperAt(h))
  /\ <>[]ClientRunnable
       => []<><<(\E c \in Conn : ClientSend(c) \/ ClientRead(c)) /\ UNCHANGED <<loop, amped>>>>_vars
-----------------------------------------------------------------------------
HelperStatus == {"HEADER_WRITTEN", "MAP_REQUESTED", "DATA_WRITING"}

NobodyLeft == \A c \in Conn : ~Gone(c)

\* helpers_inuse, by which a waiting client decides that a helper is free, counts
\* the helpers that have a client; and while nobody hangs up, the clients whose
\* response is in a helper's hands have one helper each, and no other client has.
HelpersAccounted ==
  /\ helpers_inuse = Cardinality({h \in Helper : hi_client[h] # NULL})
  /\ NobodyLeft => \A fd \in Fd :
       Cardinality({h \in Helper : hi_client[h] = fd})
         = IF ed_clients[fd].status \in HelperStatus THEN 1 ELSE 0

Owned(k) ==
  \E fd \in Fd : client_key[fd] = k /\ ed_clients[fd].status \in HelperStatus

\* A shared memory segment, which outlives the server, is left behind only for a
\* client that hung up: every other one is removed when it has been sent.
SegmentsOwned ==
  Cardinality({k \in Conn : shm[k] # NoSegment /\ ~Owned(k)})
    =< Cardinality({c \in Conn : Gone(c)})

\* No file that a helper cannot map was asked for.
Mappable == \A c \in Conn : want[c].page \in FilePage => Size[want[c].page] > 0

\* The asserts and the reads of shared memory in the loop are safe, whatever the
\* order of the events of clients and helpers, as long as no client hangs up,
\* helpers get the paths of their clients and files are not empty.
AbortsOnlyWhen ==
  running = "aborted" => ~NobodyLeft \/ misled \/ ~Mappable

\* The units of s are some of those of r, in their order.
PartOf(s, r) == s = SelectSeq(r, LAMBDA u : \E i \in DOMAIN s : s[i] = u)

\* A client of a file or script is sent units of its own page only, in order, and
\* never the zeros of a segment that is not yet filled; or one error.  When the
\* server closes the connection, nothing of the page is missing if page and header
\* fit the send buffer.  Of a longer file, whose chunks are all sent in one call, what
\* is missing was refused by a full buffer: at least as much as the buffer holds was
\* sent.
AmpedClosedWhenComplete ==
  NobodyLeft /\ ~misled =>
    \A c \in Conn : LET page == want[c].page IN
      page \in FilePage \cup CgiPage =>
        \/ sent[c] \in Errors
        \/ /\ PartOf(sent[c], Response(page))
           /\ WellFormed(want[c].form) /\ Closed(c)
                => Len(sent[c]) >= Least(SNDBUF, Len(Response(page)))

\* The output of a script of at least a chunk: after its first chunk the status is
\* one that write_http_cgi_response has no branch for.
Stuck(page) == page \in CgiPage /\ FailsAt[page] = "never" /\ Size[page] >= CHUNK

\* While nobody hangs up and helpers get the paths of their clients, every client
\* with a well-formed request is served, the ones that found no helper free and those
\* beside a stuck one included, unless the server aborts, or a pipe() that failed made
\* run_cgi_file close a descriptor at random.  A client whose script writes a whole
\* chunk or more is the exception: its response is not gone on with.
AmpedEveryClientServed ==
  \A c \in Conn : (c =< arrived /\ WellFormed(want[c].form) /\ ~Stuck(want[c].page))
                    ~> (Closed(c) \/ ~NobodyLeft \/ misled \/ running \in {"aborted", "stray"})

\* "EPOLLOUT with data: where the data is the request to be handled by the
\* helper": a request never names the page of another client.
HelperGetsOwnRequest ==
  \A h \in Helper : \A i \in 1..Len(helper[h].inbox) :
    helper[h].inbox[i].path \in {helper[h].inbox[i].page, Garbage}
=============================================================================
