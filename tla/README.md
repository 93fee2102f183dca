# A TLA+ development for the WebServerEval servers

The repository compares web server architectures. It holds three HTTP/1.0
servers written for the comparison, one FastCGI server that all three use, and
two servers from research projects they are measured against:

| directory | architecture | main files |
|---|---|---|
| `web_server` | SPED: one process, one thread, an epoll loop | `ed_server.c`, `ed_epoll_event.c`, `ed_http.c` |
| `mt_server` | MT: an accept loop and a pool of threads | `ed_server.c`, `sbuf.c`, `ed_http.c`, `csapp.c` |
| `amped_server` | AMPED: an epoll loop and helper processes that read files | `ed_server.c`, `ed_epoll_event.c`, `ed_http.c`, `reader_slave.c` |
| all three | FastCGI server: an accept loop, per application a ring and threads | `fastcgi_server.c` (the same file three times) |
| `flash_server` | Flash: AMPED with caches of names and of file chunks, three pools of helpers, and CGI processes that are kept | `loop.c`, `hotname.c`, `datacache.c`, `*_master.c`, `cgi.c` |
| `userver-0.9.0` | the userver: SPED on select or epoll, a cache of mapped files, FastCGI application servers behind queues | `epoll_loop.c`, `info.c`, `parse.c`, `cache_mapped_new.c`, `fcgi.c` |

`common.c` (socket helpers) is also shared by the first three.

## Inventory

**Shared buffer of the MT server** (`mt_server/sbuf.c`). State: an array of
connections, two int indices that only grow, three semaphores. Operations:
`sbuf_insert` by main, `sbuf_remove` by every worker. Hard: all interleavings of
the semaphore operations, a full and an empty buffer, the int indices past
INT_MAX. It should hand every connection to exactly one worker, in order.

**FastCGI queueing** (`fastcgi_server.c`). State: per application a ring with
get and put index and a "full" flag, a mutex, a condition variable; the accept
loop's local `app_index`. Operations: accept, read the script name, look it up,
enqueue and signal, or answer 404 or 500; load the plugin, lock, wait, take,
unlock, serve. Hard: lost and spurious wakeups, equal indices that mean empty or
full, a local that survives an iteration, threads that end because their plugin
cannot be loaded.

**FastCGI plugin call** (`call_plugin_function`). State: descriptor 1 and the
buffer of stdout, both of the process; the saved descriptor of each thread.
Operations: flush, dup, dup2, the plugin's printf calls, flush, dup2 back,
close. Hard: two threads in it at once.

**SPED server.** State: the epoll set, the table `ed_clients` indexed by
descriptor (callback, request buffer, response status, open FILE), `fds_used`,
the batch of events being dispatched. Operations: the accept callback, the
branches of the socket callback, the stages of the response, the FastCGI relay.
Hard: events that are stale by the time they are dispatched, descriptor numbers
that are used again, requests in fragments, partial sends on non-blocking
sockets, clients that hang up or reset in the middle of a response, descriptors
running out.

**MT server** (`mt_server/ed_server.c`, `ed_http.c`). State: the pool, each
worker's place in `handle_request`, its buffers, file or pipe, the children it
forked, the descriptors of the process. Operations: accept and insert; take,
read the request line and headers, the rounds of each kind of response, close.
Hard: children that inherit the pipes and connections of other workers, clients
that hang up within a request, uninitialised buffers, descriptors running out.

**AMPED server** (`amped_server`). State: that of the event loop, the table of
helpers, the shared memory segments and their keys, the helpers themselves and
what is on its way to and from them. Operations: the socket callback with its
longer response state machine, the callback of a helper's socket, the helper's
loop. Hard: a client and its helper report events in any order; two pointers
outlive what they point to; a client hangs up while a helper works for it.

**Flash** (`flash_server`). State: the connections with their handlers and
timers, both caches with reference counts, locks and free lists, the pools of
convert, read and dir helpers with their waiting lists, the CGI processes.
Operations: one per handler that `MainLoop` calls. Hard: helpers answer in any
order, after their client left or was timed out, or say that they are idle while
a request is on its way; caches evict while others use what they hold.

**userver** (`userver-0.9.0`). State: `struct info` of every descriptor, the
interest set, the cache, the queues and buffers of the applications. Operations:
one per event of a batch. Hard: a request cut anywhere, interests that must
match the state of both ends of a relay, a batch in which an earlier event
closes the connection of a later one, limits on servers, queues and buffers.

`PROJECT.json` lists the hazards at the lines where they bite.

## Modules

| module | models | state and actions in the code |
|---|---|---|
| `WorkQueue` | what a hand-off queue promises | abstract: waiting jobs in order, the job each worker serves |
| `Sbuf` | `sbuf.c`, the accept loop and `conn_handler` of the MT server | one action per semaphore operation and array access; `pc` is the next statement of a thread |
| `SbufProofs` | theorems about `Sbuf` | |
| `FastCgiQueue` | `fastcgi_server.c` with the plugin call as one step | `apc` is the accept loop's next statement, `pc` that of each application thread |
| `FastCgiServer` | the same with `call_plugin_function` in steps | extends `FastCgiQueue`; descriptors are modelled by what they refer to |
| `FastCgiProofs`, `FastCgiRingProofs`, `FastCgiWakeProofs` | theorems about `FastCgiQueue`: types, mutual exclusion and routing; the rings as queues; who is awake | |
| `FastCgiServerProofs` | theorems about `FastCgiServer` | |
| `HttpPages` | the pages, and what a client of each is to be sent | sizes in units |
| `TcpClients` | clients and their sockets, as `read`, `send` and epoll show them | external, except `Transmit`, the writers of `common.c` |
| `EventLoop` | what the code of the SPED and AMPED servers has in common: `ed_epoll_event.c`, the accept and socket callbacks, parser, CGI and FastCGI of `ed_http.c` | one action per branch of a callback; between two callbacks clients and the kernel move |
| `SpedServer` | the SPED server: `EventLoop` and the stages that send a file | `ed_clients[fd].status` is the stage |
| `EventLoopProofs` | the invariant of `EventLoop`, action by action, and lemmas on sequences and on the network | |
| `SpedProofs`, `SpedServedProofs` | theorems about `SpedServer`: dispatch, stages and requests; what is sent and what it costs | |
| `AmpedServer` | the AMPED server: `EventLoop`, helper table, `ed_reader_callback`, shared memory, `reader_slave.c` | `helper[h]` is a helper process with its socket pair |
| `MtServer` | the MT server on the abstract buffer of `WorkQueue` | `at[w]` is the next statement of a worker |
| `FlashState` | state of Flash, sockets, timers, what every part calls | a C function is an operator from a state `w` to the next |
| `FlashNames`, `FlashCache` | `hotname.c`; `datacache.c` and `hotfile.c` | entries and chunks by index, 0 for NULL |
| `FlashConn`, `FlashRequests` | connections and their release, the helper masters; reading, cold requests, the answers | |
| `FlashCgi` | `cgi.c` | a CGI process with its two sockets |
| `FlashServer` | `MainLoop`, with helpers, CGI processes and clients | one action per handler |
| `UserverState` | state of the userver, `interest_set.c` | `w.watch` is the interest set |
| `UserverParse` | `parse_bytes` of `parse.c` | over tokens, a read may end between any two |
| `UserverCache` | `cache_mapped_new.c` | |
| `UserverFcgi`, `UserverConn` | queues and records of `fcgi.c` and `info.c`; replies, reads, writes and closes of clients | |
| `UserverServer` | `select_loop` and `epoll_loop`, clients and application servers | one action per event of a batch |
| `MCSbuf`, `MCFastCgiQueue`, `MCFastCgiServer`, `MCSpedServer`, `MCMtServer`, `MCAmpedServer`, `MCFlash`, `MCUserver` | small instances for TLC | |

Refinement ties them together. `Sbuf` and each ring of `FastCgiQueue` implement
`WorkQueue` (`HandoffSpec`, `RingHandoff`); `FastCgiServer` implements
`FastCgiQueue` (`CallImplementsServe`), the five statements of the call being
stutters up to the close. `MtServer` uses `WorkQueue` itself where the code calls
`sbuf_insert` and `sbuf_remove`, which the refinement proof of `Sbuf` justifies.

Operators whose names end in `_Something` and whose comment starts with
"Mutant" are wrong versions of the definition that follows them. Substituting
one must make the property listed with it in `PROJECT.json` fail.

### Abstractions

* Connections are numbers in order of arrival. In `Sbuf` and `FastCgi*` the
  number also stands for the descriptor, which is unique while it is open. In
  `EventLoop` descriptors are separate from connections, since their reuse
  matters; a new connection may get any free number, which covers the lowest-
  number rule of POSIX whatever numbers files hold.
* The web servers count in units (`HttpPages`). A response is a sequence of units, a file is
  read `CHUNK` units at a time, a socket's send buffer holds `SNDBUF`. epoll
  reports a socket writable when `LOWAT` units are free, and `LOWAT >= CHUNK`:
  Linux reports it when a third of the buffer is free, and READ_CHUNK_SIZE is
  1 KB. A header or an error page is one unit.
* In `EventLoop` a request is a sequence of fragments: the request line without its end, line
  ends (CRLF or a bare LF) and other text. Any split of it into reads is
  possible. Text never contains a second request line. In `MtServer`, which reads
  line by line, it is a sequence of lines, the last perhaps cut short.
* When `pipe()` fails in `run_cgi_file` the descriptors are uninitialised. Either
  they name no open file, and the request is answered with 500; or a descriptor of
  the server is closed at random, and what happens from then on is not followed
  (`StrayPipe`, `ForkNoPipe`). In `MtServer` the child that is forked all the same
  holds copies of the connections until it exits (`orphans`).
* A FastCGI server may answer in part and then break the connection (`Broken`).
* The FastCGI request (lengths, name, query) arrives in one piece, as the web
  servers send it in one `send()`. A name of no application and an early end of
  file are the same value `Other`.
* Undefined behaviour is a choice. In `MtServer` the uninitialised `header` and
  `temp_buf` hold what an earlier request of the worker left, or something that
  does not match. In `AmpedServer` the path that a helper's `data` points to is a
  dead stack array: the next call of `write_http_response` puts its own path
  there (`Leave`), and any other function may leave garbage (`Clobber`).
* In `MtServer` a child holds the connections and pipe ends that were open at
  its fork. A helper that exits, and a copy past the end of a segment that
  faults, are modelled; a kill from outside is not.
* Failures of pthread calls, `epoll_ctl`, `fcntl` and `malloc` are left out.
* Flash and the userver are sequential programs, so their functions are
  operators on a record `w`, and only events interleave. An `exit()`, a failed
  assertion and undefined behaviour end the server: `w.exit` says why.
* Flash does not count time. A timer that is set may expire at any later turn, a
  cached name or file may be out of date at any later look-up; a scenario bounds
  how often. A file may be lost: removed, made unreadable, or its `open()` fails for
  another reason (`Loss`). What a URL translates to is given (`Kind`, `Size`); one bin stands
  for each hash table. Left out of Flash: POST of a regular file, HEAD on a CGI
  program, requests sent ahead of an answer, heads longer than the buffer, files
  of exactly two or more chunks (`GetRoundedChunkSize`, see below), a file that
  goes between open and stat, the version of the file that a unit is of, failures of malloc, fork and mmap, partial writes
  of a header, and kernels on which accept() does not pass on O_NDELAY.
  `FD_ISSET` batches need no stale events: `MainLoop` tests the handler of a
  descriptor before it calls it (`loop.c`:341-370), and a descriptor that is
  closed in a batch is given out again only after it.
* In the userver clients connect in the order of their numbers, and a client acts
  between the accept and the close of the server; only in the `slow` scenarios do
  answers move in parts. All options but the ones of the scenario have their
  defaults. Left out: Range, Client-Id, special URIs, sendfile, AIO, SSL, poll,
  edge-triggered epoll, the other orders of `process_sds`, shared-memory
  application servers and GET_VALUES, requests sent ahead, heads longer than the
  read buffer, replies larger than a dynamic buffer, the death of an application
  server and short writes to one, HEAD on cached files and on applications.
* A client that half-closes its connection is not told apart from one that
  closes it; the code treats both alike (EPOLLRDHUP).

## Runs

| run | instance | shows |
|---|---|---|
| `sbuf` | 3 workers, 2 places, 6 connections | mutual exclusion, the accounting of places, the hand-off refinement, and that every connection reaches a worker |
| `fastcgi_queue` | 2 threads on one ring of 2 places, a second application that cannot be loaded, 3 clients | mutual exclusion at the ring, no lost wakeup, rejection only when full, routing by name, the hand-off refinement, every request for a loadable application answered |
| `fastcgi_calls` | 2 threads, 2 clients, 2 pieces of output each | the call is one step of `FastCgiQueue`; and as long as no two threads redirect descriptor 1 at the same time, each client gets its own output, all of it, and then the end of the connection, whatever else overlaps |
| `fastcgi_crossed` (violation) | 2 threads, 2 clients | output of one request goes to the other's connection |
| `sped` | 2 clients, 9 kinds of page, 3 descriptor numbers; either a hang-up, with descriptors that are refused or run out, or requests in fragments that do not all parse or fit | events are dispatched to the connection they were reported for, `fds_used` is exact, responses are whole, in order and of the right page, what leaks, every client that stays is served |
| `sped_relay` (violation) | 1 client, a FastCGI page larger than the send buffer | the relay loses what `send()` does not take |
| `mt` | 2 workers, 2 clients, 1 hang-up, files, CGI and FastCGI, 4 descriptors | every descriptor accounted for, whole responses in order, every client sees the end of its response although children hold pipes and connections of others |
| `mt_headers` (violation) | 1 worker, 2 clients, 1 hang-up | a client gone within the headers keeps the worker in `read_request_headers` |
| `amped` | 2 clients; either 1 helper and every kind of page, or 2 helpers and a hang-up | helper table and count agree, segments outlive only clients that hung up, the asserts of the loop hold but for the named causes, responses in order that miss only what a full send buffer refused, the client that had to wait gets the helper |
| `amped_path` (violation) | 2 helpers, 2 clients, 2 files | a helper is sent the path of another client |
| `flash` | 13 scenarios of 1 to 3 clients, at most 2 helpers of a kind, a cache of 1 name and 2 units | reference counts of both caches, waiting clients can be reached, one owner per helper and CGI process, answers whole and in order, the causes for which the server ends, every client served |
| `userver` | 7 groups of scenarios, both loops, 1 to 3 clients, at most 3 application servers | reference counts and bytes of the cache, the links between clients, application servers, queues and buffers, interests that match the state, answers whole and in order, the causes for which the server ends, every client served |

`fastcgi_calls` states its properties as `[]RedirectionsApart => ...`. A thread
redirects from its `dup` to the `dup2` that restores descriptor 1. Nothing in the
code keeps two threads from doing so at once, and the shipped configuration runs 15
threads for three applications, so that the condition is no assumption about the
program: it says that overlapping redirections are the only way in which output gets
lost or crossed. The flushes, closes and queue operations of one thread may fall
anywhere into the call of another.

The whole-answer and the liveness properties of `flash` and `userver`, and the
lists of causes for which these servers end, name as exceptions what the code does
in cases discussed under Findings. Each exception is as narrow as the model allows
(a state that the divergence leaves, or a fault of the scenario), so that what
remains is a statement about all other behaviours.

### Why the bounds are enough

`Sbuf`: three workers allow one in each phase of `sbuf_remove`; six connections
go three times around two places. `FastCgiQueue`: two threads and two places
give every combination of sleeping, woken and busy threads with an empty, half
full and full ring, and three requests take the indices around it. In
`FastCgiServer` two threads are the smallest overlap. In the event loops
two clients suffice for an event that becomes stale in a batch and for a descriptor
number and record that pass from one to the other; the page sizes are one chunk
and a rest (short last read), an exact chunk (one more, empty read) and, in `amped`
and `sped_relay`, more than a send buffer. In `MtServer` two workers can fork between each other's
`pipe()` and `close()`, and four descriptors run out in every way. In
`AmpedServer` one helper makes the second client wait and two helpers work at
once; two clients are enough for a record that passes from one to the other
while its helper is at work. `MaxConns` and `Pieces` bound these models, each in the
guard of one action, and `Plan` says which requests are sent and who may leave.

`Flash`: two connections and `maxConnects = 2` share every entry of the caches; a
third client (`Crowd`) finds no connection, or, in `CrossedListings`, gets what
another asked for. `READBLOCK = 2` makes three units a chunk and a part, and
`maxLRUCacheSize = 2` makes the two evict each other. One helper makes requests
wait, two answer out of order. `MaxEntries` and `MaxApps` are larger than what is
reached. `userver`: three clients fill the one server of an application, the one
place of its queue, and are refused; a file of four units exceeds the send buffer
and is the largest that is cached, so that two files do not fit the cache of five
units. Splitting one request after each of its tokens covers all states of the
parser.

### Fairness

* `SbufFairSpec`: weak fairness of every thread. The only waits are for
  semaphores.
* `FastCgiFairSpec`: weak fairness of the acceptor and of every thread, and of a
  connected client's send (or end of file). Strong fairness of the acceptor's
  lock: without it spurious wakeups could take the mutex again and again just
  before the acceptor, which no scheduler does for ever. Spurious wakeups
  themselves are never forced.
* `FairSpec` of `FastCgiServer`: the same, lifted to the detailed steps.
* `FairSpec` of `SpedServer`: weak fairness of the process as a whole, and of
  clients sending their request and reading their response. A blocking read from
  the FastCGI server returns, that is, the FastCGI server answers.
* `FairSpec` of `MtServer` and `AmpedServer`: weak fairness of main, of every
  worker, script and helper, and of clients as above. A worker's blocking
  `send()` goes on once its client has read.
* `FairSpec` of `FlashServer` and `UserverServer`: while something can go on,
  something does. It is weaker than fairness of each part. The steps of clients
  and the faults are bounded, so it suffices. No timer has to expire.

In the web servers fairness is stated with the guard of the actions in the place of
ENABLED (`<>[]Guard => []<>` a step), which is the same and quicker to evaluate.

Deadlock is checked in every run but `flash` and `userver`. In the others the idle
states (all clients served, threads asleep, epoll_wait timing out) are steps of
their own; in these two a server that has nothing to do, or has ended, is a state
without successor.

## What is proved

Eight modules hold theorems. All are for every value of the constants: any sets of
workers, threads, applications, clients, descriptors and pages, any sizes of
buffers, rings, chunks and pages. The assumptions on the constants are the named
`ASSUME`s of the modules, which TLC evaluates on every instance; some theorems have a
hypothesis of their own, `NoWrap` or `[]RedirectionsApart`. All 15 safety properties that the
passing runs of `Sbuf`, of the FastCGI server and of the SPED server check are
proved, refinements included.

| theorem | states | from the inductive invariant |
|---|---|---|
| `SbufMutualExclusion` | `SbufSpec => []MutexProtectsBuf` | `MInv` |
| `SbufTypeCorrect`, `SbufSafe` | types, `PlacesAccounted`, no access outside the array | `SbufInv` |
| `SbufImplementsWorkQueue` | `SbufSpec => HandoffSpec` | `SbufInv` |
| `FastCgiTyped`, `RingsExclusive` | types, `RingExclusive` | `MutexInv` |
| `KnownScriptsRouted` | `FastCgiSpec => []KnownScriptRoutedByName` | `RouteInv` |
| `OneOwner` | `FastCgiSpec => []HandInv` | `HandInv` |
| `RingImplementsQueue` | `FastCgiSpec => RingHandoff` | `HandInv` |
| `SleepersWoken` | `FastCgiSpec => []NoIdleSleeper` | `WakeInv` |
| `RejectedWhenFull` | `FastCgiSpec => []RejectedOnlyWhenFull` | `HandInv` |
| `CallRefinesServe` | `Spec => CallImplementsServe` (of `FastCgiServer`) | `PcOK` |
| `OneOwnerWithPlugins` | `Spec => []HandInv`, under the refinement mapping | that refinement |
| `OwnOutput`, `CompleteOutput` | `Spec => OwnOutputWhenApart`, `Spec => CompleteWhenApart` | `CallInv`, with `Handed`, while redirections are apart |
| `SpedDispatchesLive` | `Spec => []DispatchesLiveClient` | `SpedInv` |
| `SpedPagesWhole` | `Spec => []PagesSentWhole` | `ServedInv` |
| `SpedFdsUsed`, `SpedLeaks` | `FdsUsedCounted`, `LeakedOnlyByHangup` | `CountInv` |

**`SbufProofs`.** Mutual exclusion needs no assumption. The rest assumes at most
INT_MAX connections (`NoWrap`; past it the indices wrap and `(++rear) % n` is
negative). The accounting of places is inductive only together with where each
thread is (`Locations`) and with the fact that connection number `i` lies at place
`i % n` between front and rear (`InOrder`), because a store must not overwrite a
waiting connection: the accounting gives `rear - front < n` at the store, and two
numbers less than `n` apart have different remainders (`ModDistinct`). The
refinement then reads the abstract queue off the indices: what waits is
`front + 1 .. rear` in order (`QueueIs`), so the store appends (`StoreSubmits`) and the fetch
takes the head (`FetchStarts`).

**`FastCgiProofs`.** `FastCgiTyped` needs `LocalsSet` beside the types: once a name
is looked up, `app_index` is an application. `MutexInv` says who is between lock and
unlock in terms of the owner of the mutex (`HeldByThread`, `HeldByAcceptor`), and
that only waiting threads are signalled (`SleepersWait`), else a signal could pull a
thread out of its critical section. `RouteInv` follows a connection from the accept
loop through the ring to the thread: at each place its client asked for that
application or for none. That answers come after requests (`AnsweredAfterSent`)
keeps a late request from falsifying an early answer.

**`FastCgiRingProofs`.** `FullWhenMet` (the flag is set only where the indices meet)
makes the indices and the flag together a length. `HandInv` adds that connections in
rings and with threads are accepted, unanswered and distinct, that none is lost
(`NoneLost`), and that a ring seen full is full until the mutex is given up
(`FullSeen`). Distinctness is what makes a take the end of one job's waiting and not
of two. The refinement is shown ring by ring: an enqueue is `Submit` for one ring
and a stutter for the others.

**`FastCgiWakeProofs`.** `NoIdleSleeper` counts: a thread that sleeps implies that
as many threads are awake as requests wait. An enqueue adds one request and, if
somebody sleeps, one awake thread; a thread takes or goes to sleep only under the
mutex, and goes to sleep only at an empty ring.

**`FastCgiServerProofs`.** Under the mapping `pcbar`, which shows a thread inside
`call_plugin_function` as being at "serve", each step of the call stutters but the
last, which is `Serve`, and every other step is the step of the same name. So what
is proved of the queueing server holds of the server with plugins
(`OneOwnerWithPlugins`). `OwnOutput` and `CompleteOutput` are about any number of threads and
applications: output is crossed or cut only if two threads are between `dup` and the
restoring `dup2` at once, which the run `fastcgi_crossed` shows to happen. `CallInv`
says what descriptor 1 refers to, by the one thread that redirects it, if any
(`Redirected`), whose output stdio holds (`Buffered`) and how much each call has
printed and delivered (`Counted`, `AllOrNothing`). It needs from the queueing server that a thread's
connection is unanswered and its own (`Handed`): the fflush at the start of one call
may write what the plugin of another has printed so far, which does no harm because
descriptor 1 then refers to that other one's client. `CallInv` is preserved by every
step between two states in which redirections are apart (`NextCall`), so that
`[]RedirectionsApart` carries it through the behaviour.

**`EventLoopProofs`** holds what the SPED and AMPED servers share. `LoopInv`: no two
descriptors are one connection; a record is wiped unless epoll watches the
descriptor, and names the page that its client asked for once the request is parsed;
an event still to dispatch is about the connection that the descriptor has now
(`EventOK`). The last is inductive because a callback closes no descriptor but its
own, and `accept()` gets a number that no event in the batch is about. Each lemma
`...Keeps` is one action.

**`SpedProofs`.** `SpedInv` adds to `LoopInv` what each stage of a response knows of
its file and of how far it has been read (`StageOK`), and where the dispatcher is.
`Whole_request` is the invariant of the requests: what the record has read, what the
socket holds and what the client has yet to send are together the request. It is
needed for the last clause of `PagesSentWhole`: a request that is well-formed is
never taken for an illegal one, however it is cut (`NeverIllegal`).

**`SpedServedProofs`.** `Written(client)` computes, from the stage and the offset,
what a record has been sent. `SentOK`: an open connection has been sent exactly
that, or a prefix of it if its client is gone, and a closed one the whole response
or an error, or less if the client is gone or its request was not well-formed. That
`send()` takes a chunk whole is where `LOWAT >= CHUNK` and the condition on writable
events of `EventOK` are needed: the socket has had room since epoll reported it
(`ChunkFits`). `CountInv` counts with `Costly`, the closed connections that may have
cost a descriptor.

### What is only model-checked

* All liveness properties: fairness is outside the prover's reach.
* `MtServer`. Its accounting of descriptors is a sum over the workers, a fold, about
  which nothing can be proved without induction.
* `AmpedServer`. The lemmas of `EventLoopProofs` cover the actions it shares with
  the SPED server, not those of helpers and segments.
* Flash and the userver. Their walks over lists and tokens are RECURSIVE operators,
  which the prover does not reason about.
* The four violations, which are counterexamples.

The type invariants of `Sbuf` and `FastCgiQueue`, and the bound on the indices, are
proved and not repeated in the runs.

## Findings

Four disagreements between the code and its own comments, each with a run:
crossed plugin output (`fastcgi_crossed`), a truncated FastCGI relay
(`sped_relay`), a worker lost to a hang-up in the headers (`mt_headers`), and a
helper that is sent another client's path (`amped_path`).

The models show more of what the code does that no property forbids:

* past INT_MAX connections `(++rear) % n` of `sbuf.c` is negative (`NoWrap` is
  the assumption that excludes it);
* a FastCGI request for an unknown script, after one for a known script, goes to
  the application of the known one, since `app_index` is reset nowhere;
* a connection that is reset while the loop neither reads nor sends is reported
  with EPOLLERR for ever and never closed (`OnError`);
* an AMPED client that hangs up while a helper works for it makes the server
  assert when the answer comes, or leaves the helper taken, or has the next
  client on its descriptor sent a segment that is not filled yet;
* an empty file makes an AMPED helper exit and the server assert;
* an AMPED CGI response of a whole chunk never ends (`Unassisted`), and a file
  larger than the send buffer is truncated, all chunks being sent in one call
  (`AmpedClosedWhenComplete` says how much a client gets at least);
* a `pipe()` that fails goes unnoticed, and `run_cgi_file` of all three servers
  closes and reads whatever descriptors the stack happens to name;
* a thread of the MT server that gets no request line may parse the one that an
  earlier connection left on its stack (`ReadNoRequest`).

In Flash (`FlashEndsOnlyWhen` and the exceptions of the other properties):

* a helper for listings that reports "idle" while a request is on its way is sent
  the request again, and its second answer goes to the next client that waits for
  a listing (`dir_master.c`:377); a convert helper's index is read from the
  message that "idle" has clobbered (`convert_master.c`:228);
* closing a connection in the middle of a listing closes its helper down and
  leaves the list of those who wait for it (`KillHelperConn`);
* a timer that expires while a helper works for the connection lets the answer
  find a connection that is closed or belongs to another client;
* `SetTimer` returns early when the second is the same, so the time of a CGI
  request stays set for the next request; the -1 of `WriteEnvHandler` means two
  things;
* a connection that is done with before its first chunk was read puts the chunk on
  the list of free chunks without data, and `KillEntry` frees the entry without
  taking the chunk off (`datacache.c`:504). A 304 or an empty file does it, followed
  by a change of the file, as does a timeout or a file that cannot be opened again;
* a redirect is answered with 500 in all cases (`libhttpd.c`:493);
* `GetRoundedChunkSize` (`datacache.c`:140) is one page too small for files of an
  exact multiple of the chunk.

In the userver (`UserverEndsOnlyWhen`, `Excused`, `Counted`, `Cut`):

* a malformed request and one for an unknown application fail an assertion
  (`socket_readable.c`:585, `parse.c`:735), where a comment speaks of 400; a file
  that cannot be opened for lack of permission ends the server
  (`setup_http.c`:586);
* with `no_exit_on_no_buffers` a second application that lacks a buffer fails the
  assertion of `app_block` (`app.c`:404), and a buffer that is released while no
  blocked application has a request loses the unblock (`info.c`:861-890);
* a client that closes while its body is incomplete leaves its application server
  assigned (`do_close.c`:77), or a descriptor that was removed from epoll is
  modified (`fcgi.c`:1301);
* a body that does not fit beside the head is not read on (`fcgi.c`:1298-1302);
* a 304 from the cache keeps the reference (`setup_http.c`:402), and when the
  elements that are not referenced do not make enough room there is no victim (`cache_mapped_new.c`:881) and -1 is
  freed (`:808`); a time in the future takes `fstat` of a file that is not open;
* HEAD sends the content (`setup_http.c`:274);
* the length of an application's reply leaves out the headers, so that a reply
  that is sent in parts is cut (`setup_http.c`:848);
* a path that is cut by a read before a slash loses the slash (`parse.c`:595).

## What is left

* Theorems: the accounting of helpers and segments in `AmpedServer`, from `LoopInv`, and
  that of descriptors in `MtServer`.
* A restart of the AMPED server over segments of an earlier run.
* The failing `write()` in `ReaderRequests` (the helper exited after epoll_wait
  returned). It takes three connections: the record of a client that hung up is
  used again, so a helper that still works is freed and given to a third client.
  No run of the table reaches it. Three clients with two descriptors, the first
  asking for an empty page, do, and the invariants of `amped` hold there (2.1
  million states), but the instance is too slow to keep as a run.
* The two length fields of the FastCGI request, and what `read()` in several
  pieces does to them.
* The parts of Flash and the userver named under Abstractions.
* Not planned: start-up code and options, MIME types, CGI environment, the example
  plugins, statistics and traces, the userver's interfaces to research kernels
  (SEND, AIO), unbuilt files.
