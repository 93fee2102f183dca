---------------------------- MODULE FastCgiQueue ----------------------------
(***************************************************************************)
(* The FastCGI server of fastcgi_server.c: one thread accepts connections, *)
(* reads the name of the script and puts the connection into the ring of   *)
(* the application of that name; each application has its own ring, mutex, *)
(* condition variable and threads, which take connections out and run the  *)
(* plugin for them.  A step is what a thread does between two operations   *)
(* on the mutex, on the condition variable or on a socket.                 *)
(*                                                                         *)
(* Serve is the whole of call_plugin_function; FastCgiServer opens it up.  *)
(***************************************************************************)
EXTENDS Integers, Sequences, FiniteSets

CONSTANTS
  App,           \* the applications of fastcgi.config
  Thread,        \* the threads create_app_threads starts
  AppOf,         \* the application of each thread
  Loadable,      \* the applications whose lib<name>.so can be loaded
  MAX_REQUESTS,  \* places of a ring
  Acceptor,      \* the thread that runs accept_fastcgi_requests
  None,          \* app_index = -1; a free mutex; no answer yet
  Other,         \* a script name of no application, or end of file
  MaxConns       \* bound: how many clients connect

ASSUME FastCgiAssumption ==
  /\ IsFiniteSet(Thread)
  /\ AppOf \in [Thread -> App]
  /\ Loadable \subseteq App
  /\ MAX_REQUESTS \in Nat \ {0}
  /\ MaxConns \in Nat
  /\ Acceptor \notin Thread
  /\ None \notin App \cup Thread \cup {Acceptor, Other, 404, 500}
  /\ Other \notin App
  /\ App \cap {404, 500} = {}

VARIABLES
  request,           \* the script each client asks for, None until it is sent
  connected,         \* how many clients have connected
  apc, fd,           \* the accept loop: next statement, its local fd,
  app_index,         \* and its local app_index, which outlives an iteration
  accepted_requests, get_index, put_index, is_queue_full, \* struct apps_info
  requests_mutex,    \* the thread that holds the mutex of an application
  requests_cond,     \* the threads asleep on its condition variable
  pc, sockfd,        \* the application threads: next statement, local sockfd
  answer             \* what each client got: 404, 500 or an application's output

ring == <<accepted_requests, get_index, put_index, is_queue_full>>

client == <<request, connected>>

acceptor == <<apc, fd, app_index>>

fvars == <<client, acceptor, ring, requests_mutex, requests_cond, pc, sockfd, answer>>

Conn == 1..MaxConns

NoConn == 0

ThreadsOf(a) == {t \in Thread : AppOf[t] = a}
-----------------------------------------------------------------------------
(* Clients: web servers that connect, then send script name and query in   *)
(* one send(), or go away before (a read then finds end of file).          *)

Connect ==
  /\ connected < MaxConns
  /\ connected' = connected + 1
  /\ UNCHANGED <<request, acceptor, ring, requests_mutex, requests_cond, pc, sockfd, answer>>

Send(c) ==
  /\ c =< connected
  /\ request[c] = None
  /\ \E name \in App \cup {Other} : request' = [request EXCEPT ![c] = name]
  /\ UNCHANGED <<connected, acceptor, ring, requests_mutex, requests_cond, pc, sockfd, answer>>
-----------------------------------------------------------------------------
(* accept_fastcgi_requests                                                 *)

\* accept() returns the connections in the order they came in.
Accept ==
  /\ apc = "accept"
  /\ fd < connected
  /\ fd' = fd + 1
  /\ apc' = "read"
  /\ UNCHANGED <<client, app_index, ring, requests_mutex, requests_cond, pc, sockfd, answer>>

\* Mutant: the name is looked up for the first request only.
LookUp_Once(name) == IF app_index = None /\ name \in App THEN name ELSE app_index

\* Both reads block until the client has sent; the loop over apps_info leaves
\* app_index as it was when no name matches.
LookUp(name) == IF name \in App THEN name ELSE app_index

ReadName ==
  /\ apc = "read"
  /\ request[fd] # None
  /\ app_index' = LookUp(request[fd])
  /\ apc' = IF app_index' # None THEN "lock" ELSE "not_found"
  /\ UNCHANGED <<client, fd, ring, requests_mutex, requests_cond, pc, sockfd, answer>>

Lock ==
  /\ apc = "lock"
  /\ requests_mutex[app_index] = None
  /\ requests_mutex' = [requests_mutex EXCEPT ![app_index] = Acceptor]
  /\ apc' = "enqueue"
  /\ UNCHANGED <<client, fd, app_index, ring, requests_cond, pc, sockfd, answer>>

\* Mutant: no signal.
Signal_None(a) == UNCHANGED <<requests_cond, pc>>

\* pthread_cond_signal wakes one sleeper, if there is one; it goes on to take
\* the mutex back.
Signal(a) ==
  \/ /\ requests_cond[a] = {}
     /\ UNCHANGED <<requests_cond, pc>>
  \/ \E t \in requests_cond[a] :
       /\ requests_cond' = [requests_cond EXCEPT ![a] = @ \ {t}]
       /\ pc' = [pc EXCEPT ![t] = "relock"]

\* ++index == MAX_REQUESTS starts again at 0.
Advance(index) == IF index + 1 = MAX_REQUESTS THEN 0 ELSE index + 1

\* Mutant: is_queue_full is never set.
Enqueue_NeverFull ==
  /\ apc = "enqueue"
  /\ is_queue_full[app_index] = 0
  /\ accepted_requests' = [accepted_requests EXCEPT ![app_index][put_index[app_index]] = fd]
  /\ put_index' = [put_index EXCEPT ![app_index] = Advance(@)]
  /\ Signal(app_index)
  /\ apc' = "unlock"
  /\ UNCHANGED <<client, fd, app_index, get_index, is_queue_full, requests_mutex, sockfd,
                 answer>>

Enqueue ==
  /\ apc = "enqueue"
  /\ is_queue_full[app_index] = 0
  /\ accepted_requests' = [accepted_requests EXCEPT ![app_index][put_index[app_index]] = fd]
  /\ put_index' = [put_index EXCEPT ![app_index] = Advance(@)]
  /\ is_queue_full' = [is_queue_full EXCEPT ![app_index] =
                         IF get_index[app_index] = put_index'[app_index] THEN 1 ELSE @]
  /\ Signal(app_index)
  /\ apc' = "unlock"
  /\ UNCHANGED <<client, fd, app_index, get_index, requests_mutex, sockfd, answer>>

QueueFull ==
  /\ apc = "enqueue"
  /\ is_queue_full[app_index] = 1
  /\ apc' = "unlock_full"
  /\ UNCHANGED <<client, fd, app_index, ring, requests_mutex, requests_cond, pc, sockfd, answer>>

Unlock ==
  /\ apc \in {"unlock", "unlock_full"}
  /\ requests_mutex' = [requests_mutex EXCEPT ![app_index] = None]
  /\ apc' = IF apc = "unlock" THEN "accept" ELSE "reject"
  /\ UNCHANGED <<client, fd, app_index, ring, requests_cond, pc, sockfd, answer>>

\* write_http_response_error and close_socket.
AnswerError ==
  /\ apc \in {"reject", "not_found"}
  /\ answer' = [answer EXCEPT ![fd] = IF apc = "reject" THEN 500 ELSE 404]
  /\ apc' = "accept"
  /\ UNCHANGED <<client, fd, app_index, ring, requests_mutex, requests_cond, pc, sockfd>>

AcceptorStep ==
  Accept \/ ReadName \/ Lock \/ Enqueue \/ QueueFull \/ Unlock \/ AnswerError
-----------------------------------------------------------------------------
(* run_app_by_thread                                                       *)

\* load_plugin_func; a thread whose plugin cannot be loaded ends.
Load(t) ==
  /\ pc[t] = "load"
  /\ pc' = [pc EXCEPT ![t] = IF AppOf[t] \in Loadable THEN "lock" ELSE "exited"]
  /\ UNCHANGED <<client, acceptor, ring, requests_mutex, requests_cond, sockfd, answer>>

\* Mutant: pthread_cond_wait returns without the mutex.
LockQueue_Relockless(t) ==
  /\ pc[t] \in {"lock", "relock"}
  /\ pc[t] = "lock" => requests_mutex[AppOf[t]] = None
  /\ requests_mutex' = [requests_mutex EXCEPT ![AppOf[t]] = t]
  /\ pc' = [pc EXCEPT ![t] = "check"]
  /\ UNCHANGED <<client, acceptor, ring, requests_cond, sockfd, answer>>

\* pthread_mutex_lock, and its counterpart inside pthread_cond_wait.
LockQueue(t) ==
  /\ pc[t] \in {"lock", "relock"}
  /\ requests_mutex[AppOf[t]] = None
  /\ requests_mutex' = [requests_mutex EXCEPT ![AppOf[t]] = t]
  /\ pc' = [pc EXCEPT ![t] = "check"]
  /\ UNCHANGED <<client, acceptor, ring, requests_cond, sockfd, answer>>

Empty(a) == get_index[a] = put_index[a] /\ is_queue_full[a] = 0

\* pthread_cond_wait gives the mutex up and sleeps in one step.
Wait(t) ==
  /\ pc[t] = "check"
  /\ Empty(AppOf[t])
  /\ requests_mutex' = [requests_mutex EXCEPT ![AppOf[t]] = None]
  /\ requests_cond' = [requests_cond EXCEPT ![AppOf[t]] = @ \cup {t}]
  /\ pc' = [pc EXCEPT ![t] = "waiting"]
  /\ UNCHANGED <<client, acceptor, ring, sockfd, answer>>

\* POSIX lets pthread_cond_wait return without a signal.
SpuriousWakeup(t) ==
  /\ pc[t] = "waiting"
  /\ requests_cond' = [requests_cond EXCEPT ![AppOf[t]] = @ \ {t}]
  /\ pc' = [pc EXCEPT ![t] = "relock"]
  /\ UNCHANGED <<client, acceptor, ring, requests_mutex, sockfd, answer>>

\* Mutant: is_queue_full is not reset.
Take_StaysFull(t) ==
  LET a == AppOf[t] IN
  /\ pc[t] = "check"
  /\ ~Empty(a)
  /\ sockfd' = [sockfd EXCEPT ![t] = accepted_requests[a][get_index[a]]]
  /\ get_index' = [get_index EXCEPT ![a] = Advance(@)]
  /\ pc' = [pc EXCEPT ![t] = "unlock"]
  /\ UNCHANGED <<client, acceptor, accepted_requests, put_index, is_queue_full,
                 requests_mutex, requests_cond, answer>>

Take(t) ==
  LET a == AppOf[t] IN
  /\ pc[t] = "check"
  /\ ~Empty(a)
  /\ sockfd' = [sockfd EXCEPT ![t] = accepted_requests[a][get_index[a]]]
  /\ get_index' = [get_index EXCEPT ![a] = Advance(@)]
  /\ is_queue_full' = [is_queue_full EXCEPT ![a] = 0]
  /\ pc' = [pc EXCEPT ![t] = "unlock"]
  /\ UNCHANGED <<client, acceptor, accepted_requests, put_index, requests_mutex,
                 requests_cond, answer>>

UnlockQueue(t) ==
  /\ pc[t] = "unlock"
  /\ requests_mutex' = [requests_mutex EXCEPT ![AppOf[t]] = None]
  /\ pc' = [pc EXCEPT ![t] = "serve"]
  /\ UNCHANGED <<client, acceptor, ring, requests_cond, sockfd, answer>>

\* call_plugin_function; the socket is closed at its end.
Serve(t) ==
  /\ pc[t] = "serve"
  /\ answer' = [answer EXCEPT ![sockfd[t]] = AppOf[t]]
  /\ sockfd' = [sockfd EXCEPT ![t] = NoConn]
  /\ pc' = [pc EXCEPT ![t] = "lock"]
  /\ UNCHANGED <<client, acceptor, ring, requests_mutex, requests_cond>>

QueueStep(t) ==
  Load(t) \/ LockQueue(t) \/ Wait(t) \/ Take(t) \/ UnlockQueue(t)

ThreadStep(t) == QueueStep(t) \/ Serve(t)
-----------------------------------------------------------------------------
(* read_fastcgi_config and create_app_threads; accepted_requests is not    *)
(* initialised.                                                            *)

FastCgiInit ==
  /\ request = [c \in Conn |-> None]
  /\ connected = 0
  /\ apc = "accept"
  /\ fd = NoConn
  /\ app_index = None
  /\ accepted_requests = [a \in App |-> [i \in 0..(MAX_REQUESTS - 1) |-> NoConn]]
  /\ get_index = [a \in App |-> 0]
  /\ put_index = [a \in App |-> 0]
  /\ is_queue_full = [a \in App |-> 0]
  /\ requests_mutex = [a \in App |-> None]
  /\ requests_cond = [a \in App |-> {}]
  /\ pc = [t \in Thread |-> "load"]
  /\ sockfd = [t \in Thread |-> NoConn]
  /\ answer = [c \in Conn |-> None]

\* The bound is reached and the server waits for clients.
FastCgiIdle ==
  /\ fd = MaxConns /\ apc = "accept"
  /\ \A t \in Thread : pc[t] \in {"waiting", "exited"}
  /\ UNCHANGED fvars

ClientStep == Connect \/ \E c \in Conn : Send(c)

FastCgiNext ==
  \/ ClientStep
  \/ AcceptorStep
  \/ \E t \in Thread : ThreadStep(t) \/ SpuriousWakeup(t)
  \/ FastCgiIdle

FastCgiSpec == FastCgiInit /\ [][FastCgiNext]_fvars

\* Every thread is scheduled, and a client that connected sends its request or
\* goes away.  Spurious wakeups need not happen, and do not keep the acceptor
\* from the mutex for ever.
FastCgiFairSpec ==
  /\ FastCgiSpec
  /\ WF_fvars(AcceptorStep) /\ SF_fvars(Lock)
  /\ \A t \in Thread : WF_fvars(ThreadStep(t))
  /\ \A c \in Conn : WF_fvars(Send(c))
-----------------------------------------------------------------------------
(* The connections that wait in the ring of an application.                *)

QueueLen(a) ==
  IF is_queue_full[a] = 1 THEN MAX_REQUESTS
  ELSE IF put_index[a] >= get_index[a] THEN put_index[a] - get_index[a]
  ELSE put_index[a] - get_index[a] + MAX_REQUESTS

Place(a, i) ==
  IF get_index[a] + i < MAX_REQUESTS THEN get_index[a] + i
  ELSE get_index[a] + i - MAX_REQUESTS

Queue(a) == [i \in 1..QueueLen(a) |-> accepted_requests[a][Place(a, i - 1)]]

Holding(a) == [t \in ThreadsOf(a) |-> sockfd[t]]

Handoff(a) == INSTANCE WorkQueue
                WITH Job <- Conn, Worker <- ThreadsOf(a), Capacity <- MAX_REQUESTS,
                     NoJob <- NoConn, waiting <- Queue(a), serving <- Holding(a)
-----------------------------------------------------------------------------
AcceptorPc == {"accept", "read", "lock", "enqueue", "unlock", "unlock_full",
               "reject", "not_found"}

ThreadPc == {"load", "exited", "lock", "relock", "check", "waiting", "unlock", "serve"}

\* Typing of struct apps_info and of the threads' locals.
FastCgiTypeOK ==
  /\ request \in [Conn -> App \cup {Other, None}]
  /\ connected \in 0..MaxConns
  /\ apc \in AcceptorPc
  /\ fd \in 0..connected
  /\ app_index \in App \cup {None}
  /\ accepted_requests \in [App -> [0..(MAX_REQUESTS - 1) -> Conn \cup {NoConn}]]
  /\ get_index \in [App -> 0..(MAX_REQUESTS - 1)]
  /\ put_index \in [App -> 0..(MAX_REQUESTS - 1)]
  /\ is_queue_full \in [App -> 0..1]
  /\ requests_mutex \in [App -> Thread \cup {Acceptor, None}]
  /\ requests_cond \in [App -> SUBSET Thread]
  /\ pc \in [Thread -> ThreadPc]
  /\ sockfd \in [Thread -> Conn \cup {NoConn}]
  /\ answer \in [Conn -> App \cup {None, 404, 500}]

\* Every ring hands its connections over in order of arrival, each to exactly
\* one thread of its application, at most MAX_REQUESTS of them waiting (the
\* put side of accept_fastcgi_requests, the get side of run_app_by_thread).
RingHandoff ==
  /\ \A a \in App : Handoff(a)!Init
  /\ [][\A a \in App : Handoff(a)!Next \/ UNCHANGED <<Queue(a), Holding(a)>>]_fvars

\* "It'll awake one of sleeping Thread to server this Request": while a thread
\* of an application sleeps, at least as many of its threads are awake and on
\* their way to the ring as requests wait in it, so no request waits for a busy
\* thread while an idle one sleeps.
Ready(a) == {t \in ThreadsOf(a) : pc[t] \in {"lock", "relock", "check"}}

NoIdleSleeper ==
  \A a \in App : requests_cond[a] # {} => QueueLen(a) =< Cardinality(Ready(a))

\* Mutual exclusion on a ring: of the threads of an application and the accept
\* loop, at most one is between the lock and the unlock of its requests_mutex,
\* a thread that pthread_cond_wait returned to included.
AtRing(t) == pc[t] \in {"check", "unlock"}

AcceptorAtRing(a) == apc \in {"enqueue", "unlock", "unlock_full"} /\ app_index = a

RingExclusive ==
  \A t \in Thread : AtRing(t) =>
    /\ \A u \in ThreadsOf(AppOf[t]) : AtRing(u) => u = t
    /\ ~AcceptorAtRing(AppOf[t])

\* A client is told 500 only if MAX_REQUESTS requests for the application were
\* waiting when the acceptor held its mutex (the test of is_queue_full).  Who
\* waits is told from what became of the accepted connections, not from the
\* ring: they are not answered and no thread holds them.
Unserved(a) ==
  {c \in 1..fd : /\ answer[c] = None
                 /\ c # fd
                 /\ \A t \in Thread : sockfd[t] # c
                 /\ \A b \in App \ {a} : \A i \in 1..QueueLen(b) : Queue(b)[i] # c}

RejectedOnlyWhenFull ==
  apc = "unlock_full" => Cardinality(Unserved(app_index)) = MAX_REQUESTS

\* A request for the script of an application is answered by that application
\* or with 500, never with 404 and never by another one (the name lookup).
KnownScriptRoutedByName ==
  \A c \in Conn : request[c] \in App => answer[c] \in {None, 500, request[c]}

\* "it'll be picked whenever a Thread becomes Free": every client of a loadable
\* application is answered.
EveryRequestAnswered ==
  \A c \in Conn : (connected >= c /\ request[c] \in Loadable) ~> (answer[c] # None)
=============================================================================
